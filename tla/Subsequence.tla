---------------------------- MODULE Subsequence ----------------------------
(***************************************************************************)
(* Sequences with some of their elements left out.                         *)
(***************************************************************************)
EXTENDS SequencesExt

(* The elements of a sequence that are in a set, in their order.           *)
Kept(s, S) ==
  FlattenSeq([i \in DOMAIN s |-> IF s[i] \in S THEN <<s[i]>> ELSE << >>])
=============================================================================
