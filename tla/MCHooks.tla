------------------------------ MODULE MCHooks ------------------------------
(***************************************************************************)
(* Four hooks: the vector grows at the first three, not at the fourth.     *)
(***************************************************************************)
EXTENDS Hooks

HookSymmetry == Permutations(Hook)
=============================================================================
