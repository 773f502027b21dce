---------------------------- MODULE AtomicRename ----------------------------
(***************************************************************************)
(* What a run of the tool promises about the user's files: a plan of the   *)
(* files to change grows until the first of them is published, planned     *)
(* files go from the old to the new text as a whole and one at a time, and *)
(* the result says whether the plan was carried out.                       *)
(***************************************************************************)
CONSTANT File

VARIABLES
  tree,    \* the text each file has
  plan,    \* the files to be renamed in
  result   \* how the run ended, or "none"

vars == <<tree, plan, result>>

Untouched == \A f \in File : tree[f] = "old"

Running == result = "none"

Init ==
  /\ tree = [f \in File |-> "old"]
  /\ plan = {}
  /\ result = "none"

Extend ==
  /\ Running /\ Untouched
  /\ plan' \in SUBSET File
  /\ plan \subseteq plan'
  /\ UNCHANGED <<tree, result>>

Publish ==
  /\ Running
  /\ \E f \in plan : tree[f] = "old" /\ tree' = [tree EXCEPT ![f] = "new"]
  /\ UNCHANGED <<plan, result>>

Succeed ==
  /\ Running
  /\ \A f \in plan : tree[f] = "new"
  /\ result' = "success"
  /\ UNCHANGED <<tree, plan>>

Fail ==
  /\ Running
  /\ Untouched \/ \E f \in plan : tree[f] = "old"
  /\ result' = "failure"
  /\ UNCHANGED <<tree, plan>>

Die ==
  /\ Running
  /\ result' = "died"
  /\ UNCHANGED <<tree, plan>>

Next == Extend \/ Publish \/ Succeed \/ Fail \/ Die

Spec == Init /\ [][Next]_vars
=============================================================================
