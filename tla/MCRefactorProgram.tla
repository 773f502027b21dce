------------------------- MODULE MCRefactorProgram -------------------------
(***************************************************************************)
(* The option values and the registry of MCRefactorMain.                   *)
(***************************************************************************)
EXTENDS RefactorProgram, MCRefactorMain
=============================================================================
