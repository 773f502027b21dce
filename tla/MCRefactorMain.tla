--------------------------- MODULE MCRefactorMain ---------------------------
(***************************************************************************)
(* Every option value of up to MaxLength tokens, and a registry with the   *)
(* rename module after another one.                                        *)
(***************************************************************************)
EXTENDS RefactorMain

CONSTANT MaxLength

MCOptionValues == UNION {[1..n -> Token] : n \in 0..MaxLength}

MCModules == <<{"other-refactoring"}, {"rename-function"}>>
=============================================================================
