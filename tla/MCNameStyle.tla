---------------------------- MODULE MCNameStyle ----------------------------
EXTENDS NameStyle

(* One field for every distinct entry of the two tables without an affix:  *)
(* snake case, upper snake case, both camel cases and plain upper case.    *)
PlainKinds == {"namespace_", "records", "function", "macro", "include_guard"}

AffixKinds == {"getter", "source_file"}
=============================================================================
