--------------------------- MODULE MCTaskSession ---------------------------
(***************************************************************************)
(* Two units share a header, which the second one opens by another path.   *)
(* There are two renamings of one name, one of them to a longer name, and  *)
(* one that takes a renaming back.                                         *)
(***************************************************************************)
EXTENDS TaskSession

a == 1
b == 2

MCContents == [header |-> <<a, a>>, main |-> <<a>>]
MCFileOf == <<"main", "header", "header">>
MCUnits == << <<1, 2>>, <<3>> >>
MCRefactorings == {[old |-> <<a>>, new |-> <<b>>],
                   [old |-> <<a>>, new |-> <<b, b>>],
                   [old |-> <<b>>, new |-> <<a>>]}
=============================================================================
