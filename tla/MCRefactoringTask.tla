------------------------- MODULE MCRefactoringTask -------------------------
(***************************************************************************)
(* Instances of RefactoringTask: two sources, main.cpp and util.cpp, that  *)
(* both include util.h, with the cases that make a rename hard; and one of *)
(* the tests the program has for its command line.                         *)
(***************************************************************************)
EXTENDS RefactoringTask

CONSTANTS F, G, H  \* F and G are renamed

mainCpp == 1
utilCpp == 2
utilH == 3

TheNode(form, target, path, offset, inside) ==
  [form |-> form, target |-> target, path |-> path, offset |-> offset,
   inside |-> inside]

Decl(target, path, offset) == TheNode("FunctionDecl", target, path, offset, {})
Ref(target, path, offset) == TheNode("DeclRefExpr", target, path, offset, {})
Lookup(target, path, offset) ==
  TheNode("UnresolvedLookupExpr", target, path, offset, {})

(* What a node is in the units that instantiate the template it is in.     *)
Instantiated(node) == [node EXCEPT !.inside = {"instantiation"}]
Substituted(node) ==
  [node EXCEPT !.inside = {"instantiation", "substitution"}]

(* util.h: F is declared, and the second token is in a template or comes   *)
(* out of a macro.                                                         *)
declF == Decl(F, utilH, 1)
inHeader(target) == Ref(target, utilH, 2)

callF == Ref(F, mainCpp, 1)
callG == Ref(G, mainCpp, 2)
defineF == Decl(F, utilCpp, 1)
usingF == TheNode("UsingDecl", F, mainCpp, 1, {})
memberF == TheNode("MemberExpr", F, mainCpp, 2, {})
pastedF == Ref(F, NoPath, 1)
pastedF2 == Ref(F, NoPath, 2)

Program(main, util) == [s \in Source |-> IF s = 1 THEN main ELSE util]

MCPrograms ==
  { \* The template calls what its argument selects: F in one unit, H in
    \* the other.
    Program({declF, callF, Lookup(F, utilH, 2), Instantiated(inHeader(F))},
            {declF, defineF, Lookup(F, utilH, 2), Instantiated(inHeader(H))}),
    \* Its call of F depends on nothing, and one unit instantiates it.
    Program({declF, Instantiated(declF), callF, Instantiated(inHeader(F))},
            {declF, Instantiated(declF), inHeader(F)}),
    \* Both units instantiate it; F is a member that main.cpp uses.
    Program({declF, Instantiated(inHeader(F)), usingF, memberF},
            {declF, Instantiated(inHeader(F))}),
    \* The second token is in a macro and means F here and H there.
    Program({declF, inHeader(F)}, {declF, inHeader(H)}),
    \* Tokens in no file, and a function pointer as template argument.
    Program({callG, pastedF, declF}, {pastedF, pastedF2, Substituted(inHeader(G))}),
    \* F and G are called at neighbouring tokens, and one of them in both
    \* units.
    Program({declF, callF, callG}, {declF, Substituted(inHeader(G))}),
    Program({callG, Instantiated(inHeader(F))},
            {defineF, Instantiated(inHeader(H)), callG}) }

RenameF == <<[old |-> F, new |-> 1]>>
RenameBoth == <<[old |-> F, new |-> 2], [old |-> G, new |-> 1]>>
-----------------------------------------------------------------------------
(* tests/cli/rename-function/template_function, one file: the function     *)
(* template func (line 9), its call in CallMeSafe where only the template  *)
(* argument depends on something (39), its call in CallMeUnsafe1 where the *)
(* arguments do (45), and a call in main (59).  Both templates are         *)
(* instantiated.                                                           *)
line9 == 1
line39 == 2
line45 == 3
line59 == 4

TemplateFunction ==
  { Program({ Decl(F, mainCpp, line9),
              Lookup(F, mainCpp, line39), Instantiated(Ref(F, mainCpp, line39)),
              Lookup(F, mainCpp, line45), Instantiated(Ref(F, mainCpp, line45)),
              Ref(F, mainCpp, line59) }, {}) }

(* After the test's run the file is the one of template_function.expected: *)
(* only the call whose arguments depend on something keeps the old name.   *)
TemplateFunctionAsExpected ==
  phase = "exited" /\ exit = "success" /\ parsed = Source =>
    disk[mainCpp] = [o \in Offset |-> IF o = line45 THEN << >> ELSE <<1>>]
=============================================================================
