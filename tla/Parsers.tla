------------------------------ MODULE Parsers ------------------------------
(***************************************************************************)
(* The grammars of lib/utils/parsers.cpp: isIdentifier, and the definition *)
(* of a function as RenameFunction is going to use it ("TODO: parse        *)
(* `definition`").  A character is known by its class; an underscore is a  *)
(* letter, which is all the grammar sees of it.                            *)
(*                                                                         *)
(* A rule takes the position it starts at to the position behind its       *)
(* match, or to Fail.  A parser skips blanks in front of what it matches   *)
(* while it has a skipper; lexeme and no_skip take the skipper away.       *)
(*                                                                         *)
(* The state is a text that is typed.                                      *)
(***************************************************************************)
EXTENDS Naturals, Sequences

CONSTANT MaxLength \* bound on the length of the text

ASSUME MaxLengthAssumption == MaxLength \in Nat

letter == "letter"
digit == "digit"
colon == ":"
blank == " "
other == "any other character"

Char == {letter, digit, colon, blank, other}

VARIABLE text

Fail == 0
-----------------------------------------------------------------------------
(* The first position from p on that is not one of the given characters.   *)
Skip(s, p, class) ==
  CHOOSE e \in p..(Len(s) + 1) :
    /\ e = Len(s) + 1 \/ s[e] \notin class
    /\ \A i \in p..(e - 1) : s[i] \in class

SkipBlanks(s, p) == Skip(s, p, {blank})

(* What lexeme holds in rule identifier.                                   *)
Identifier(s, p) ==
  IF p \in DOMAIN s /\ s[p] = letter THEN Skip(s, p, {letter, digit}) ELSE Fail

(* Faulty: blanks in front of the operator are not skipped.                *)
ScopeAtOnce(s, p) ==
  IF p + 1 \in DOMAIN s /\ s[p] = colon /\ s[p + 1] = colon THEN p + 2 ELSE Fail

(* Faulty: one colon will do.                                              *)
AnyColon(s, p) ==
  LET a == SkipBlanks(s, p)
  IN  IF a \in DOMAIN s /\ s[a] = colon THEN a + 1 ELSE Fail

(* lit("::")                                                               *)
Scope(s, p) ==
  LET a == SkipBlanks(s, p)
  IN  IF a + 1 \in DOMAIN s /\ s[a] = colon /\ s[a + 1] = colon
      THEN a + 2 ELSE Fail

(* One round of funcdef: lit("::") >> identifier.                          *)
Part(s, p) ==
  IF Scope(s, p) = Fail THEN Fail ELSE Identifier(s, SkipBlanks(s, Scope(s, p)))

(* The rule funcdef: as many rounds as match, at least one.  A round that  *)
(* fails goes back to where it began.                                      *)
FuncDef(s) ==
  LET from[p \in 1..(Len(s) + 1)] ==
        IF Part(s, p) = Fail THEN p ELSE from[Part(s, p)]
  IN  IF Part(s, 1) = Fail THEN Fail ELSE from[1]

(* phrase_parse skips blanks behind the match; the callers then want to be *)
(* at the end.                                                             *)
ConsumesAll(s, p) == p # Fail /\ SkipBlanks(s, p) = Len(s) + 1

(* Faulty: blanks in front of the identifier are skipped.                  *)
isIdentifierSkipping(s) == ConsumesAll(s, Identifier(s, SkipBlanks(s, 1)))

isIdentifier(s) == ConsumesAll(s, Identifier(s, 1))

(* parseFunctionDefinition returns; otherwise it throws.                   *)
parseFunctionDefinition(s) == ConsumesAll(s, FuncDef(s))

Init == text = << >>

Type ==
  /\ Len(text) < MaxLength
  /\ \E c \in Char : text' = Append(text, c)

Next == Type

Spec == Init /\ [][Next]_text
-----------------------------------------------------------------------------
(* The part of a text without the blanks around it.                        *)
Trimmed(s) ==
  LET solid == {i \in DOMAIN s : s[i] # blank}
  IN  IF solid = {} THEN << >>
      ELSE SubSeq(s, CHOOSE i \in solid : \A j \in solid : i <= j,
                     CHOOSE i \in solid : \A j \in solid : j <= i)

IsWord(s) ==
  /\ s # << >>
  /\ s[1] = letter
  /\ \A i \in DOMAIN s : s[i] \in {letter, digit}

(* "::" and a word, with blanks wherever they do not split either.         *)
IsQualifiedWord(s) ==
  LET t == Trimmed(s)
  IN  /\ Len(t) >= 2 /\ t[1] = colon /\ t[2] = colon
      /\ IsWord(Trimmed(SubSeq(t, 3, Len(t))))

(* parseFunctionDefinition accepts exactly the texts that can be cut into  *)
(* qualified words, and every character counts: greedy matching without    *)
(* going back misses none of them.                                         *)
DefinitionsAccepted ==
  parseFunctionDefinition(text) <=>
    \E cuts \in SUBSET (0..(Len(text) - 1)) :
      /\ 0 \in cuts
      /\ \A c \in cuts :
           LET ends == {d \in cuts \cup {Len(text)} : d > c}
               end == CHOOSE d \in ends : \A e \in ends : d <= e
           IN  IsQualifiedWord(SubSeq(text, c + 1, end))

(* isIdentifier accepts a word and nothing in front of it, but blanks      *)
(* behind it are let through: no_skip does not reach the skipping that     *)
(* phrase_parse does at the end.                                           *)
IdentifiersAccepted ==
  isIdentifier(text) <=>
    \E n \in 1..Len(text) :
      /\ IsWord(SubSeq(text, 1, n))
      /\ \A i \in (n + 1)..Len(text) : text[i] = blank

(* RenameFunction puts "::" in front of a relative name; without it the    *)
(* parser refuses every identifier, with it none.                          *)
PrefixMakesDefinition ==
  isIdentifier(text) =>
    /\ ~parseFunctionDefinition(text)
    /\ parseFunctionDefinition(<<colon, colon>> \o text)
=============================================================================
