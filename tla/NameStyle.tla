----------------------------- MODULE NameStyle -----------------------------
(***************************************************************************)
(* Splitting identifiers into words and joining words in a naming style    *)
(* (lib/namestyle.cpp).  A character is known by its class; the grammar    *)
(* general_id_seperator is a set of functions from a position to the       *)
(* position behind what was matched, which is the position itself where    *)
(* the rule fails.                                                         *)
(*                                                                         *)
(* The state is an identifier that is typed and then put into one style    *)
(* after the other.                                                        *)
(***************************************************************************)
EXTENDS Naturals, Sequences, SequencesExt

CONSTANTS
  MaxLength, \* bound on the length of a typed identifier
  Kinds      \* the fields of NameStyle that are exercised

ASSUME MaxLengthAssumption == MaxLength \in Nat

lower == "lower case letter"
upper == "upper case letter"
digit == "digit"
underscore == "_"
other == "any other character"

Letter == {lower, upper}
Alnum == Letter \cup {digit}
Separator == {underscore, other}
Char == Alnum \cup Separator

VARIABLES
  id,    \* the identifier as it was typed
  name,  \* the identifier now
  split, \* what splitIdentifer makes of name
  style  \* the TypeNameStyle name is in

vars == <<id, name, split, style>>
-----------------------------------------------------------------------------
(* The character at position p, or "" behind the end.                      *)
CharAt(s, p) == IF p <= Len(s) THEN s[p] ELSE ""

(* The position behind the longest match from p on that stays in the       *)
(* positions a character parser accepts.                                   *)
Span(p, accepted) ==
  CHOOSE e \in {p} \cup {i + 1 : i \in accepted} :
    e >= p /\ p..(e - 1) \subseteq accepted /\ e \notin accepted

Skip(s, p, class) == Span(p, {i \in DOMAIN s : s[i] \in class})

LowerCase(s, p) == Skip(s, p, {lower, digit})

CamelCase(s, p) ==
  IF CharAt(s, p) = upper /\ CharAt(s, p + 1) \in {lower, digit}
  THEN Skip(s, p + 1, {lower, digit})
  ELSE p

(* Faulty: an upper case letter belongs to an acronym whatever follows.    *)
GreedyUpperCase(s, p) == Skip(s, p, {upper, digit})

(* gid_upper_case leaves the letter that begins a capitalized word.        *)
GidUpperCase(s, p) ==
  Span(p, {i \in DOMAIN s :
             s[i] = digit \/ (s[i] = upper /\ CharAt(s, i + 1) # lower)})

Gid(s, p) ==
  IF LowerCase(s, p) > p THEN LowerCase(s, p)
  ELSE IF CamelCase(s, p) > p THEN CamelCase(s, p)
  ELSE GidUpperCase(s, p)

FirstId(s, p) == Gid(s, Skip(s, p, {digit}))

(* Faulty: digits in front of a word are matched but not kept.             *)
WordWithoutDigits(s, a, e) == SubSeq(s, Skip(s, a, {digit}), e - 1)

(* The attribute of first_id and nth_id.                                   *)
Word(s, a, e) == SubSeq(s, a, e - 1)

(* What *nth_id matches from p on: the words, and where it ends.           *)
NthIds(s) ==
  LET from[p \in 1..(Len(s) + 1)] ==
        LET a == Skip(s, p, Separator)
            e == IF a = p THEN Gid(s, p) ELSE FirstId(s, a)
        IN  IF e > a
            THEN [words |-> <<Word(s, a, e)>> \o from[e].words,
                  end   |-> from[e].end]
            ELSE [words |-> << >>, end |-> p]
  IN  from

(* try_parse with general_id_seperator: an expectation that is not met and *)
(* an input that is not consumed are both failures.                        *)
Parse(s) ==
  LET start == Skip(s, 1, Separator)
      first == FirstId(s, start)
      rest  == NthIds(s)[first]
  IN  [ok    |-> first > start /\ Skip(s, rest.end, Separator) = Len(s) + 1,
       words |-> <<Word(s, start, first)>> \o rest.words]

EscapeChar(c) == IF c \in Alnum THEN c ELSE underscore

(* Faulty: the empty identifier is no special case.                        *)
SplitEmptyToo(s) ==
  IF Len(s) = 1 THEN [ok |-> TRUE, parts |-> <<<<EscapeChar(s[1])>>>>]
  ELSE IF Parse(s).ok THEN [ok |-> TRUE, parts |-> Parse(s).words]
  ELSE [ok |-> FALSE, parts |-> <<s>>]

(* Faulty: separators behind the last word are not part of the grammar.    *)
SplitUnterminated(s) ==
  IF s = << >> THEN [ok |-> TRUE, parts |-> << >>]
  ELSE IF Len(s) = 1 THEN [ok |-> TRUE, parts |-> <<<<EscapeChar(s[1])>>>>]
  ELSE IF Parse(s).ok /\ s[Len(s)] \in Alnum
       THEN [ok |-> TRUE, parts |-> Parse(s).words]
  ELSE [ok |-> FALSE, parts |-> <<s>>]

SplitIdentifier(s) ==
  IF s = << >> THEN [ok |-> TRUE, parts |-> << >>]
  ELSE IF Len(s) = 1 THEN [ok |-> TRUE, parts |-> <<<<EscapeChar(s[1])>>>>]
  ELSE LET parsed == Parse(s)
       IN  [ok    |-> parsed.ok,
            parts |-> IF parsed.ok THEN parsed.words ELSE <<s>>]

(* The overload with a guessed style.  It calls StringRef::slice for the   *)
(* prefix and for the suffix, drops the results, and splits what it got.   *)
SplitGuessed(s, guessed) == SplitIdentifier(s)
-----------------------------------------------------------------------------
Lower(s) == [i \in DOMAIN s |-> IF s[i] = upper THEN lower ELSE s[i]]
Upper(s) == [i \in DOMAIN s |-> IF s[i] = lower THEN upper ELSE s[i]]

(* Faulty: what follows the first letter keeps its case.                   *)
CapitalizeOnly(s) == Upper(SubSeq(s, 1, 1)) \o Tail(s)

ToCamelCase(s) ==
  IF s = << >> THEN s ELSE Upper(SubSeq(s, 1, 1)) \o Lower(Tail(s))

ConvertPart(s, n, capitalization) ==
  CASE capitalization = "LowerCase" -> Lower(s)
    [] capitalization = "UpperCase" -> Upper(s)
    [] capitalization = "UpperCamelCase" -> ToCamelCase(s)
    [] capitalization = "LowerCamelCase" ->
         IF n = 1 THEN Lower(s) ELSE ToCamelCase(s)
    [] OTHER -> s

(* Faulty: the word delimiter is forgotten.                                *)
JoinUndelimited(words, st) ==
  st.prefix
    \o FlattenSeq([n \in DOMAIN words |->
                     ConvertPart(words[n], n, st.capitalization)])
    \o st.suffix

JoinIdentifier(words, st) ==
  st.prefix
    \o FlattenSeq([n \in DOMAIN words |->
                     (IF n = 1 THEN << >> ELSE st.word_delimiter)
                       \o ConvertPart(words[n], n, st.capitalization)])
    \o st.suffix

TypeNameStyle ==
  [capitalization : {"Original", "UpperCamelCase", "LowerCamelCase",
                     "LowerCase", "UpperCase"},
   word_delimiter : Seq(Char), prefix : Seq(Char), suffix : Seq(Char)]

Plain(capitalization, delimiter) ==
  [capitalization |-> capitalization, word_delimiter |-> delimiter,
   prefix |-> << >>, suffix |-> << >>]

(* The fields of NameStyle; the two file suffixes and _test.cpp differ     *)
(* only in length here.                                                    *)
Field ==
  {"namespace_", "records", "methods", "static_method", "function", "getter",
   "setter", "bool_getter", "variable", "field", "constant", "parameter",
   "template_parameter", "macro", "source_file", "header_file", "test_file",
   "include_guard"}

FileSuffix(f) ==
  CASE f = "source_file" -> <<other, lower, lower, lower>>
    [] f = "test_file" -> <<underscore, lower, lower, lower, lower,
                            other, lower, lower, lower>>
    [] f = "header_file" -> <<other, lower, lower, lower>>
    [] OTHER -> << >>

Boost ==
  [f \in Field |->
     LET common == [Plain("LowerCase", <<underscore>>) EXCEPT
                      !.suffix = FileSuffix(f)]
     IN  IF f = "macro" THEN [common EXCEPT !.capitalization = "UpperCase"]
         ELSE IF f = "include_guard" THEN Plain("UpperCase", << >>)
         ELSE common]

Llvm ==
  [f \in Field |->
     LET common == Plain("UpperCamelCase", << >>)
         func   == Plain("LowerCamelCase", << >>)
     IN  CASE f \in {"methods", "static_method", "function"} -> func
           [] f \in {"getter", "setter"} ->
                [func EXCEPT !.prefix = <<lower, lower, lower>>]
           [] f = "bool_getter" -> [func EXCEPT !.prefix = <<lower, lower>>]
           [] f = "namespace_" -> Plain("LowerCase", <<underscore>>)
           [] f \in {"macro", "include_guard"} -> Plain("UpperCase", << >>)
           [] f = "header_file" -> [common EXCEPT !.suffix = <<other, lower>>]
           [] OTHER -> [common EXCEPT !.suffix = FileSuffix(f)]]

(* getNameStyle, with the two styles the registry is constructed with.     *)
NameStyles == [boost |-> Boost, llvm |-> Llvm]

ASSUME KindsAssumption == Kinds \subseteq Field

HasAffix(st) == st.prefix # << >> \/ st.suffix # << >>
-----------------------------------------------------------------------------
(* An identifier as it was found is in no style that is known.             *)
Typed == Plain("Original", << >>)

Init ==
  /\ id = << >>
  /\ name = << >>
  /\ split = SplitIdentifier(<< >>)
  /\ style = Typed

Type(c) ==
  /\ style = Typed
  /\ Len(id) < MaxLength
  /\ id' = Append(id, c)
  /\ name' = id'
  /\ split' = SplitIdentifier(name')
  /\ UNCHANGED style

(* A caller joins the words in another style, and splits what it gets.  An *)
(* affix grows with every conversion, so a name that has one is not        *)
(* converted again.                                                        *)
Convert(styles, kind) ==
  /\ ~HasAffix(style)
  /\ style' = NameStyles[styles][kind]
  /\ name' = JoinIdentifier(split.parts, style')
  /\ split' = SplitIdentifier(name')
  /\ UNCHANGED id

Next ==
  \/ \E c \in Char : Type(c)
  \/ \E styles \in DOMAIN NameStyles, kind \in Kinds : Convert(styles, kind)

Spec == Init /\ [][Next]_vars
-----------------------------------------------------------------------------
(* The letters and digits of a text, in their order.                       *)
Alnums(s) ==
  FlattenSeq([i \in DOMAIN s |-> IF s[i] \in Alnum THEN <<s[i]>> ELSE << >>])

Caseless(s) == Lower(Alnums(s))
CaselessParts(words) == [k \in DOMAIN words |-> Lower(words[k])]
HasWord(s) == \E i \in DOMAIN s : s[i] \in Alnum

TypeOK ==
  /\ id \in Seq(Char)
  /\ name \in Seq(Char)
  /\ split \in [ok : BOOLEAN, parts : Seq(Seq(Char) \ {<< >>})]
  /\ style \in TypeNameStyle

(* Splitting loses and invents nothing: an identifier with a letter or a   *)
(* digit in it always parses, its words hold its letters and digits in     *)
(* their order, and no word is empty or has a separator in it.             *)
PartsCover ==
  HasWord(name) =>
    /\ split.ok
    /\ FlattenSeq(split.parts) = Alnums(name)
    /\ \A k \in DOMAIN split.parts : split.parts[k] # << >>

(* A word of name begins at p if the letters and digits before p fill      *)
(* whole words.                                                            *)
StartsWord(p) ==
  \E k \in DOMAIN split.parts :
    Len(FlattenSeq(SubSeq(split.parts, 1, k - 1)))
      = Len(Alnums(SubSeq(name, 1, p - 1)))

(* Between two neighbouring letters a word begins exactly at a capital     *)
(* behind a small letter and at the last capital of an acronym that a      *)
(* small letter follows; a digit never begins a word but behind a          *)
(* separator (gid and its three alternatives, in that order).              *)
WordBoundaries ==
  \A p \in 2..Len(name) :
    name[p - 1] \in Alnum /\ name[p] \in Alnum =>
      /\ name[p - 1] \in Letter /\ name[p] \in Letter =>
           (StartsWord(p) <=>
              /\ name[p] = upper
              /\ name[p - 1] = lower \/ CharAt(name, p + 1) = lower)
      /\ name[p] = digit => ~StartsWord(p)

(* Lower case with underscores is a normal form: splitting what was joined *)
(* that way gives the words it was joined from, so converting twice is     *)
(* converting once (joinIdentifier against splitIdentifer).                *)
SnakeIsStable ==
  [][style' = Boost["function"] /\ HasWord(name) =>
       split'.parts = CaselessParts(split.parts)]_vars

(* Camel case can be read back if every word begins with a letter and none *)
(* is a single letter in front of a word that looks like an acronym once   *)
(* it is capitalized ("a_b" becomes "AB").                                 *)
CamelCaseKeeps(words) ==
  /\ \A k \in DOMAIN words : words[k][1] \in Letter
  /\ \A k \in 1..(Len(words) - 1) :
       Len(words[k]) >= 2 \/ CharAt(words[k + 1], 2) \in Letter

(* Words that camel case keeps apart come back from the camel case name as *)
(* they were, but for case (joinIdentifier against splitIdentifer).        *)
CamelIsReadBack ==
  [][/\ style' \in {Llvm["function"], Llvm["records"]}
     /\ HasWord(name)
     /\ CamelCaseKeeps(split.parts)
     => CaselessParts(split'.parts) = CaselessParts(split.parts)]_vars

(* However often a name changes its style, it stays the name that was      *)
(* typed but for case and separators (splitIdentifer, joinIdentifier).     *)
ConversionKeepsLetters ==
  ~HasAffix(style) => Caseless(name) = Caseless(id)

(* splitIdentifer can split any name over letters, digits and underscores  *)
(* (its unit test feeds it random ones of that alphabet).                  *)
EveryIdentifierParses ==
  style = Typed /\ other \notin ToSet(id) => split.ok

(* Splitting with the style a name was joined in as the guess removes the  *)
(* prefix and the suffix of that style (the comments in that overload).    *)
GuessDropsAffix ==
  HasAffix(style) /\ HasWord(id) =>
    Caseless(FlattenSeq(SplitGuessed(name, style).parts)) = Caseless(id)
=============================================================================
