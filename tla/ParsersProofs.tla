--------------------------- MODULE ParsersProofs ---------------------------
(***************************************************************************)
(* Proofs about the grammars, for texts of every length: what each accepts *)
(* is what its declarative description says.  Induction along a text is    *)
(* done on the greatest position at which a claim would fail.              *)
(***************************************************************************)
EXTENDS Parsers, SequenceTheorems, DataInduction, TLAPS

WordChar == {letter, digit}

(* The classes are five different ones.                                    *)
LEMMA ClassesDiffer ==
  /\ letter # blank /\ letter # colon /\ digit # blank /\ digit # colon
  /\ colon # blank
  /\ letter \in WordChar /\ blank \notin WordChar /\ colon \notin WordChar
BY DEF letter, digit, blank, colon, WordChar
-----------------------------------------------------------------------------
(* Skip stops at the end of the text or at the first character that is not *)
(* of the class.                                                           *)
LEMMA SkipIs ==
  ASSUME NEW s \in Seq(Char), NEW p \in 1..(Len(s) + 1), NEW class
  PROVE  /\ Skip(s, p, class) \in p..(Len(s) + 1)
         /\ Skip(s, p, class) = Len(s) + 1 \/ s[Skip(s, p, class)] \notin class
         /\ \A i \in p..(Skip(s, p, class) - 1) : s[i] \in class
<1> DEFINE Stops == {e \in p..(Len(s) + 1) : e = Len(s) + 1 \/ s[e] \notin class}
<1>0. Len(s) \in Nat
  BY LenProperties
<1>1. Stops \in SUBSET Nat /\ Len(s) + 1 \in Stops
  BY <1>0
<1>2. PICK e \in Stops : \A m \in Stops : e <= m
  BY <1>1, LeastExists
<1>3. \A i \in p..(e - 1) : s[i] \in class
  BY <1>0, <1>2
<1> QED
  BY <1>2, <1>3 DEF Skip

(* There is no other such position.                                        *)
LEMMA SkipStops ==
  ASSUME NEW s \in Seq(Char), NEW p \in 1..(Len(s) + 1), NEW class,
         NEW e \in p..(Len(s) + 1),
         e = Len(s) + 1 \/ s[e] \notin class,
         \A i \in p..(e - 1) : s[i] \in class
  PROVE  Skip(s, p, class) = e
<1> DEFINE k == Skip(s, p, class)
<1>0. Len(s) \in Nat
  BY LenProperties
<1>1. /\ k \in p..(Len(s) + 1)
      /\ k = Len(s) + 1 \/ s[k] \notin class
      /\ \A i \in p..(k - 1) : s[i] \in class
  BY SkipIs
<1> HIDE DEF k
<1>2. ~(k < e)
  BY <1>0, <1>1
<1>3. ~(e < k)
  BY <1>0, <1>1
<1> QED
  BY <1>0, <1>1, <1>2, <1>3 DEF k

(* Starting anywhere in a run of blanks ends at the same place.            *)
LEMMA SkipFromBlank ==
  ASSUME NEW s \in Seq(Char), NEW p \in 1..(Len(s) + 1),
         NEW r \in p..(Len(s) + 1), \A i \in p..(r - 1) : s[i] = blank
  PROVE  SkipBlanks(s, p) = SkipBlanks(s, r)
<1>0. Len(s) \in Nat
  BY LenProperties
<1> DEFINE k == Skip(s, r, {blank})
<1>1. /\ k \in r..(Len(s) + 1)
      /\ k = Len(s) + 1 \/ s[k] \notin {blank}
      /\ \A i \in r..(k - 1) : s[i] \in {blank}
  BY <1>0, SkipIs
<1> HIDE DEF k
<1>2. \A i \in p..(k - 1) : s[i] \in {blank}
  BY <1>0, <1>1
<1>3. k \in p..(Len(s) + 1)
  BY <1>0, <1>1
<1>4. Skip(s, p, {blank}) = k
  BY <1>1, <1>2, <1>3, SkipStops
<1> QED
  BY <1>4 DEF SkipBlanks, k

(* A part of a text is a word if it begins with a letter and goes on with  *)
(* letters and digits.                                                     *)
LEMMA WordIs ==
  ASSUME NEW s \in Seq(Char), NEW a \in 1..(Len(s) + 1), NEW b \in 0..Len(s)
  PROVE  IsWord(SubSeq(s, a, b)) <=>
           a <= b /\ s[a] = letter /\ \A i \in a..b : s[i] \in WordChar
<1>0. Len(s) \in Nat
  BY LenProperties
<1>1. CASE a <= b
  <2> DEFINE t == SubSeq(s, a, b)
  <2>1. \A i \in a..b : s[i] \in Char
    BY <1>0, ElementOfSeq
  <2>2. /\ t \in Seq(Char) /\ Len(t) = b - a + 1
        /\ \A i \in 1..(b - a + 1) : t[i] = s[a + i - 1]
    BY <1>0, <1>1, <2>1, SubSeqProperties
  <2>3. DOMAIN t = 1..(b - a + 1)
    BY <2>2, LenProperties
  <2> HIDE DEF t
  <2>4. t # << >> /\ t[1] = s[a]
    BY <1>0, <1>1, <2>2
  <2>5. (\A i \in DOMAIN t : t[i] \in WordChar) <=> \A i \in a..b : s[i] \in WordChar
    <3>1. ASSUME \A i \in DOMAIN t : t[i] \in WordChar, NEW i \in a..b
          PROVE  s[i] \in WordChar
      <4>1. i - a + 1 \in 1..(b - a + 1)
        BY <1>0
      <4>2. t[i - a + 1] = s[a + (i - a + 1) - 1]
        BY <2>2, <4>1
      <4>3. a + (i - a + 1) - 1 = i
        BY <1>0
      <4> QED
        BY <2>3, <3>1, <4>1, <4>2, <4>3
    <3>2. ASSUME \A i \in a..b : s[i] \in WordChar, NEW i \in DOMAIN t
          PROVE  t[i] \in WordChar
      <4>1. a + i - 1 \in a..b
        BY <1>0, <2>3
      <4> QED
        BY <2>2, <2>3, <3>2, <4>1
    <3> QED
      BY <3>1, <3>2
  <2>6. IsWord(t) <=> s[a] = letter /\ \A i \in a..b : s[i] \in WordChar
    BY <2>4, <2>5 DEF IsWord, WordChar
  <2> QED
    BY <1>1, <2>6 DEF t
<1>2. CASE ~(a <= b)
  <2>1. SubSeq(s, a, b) = << >>
    BY <1>0, <1>2, SubSeqEmpty
  <2> QED
    BY <1>2, <2>1 DEF IsWord
<1> QED
  BY <1>1, <1>2
-----------------------------------------------------------------------------
(* What is typed is a text.                                                *)
IsText == text \in Seq(Char)

(* Whatever has been typed is a sequence of characters.                    *)
THEOREM TextsAreTyped == Spec => []IsText
<1>1. Init => IsText
  BY DEF Init, IsText
<1>2. IsText /\ [Next]_text => IsText'
  BY DEF IsText, Next, Type
<1> QED
  BY <1>1, <1>2, PTL DEF Spec

(* isIdentifier accepts a word with blanks behind it.                      *)
LEMMA IdentifierIs ==
  ASSUME NEW s \in Seq(Char)
  PROVE  isIdentifier(s) <=>
           \E n \in 1..Len(s) :
             /\ s[1] = letter
             /\ \A i \in 1..n : s[i] \in WordChar
             /\ \A i \in (n + 1)..Len(s) : s[i] = blank
<1>0. Len(s) \in Nat /\ DOMAIN s = 1..Len(s)
  BY LenProperties
<1>1. ASSUME isIdentifier(s)
      PROVE  \E n \in 1..Len(s) :
               /\ s[1] = letter
               /\ \A i \in 1..n : s[i] \in WordChar
               /\ \A i \in (n + 1)..Len(s) : s[i] = blank
  <2> DEFINE e == Skip(s, 1, WordChar)
             k == Skip(s, e, {blank})
  <2>1. 1 \in 1..Len(s) /\ s[1] = letter /\ k = Len(s) + 1
    BY <1>0, <1>1
    DEF isIdentifier, ConsumesAll, Identifier, SkipBlanks, WordChar, Fail
  <2>2. /\ e \in 1..(Len(s) + 1)
        /\ e = Len(s) + 1 \/ s[e] \notin WordChar
        /\ \A i \in 1..(e - 1) : s[i] \in WordChar
    BY <1>0, SkipIs
  <2>3. \A i \in e..(k - 1) : s[i] \in {blank}
    BY <2>2, SkipIs
  <2> HIDE DEF e, k
  <2>4. e # 1
    BY <1>0, <2>1, <2>2, ClassesDiffer
  <2>5. e - 1 \in 1..Len(s)
    BY <1>0, <2>2, <2>4
  <2>6. \A i \in ((e - 1) + 1)..Len(s) : s[i] = blank
    BY <1>0, <2>1, <2>2, <2>3
  <2> QED
    BY <2>1, <2>2, <2>5, <2>6
<1>2. ASSUME NEW n \in 1..Len(s),
             s[1] = letter,
             \A i \in 1..n : s[i] \in WordChar,
             \A i \in (n + 1)..Len(s) : s[i] = blank
      PROVE  isIdentifier(s)
  <2>0. n + 1 \in 1..(Len(s) + 1) /\ 1 \in 1..(Len(s) + 1) /\ 1 \in DOMAIN s
    BY <1>0
  <2>1. n + 1 = Len(s) + 1 \/ s[n + 1] \notin WordChar
    BY <1>0, <1>2, ClassesDiffer
  <2>2. \A i \in 1..((n + 1) - 1) : s[i] \in WordChar
    BY <1>0, <1>2
  <2>3. Skip(s, 1, WordChar) = n + 1
    BY <2>0, <2>1, <2>2, SkipStops
  <2>4. Identifier(s, 1) = n + 1
    BY <1>2, <2>0, <2>3 DEF Identifier, WordChar
  <2>5. Len(s) + 1 \in (n + 1)..(Len(s) + 1)
    BY <1>0
  <2>6. \A i \in (n + 1)..((Len(s) + 1) - 1) : s[i] \in {blank}
    BY <1>0, <1>2
  <2>7. Skip(s, n + 1, {blank}) = Len(s) + 1
    BY <2>0, <2>5, <2>6, SkipStops
  <2>8. n + 1 # 0
    BY <1>0
  <2> QED
    BY <2>4, <2>7, <2>8 DEF isIdentifier, ConsumesAll, SkipBlanks, Fail
<1> QED
  BY <1>1, <1>2

(* isIdentifier accepts a word and nothing in front of it, but lets blanks *)
(* behind it through, for a text of any length.                            *)
THEOREM IdentifiersAreAccepted == Spec => []IdentifiersAccepted
<1>1. IsText => IdentifiersAccepted
  <2> SUFFICES ASSUME text \in Seq(Char)
               PROVE  IdentifiersAccepted
    BY DEF IsText
  <2>0. Len(text) \in Nat
    BY LenProperties
  <2>1. ASSUME NEW n \in 1..Len(text)
        PROVE  IsWord(SubSeq(text, 1, n)) <=>
                 text[1] = letter /\ \A i \in 1..n : text[i] \in WordChar
    <3>1. 1 \in 1..(Len(text) + 1) /\ n \in 0..Len(text) /\ 1 <= n
      BY <2>0
    <3> QED
      BY <3>1, WordIs
  <2> QED
    BY <2>1, IdentifierIs DEF IdentifiersAccepted
<1> QED
  BY <1>1, TextsAreTyped, PTL
-----------------------------------------------------------------------------
(* One round of funcdef, by its parts: blanks from p on, "::" at a, blanks,*)
(* and a word from b to the position in front of q.                        *)
Round(s, p, a, b, q) ==
  /\ a \in p..Len(s) /\ b \in (a + 2)..Len(s) /\ q \in (b + 1)..(Len(s) + 1)
  /\ \A i \in p..(a - 1) : s[i] = blank
  /\ s[a] = colon /\ s[a + 1] = colon
  /\ \A i \in (a + 2)..(b - 1) : s[i] = blank
  /\ s[b] = letter
  /\ \A i \in b..(q - 1) : s[i] \in WordChar

(* A round that matches has these parts, and takes the word to its end.    *)
LEMMA PartIsRound ==
  ASSUME NEW s \in Seq(Char), NEW p \in 1..(Len(s) + 1), Part(s, p) # Fail
  PROVE  /\ \E a, b \in Nat : Round(s, p, a, b, Part(s, p))
         /\ Part(s, p) = Len(s) + 1 \/ s[Part(s, p)] \notin WordChar
         /\ Part(s, p) \in (p + 1)..(Len(s) + 1)
<1>0. Len(s) \in Nat /\ DOMAIN s = 1..Len(s)
  BY LenProperties
<1> DEFINE a == SkipBlanks(s, p)
           b == SkipBlanks(s, a + 2)
           q == Skip(s, b, WordChar)
<1>1. /\ a \in p..(Len(s) + 1)
      /\ \A i \in p..(a - 1) : s[i] \in {blank}
  BY SkipIs DEF SkipBlanks
<1>2. Scope(s, p) # Fail
  BY DEF Part
<1>3. a + 1 \in 1..Len(s) /\ s[a] = colon /\ s[a + 1] = colon /\ Scope(s, p) = a + 2
  BY <1>0, <1>2 DEF Scope
<1>4. Part(s, p) = Identifier(s, b)
  BY <1>2, <1>3 DEF Part
<1> HIDE DEF a
<1>5. a + 2 \in 1..(Len(s) + 1) /\ a \in Nat
  BY <1>0, <1>1, <1>3
<1>6. /\ b \in (a + 2)..(Len(s) + 1)
      /\ \A i \in (a + 2)..(b - 1) : s[i] \in {blank}
  BY <1>5, SkipIs DEF SkipBlanks
<1> HIDE DEF b
<1>7. b \in 1..Len(s) /\ s[b] = letter /\ Part(s, p) = q
  BY <1>0, <1>4 DEF Identifier, WordChar
<1>8. /\ q \in b..(Len(s) + 1)
      /\ q = Len(s) + 1 \/ s[q] \notin WordChar
      /\ \A i \in b..(q - 1) : s[i] \in WordChar
  <2>1. b \in 1..(Len(s) + 1)
    BY <1>0, <1>7
  <2> QED
    BY <2>1, SkipIs
<1> HIDE DEF q
<1>9. q # b
  BY <1>0, <1>7, <1>8, ClassesDiffer
<1>10. a \in p..Len(s) /\ b \in (a + 2)..Len(s) /\ q \in (b + 1)..(Len(s) + 1)
  BY <1>0, <1>1, <1>3, <1>5, <1>6, <1>7, <1>8, <1>9
<1>11. Round(s, p, a, b, q)
  BY <1>1, <1>3, <1>6, <1>7, <1>8, <1>10 DEF Round
<1>12. b \in Nat /\ q \in (p + 1)..(Len(s) + 1)
  BY <1>0, <1>10
<1> QED
  BY <1>5, <1>7, <1>8, <1>11, <1>12

(* Where there is a round that takes its word to its end, it is the match. *)
LEMMA RoundIsPart ==
  ASSUME NEW s \in Seq(Char), NEW p \in 1..(Len(s) + 1),
         NEW a, NEW b, NEW q, Round(s, p, a, b, q),
         q = Len(s) + 1 \/ s[q] \notin WordChar
  PROVE  Part(s, p) = q /\ q # Fail
<1>0. Len(s) \in Nat /\ DOMAIN s = 1..Len(s)
  BY LenProperties
<1>1. a \in p..Len(s) /\ b \in (a + 2)..Len(s) /\ q \in (b + 1)..(Len(s) + 1)
  BY DEF Round
<1>2. /\ a \in p..(Len(s) + 1) /\ s[a] # blank
      /\ \A i \in p..(a - 1) : s[i] \in {blank}
      /\ a + 1 \in 1..Len(s) /\ a + 2 \in 1..(Len(s) + 1)
  BY <1>0, <1>1, ClassesDiffer DEF Round
<1>3. SkipBlanks(s, p) = a
  BY <1>2, SkipStops DEF SkipBlanks
<1>4. Scope(s, p) = a + 2 /\ a + 2 # Fail
  BY <1>0, <1>1, <1>2, <1>3 DEF Scope, Round, Fail
<1>5. /\ b \in (a + 2)..(Len(s) + 1) /\ s[b] # blank
      /\ \A i \in (a + 2)..(b - 1) : s[i] \in {blank}
      /\ b \in 1..(Len(s) + 1) /\ b \in DOMAIN s
  BY <1>0, <1>1, ClassesDiffer DEF Round
<1>6. SkipBlanks(s, a + 2) = b
  BY <1>2, <1>5, SkipStops DEF SkipBlanks
<1>7. /\ q \in b..(Len(s) + 1) /\ q # 0
      /\ \A i \in b..(q - 1) : s[i] \in WordChar
  BY <1>0, <1>1 DEF Round
<1>8. Skip(s, b, WordChar) = q
  BY <1>5, <1>7, SkipStops
<1>9. Identifier(s, b) = q
  BY <1>5, <1>8 DEF Identifier, Round, WordChar
<1> QED
  BY <1>4, <1>6, <1>7, <1>9 DEF Part, Fail

(* Blanks in front of a round make no difference.                          *)
LEMMA PartFromBlank ==
  ASSUME NEW s \in Seq(Char), NEW p \in 1..(Len(s) + 1),
         NEW r \in p..(Len(s) + 1), \A i \in p..(r - 1) : s[i] = blank
  PROVE  Part(s, p) = Part(s, r)
<1>1. SkipBlanks(s, p) = SkipBlanks(s, r)
  BY SkipFromBlank
<1>2. Scope(s, p) = Scope(s, r)
  BY <1>1 DEF Scope
<1> QED
  BY <1>2 DEF Part

(* There is no round in blanks.                                            *)
LEMMA NoPartInBlanks ==
  ASSUME NEW s \in Seq(Char), NEW p \in 1..(Len(s) + 1),
         \A i \in p..Len(s) : s[i] = blank
  PROVE  Part(s, p) = Fail /\ SkipBlanks(s, p) = Len(s) + 1
<1>0. Len(s) \in Nat /\ DOMAIN s = 1..Len(s)
  BY LenProperties
<1>1. Len(s) + 1 \in p..(Len(s) + 1)
  BY <1>0
<1>2. \A i \in p..((Len(s) + 1) - 1) : s[i] \in {blank}
  BY <1>0
<1>3. SkipBlanks(s, p) = Len(s) + 1
  BY <1>1, <1>2, SkipStops DEF SkipBlanks
<1>4. Scope(s, p) = Fail
  BY <1>0, <1>3 DEF Scope
<1> QED
  BY <1>3, <1>4 DEF Part
-----------------------------------------------------------------------------
(* Where funcdef ends that has come to p: the recursive function it uses.  *)
IsFrom(s, f) ==
  f = [p \in 1..(Len(s) + 1) |-> IF Part(s, p) = Fail THEN p ELSE f[Part(s, p)]]

From(s) == CHOOSE f : IsFrom(s, f)

(* The equations can be solved: from the end of the text to its front.     *)
LEMMA FromExists ==
  ASSUME NEW s \in Seq(Char)
  PROVE  IsFrom(s, From(s))
<1>0. Len(s) \in Nat
  BY LenProperties
<1> DEFINE End == Len(s) + 1
           Solves(n, f) ==
             f = [p \in n..End |-> IF Part(s, p) = Fail THEN p ELSE f[Part(s, p)]]
           Bad == {n \in 1..End : \A f : ~Solves(n, f)}
<1>1. Bad = {}
  <2> SUFFICES ASSUME Bad # {} PROVE FALSE
    OBVIOUS
  <2>1. Bad \in SUBSET Nat /\ \A n \in Bad : n <= End
    BY <1>0
  <2>2. PICK n \in Bad : \A m \in Bad : n >= m
    <3> HIDE DEF Bad
    <3>1. End \in Nat
      BY <1>0
    <3> HIDE DEF End
    <3> QED
      BY <2>1, <3>1, GreatestExists
  <2>3. PICK g : g = [p \in (n + 1)..End |->
                        IF Part(s, p) = Fail THEN p ELSE g[Part(s, p)]]
    <3>1. CASE n = End
      <4> DEFINE g == [p \in (n + 1)..End |-> p]
      <4>1. (n + 1)..End = {}
        BY <1>0, <3>1
      <4>2. g = [p \in (n + 1)..End |->
                        IF Part(s, p) = Fail THEN p ELSE g[Part(s, p)]]
        BY <4>1
      <4> QED
        BY <4>2
    <3>2. CASE n # End
      <4>1. n + 1 \in 1..End /\ ~(n >= n + 1)
        BY <1>0, <3>2
      <4>2. n + 1 \notin Bad
        BY <2>2, <4>1
      <4> QED
        BY <4>1, <4>2
    <3> QED
      BY <3>1, <3>2
  <2> DEFINE f == [p \in n..End |->
                     IF p = n THEN IF Part(s, n) = Fail THEN n ELSE g[Part(s, n)]
                     ELSE g[p]]
  <2>4. ASSUME NEW p \in n..End
        PROVE  f[p] = IF Part(s, p) = Fail THEN p ELSE f[Part(s, p)]
    <3>1. p \in 1..(Len(s) + 1)
      BY <1>0
    <3>2. Part(s, p) # Fail =>
            Part(s, p) \in n..End /\ Part(s, p) # n /\ Part(s, p) \in (p + 1)..End
      <4>1. Part(s, p) # Fail => Part(s, p) \in (p + 1)..(Len(s) + 1)
        BY <3>1, PartIsRound
      <4> QED
        BY <1>0, <4>1
    <3>3. CASE p = n
      BY <3>2, <3>3
    <3>4. CASE p # n
      <4>1. p \in (n + 1)..End
        BY <1>0, <3>4
      <4>2. g[p] = IF Part(s, p) = Fail THEN p ELSE g[Part(s, p)]
        BY <2>3, <4>1
      <4> QED
        BY <3>2, <3>4, <4>2
    <3> QED
      BY <3>3, <3>4
  <2>5. Solves(n, f)
    BY <2>4
  <2> QED
    BY <2>2, <2>5
<1>2. 1 \in 1..End
  BY <1>0
<1>3. \E f : Solves(1, f)
  BY <1>1, <1>2
<1>4. \E f : IsFrom(s, f)
  BY <1>3 DEF IsFrom
<1> QED
  BY <1>4 DEF From

(* funcdef goes on as long as rounds match.                                *)
LEMMA FromIs ==
  ASSUME NEW s \in Seq(Char), NEW p \in 1..(Len(s) + 1)
  PROVE  /\ Part(s, p) = Fail => From(s)[p] = p
         /\ Part(s, p) # Fail => From(s)[p] = From(s)[Part(s, p)]
<1>1. From(s)[p] = IF Part(s, p) = Fail THEN p ELSE From(s)[Part(s, p)]
  BY FromExists DEF IsFrom
<1> QED
  BY <1>1

(* That is what funcdef computes.                                          *)
LEMMA FuncDefIs ==
  ASSUME NEW s \in Seq(Char)
  PROVE  FuncDef(s) = IF Part(s, 1) = Fail THEN Fail ELSE From(s)[1]
BY DEF FuncDef, From, IsFrom
-----------------------------------------------------------------------------
(* Trimmed leaves nothing of blanks.                                       *)
LEMMA BlanksAreTrimmed ==
  ASSUME NEW s \in Seq(Char), NEW a \in 1..(Len(s) + 1), NEW b \in (a - 1)..Len(s),
         \A i \in a..b : s[i] = blank
  PROVE  Trimmed(SubSeq(s, a, b)) = << >>
<1>0. Len(s) \in Nat
  BY LenProperties
<1> DEFINE t == SubSeq(s, a, b)
<1>1. \A i \in a..b : s[i] \in Char
  BY <1>0, ElementOfSeq
<1>2. /\ t \in Seq(Char) /\ Len(t) = b - a + 1
      /\ \A i \in 1..(b - a + 1) : t[i] = s[a + i - 1]
  BY <1>0, <1>1, SubSeqProperties
<1>3. DOMAIN t = 1..(b - a + 1)
  BY <1>2, LenProperties
<1> HIDE DEF t
<1>4. \A i \in DOMAIN t : a + i - 1 \in a..b
  BY <1>0, <1>3
<1>5. {i \in DOMAIN t : t[i] # blank} = {}
  BY <1>2, <1>3, <1>4
<1>6. Trimmed(t) = << >>
  BY <1>5 DEF Trimmed
<1> QED
  BY <1>6 DEF t

(* Of a part of the text it leaves what is between the outermost           *)
(* characters that are not blank.                                          *)
LEMMA TrimmedIs ==
  ASSUME NEW s \in Seq(Char), NEW a \in 1..(Len(s) + 1), NEW b \in (a - 1)..Len(s),
         NEW i \in a..b, NEW j \in i..b, s[i] # blank, s[j] # blank,
         \A k \in a..(i - 1) : s[k] = blank, \A k \in (j + 1)..b : s[k] = blank
  PROVE  Trimmed(SubSeq(s, a, b)) = SubSeq(s, i, j)
<1>0. Len(s) \in Nat
  BY LenProperties
<1> DEFINE t == SubSeq(s, a, b)
           solid == {k \in DOMAIN t : t[k] # blank}
           first == i - a + 1
           last == j - a + 1
<1>1. \A k \in a..b : s[k] \in Char
  BY <1>0, ElementOfSeq
<1>2. /\ t \in Seq(Char) /\ Len(t) = b - a + 1
      /\ \A k \in 1..(b - a + 1) : t[k] = s[a + k - 1]
  BY <1>0, <1>1, SubSeqProperties
<1>3. DOMAIN t = 1..(b - a + 1)
  BY <1>2, LenProperties
<1> HIDE DEF t
<1>4. first \in solid /\ last \in solid
  <2>1. first \in 1..(b - a + 1) /\ last \in 1..(b - a + 1)
    BY <1>0
  <2>2. a + first - 1 = i /\ a + last - 1 = j
    BY <1>0
  <2> QED
    BY <1>2, <1>3, <2>1, <2>2
<1>5. ASSUME NEW k \in solid
      PROVE  k \in Int /\ first <= k /\ k <= last
  <2>1. k \in 1..(b - a + 1) /\ t[k] = s[a + k - 1] /\ t[k] # blank
    BY <1>2, <1>3
  <2>2. a + k - 1 \in a..b
    BY <1>0, <2>1
  <2>3. a + k - 1 \notin a..(i - 1) /\ a + k - 1 \notin (j + 1)..b
    BY <2>1
  <2> QED
    BY <1>0, <2>1, <2>2, <2>3
<1>6. first \in Int /\ last \in Int
  BY <1>0
<1> HIDE DEF solid, first, last
<1>7. (CHOOSE k \in solid : \A l \in solid : k <= l) = first
  <2>1. first \in solid /\ \A l \in solid : first <= l
    BY <1>4, <1>5
  <2>2. ASSUME NEW k \in solid, \A l \in solid : k <= l
        PROVE  k = first
    BY <1>5, <1>6, <2>1, <2>2
  <2> QED
    BY <2>1, <2>2
<1>8. (CHOOSE k \in solid : \A l \in solid : l <= k) = last
  <2>1. last \in solid /\ \A l \in solid : l <= last
    BY <1>4, <1>5
  <2>2. ASSUME NEW k \in solid, \A l \in solid : l <= k
        PROVE  k = last
    BY <1>5, <1>6, <2>1, <2>2
  <2> QED
    BY <2>1, <2>2
<1>9. Trimmed(t) = SubSeq(t, first, last)
  <2>1. solid # {}
    BY <1>4
  <2> QED
    BY <1>7, <1>8, <2>1 DEF Trimmed, solid
<1>10. first \in 1..(b - a + 1) /\ last \in 1..(b - a + 1) /\ a \in 1..Len(s)
       /\ b \in 1..Len(s)
  BY <1>0 DEF first, last
<1>11. SubSeq(SubSeq(s, a, b), first, last) = SubSeq(s, a + first - 1, a + last - 1)
  BY <1>2, <1>10, SubSeqOfSubSeq
<1>12. a + first - 1 = i /\ a + last - 1 = j
  BY <1>0 DEF first, last
<1> QED
  BY <1>9, <1>11, <1>12 DEF t

(* There are such characters unless all are blank.                         *)
LEMMA BlankOrSolid ==
  ASSUME NEW s \in Seq(Char), NEW a \in 1..(Len(s) + 1), NEW b \in (a - 1)..Len(s)
  PROVE  \/ \A i \in a..b : s[i] = blank
         \/ \E i \in a..b : \E j \in i..b :
              /\ s[i] # blank /\ s[j] # blank
              /\ \A k \in a..(i - 1) : s[k] = blank
              /\ \A k \in (j + 1)..b : s[k] = blank
<1>0. Len(s) \in Nat
  BY LenProperties
<1> SUFFICES ASSUME ~(\A i \in a..b : s[i] = blank)
             PROVE  \E i \in a..b : \E j \in i..b :
                      /\ s[i] # blank /\ s[j] # blank
                      /\ \A k \in a..(i - 1) : s[k] = blank
                      /\ \A k \in (j + 1)..b : s[k] = blank
  OBVIOUS
<1> DEFINE solid == {i \in a..b : s[i] # blank}
<1>1. solid \in SUBSET Nat /\ solid # {} /\ b \in Nat /\ \A m \in solid : m <= b
  BY <1>0
<1> HIDE DEF solid
<1>2. PICK i \in solid : \A m \in solid : i <= m
  BY <1>1, LeastExists
<1>3. PICK j \in solid : \A m \in solid : j >= m
  BY <1>1, GreatestExists
<1> USE DEF solid
<1>4. i \in a..b /\ j \in i..b
  BY <1>0, <1>2, <1>3
<1>5. \A k \in a..(i - 1) : s[k] = blank
  <2> SUFFICES ASSUME NEW k \in a..(i - 1), s[k] # blank PROVE FALSE
    OBVIOUS
  <2>1. k \in solid /\ ~(i <= k)
    BY <1>0, <1>4
  <2> QED
    BY <1>2, <2>1
<1>6. \A k \in (j + 1)..b : s[k] = blank
  <2> SUFFICES ASSUME NEW k \in (j + 1)..b, s[k] # blank PROVE FALSE
    OBVIOUS
  <2>1. k \in solid /\ ~(j >= k)
    BY <1>0, <1>4
  <2> QED
    BY <1>3, <2>1
<1> QED
  BY <1>4, <1>5, <1>6

(* A qualified word is a round with nothing but blanks behind it.          *)
LEMMA QualifiedIsRound ==
  ASSUME NEW s \in Seq(Char), NEW p \in 1..(Len(s) + 1), NEW d \in p..Len(s),
         IsQualifiedWord(SubSeq(s, p, d))
  PROVE  \E a, b, q \in Nat :
           Round(s, p, a, b, q) /\ q <= d + 1 /\ \A i \in q..d : s[i] = blank
<1>0. Len(s) \in Nat /\ d \in (p - 1)..Len(s)
  BY LenProperties
<1> DEFINE t == Trimmed(SubSeq(s, p, d))
<1>1. /\ Len(t) >= 2 /\ t[1] = colon /\ t[2] = colon
      /\ IsWord(Trimmed(SubSeq(t, 3, Len(t))))
  BY DEF IsQualifiedWord
<1>2. ~(\A i \in p..d : s[i] = blank)
  <2> SUFFICES ASSUME \A i \in p..d : s[i] = blank PROVE FALSE
    OBVIOUS
  <2>1. t = << >>
    BY <1>0, BlanksAreTrimmed
  <2>2. Len(t) = 0
    BY <2>1
  <2> QED
    BY <1>1, <2>2
<1>3. PICK i \in p..d : \E j \in i..d :
             /\ s[i] # blank /\ s[j] # blank
             /\ \A k \in p..(i - 1) : s[k] = blank
             /\ \A k \in (j + 1)..d : s[k] = blank
  BY <1>0, <1>2, BlankOrSolid
<1>4. PICK j \in i..d :
             /\ s[i] # blank /\ s[j] # blank
             /\ \A k \in p..(i - 1) : s[k] = blank
             /\ \A k \in (j + 1)..d : s[k] = blank
  BY <1>3
<1>5. t = SubSeq(s, i, j)
  BY <1>0, <1>4, TrimmedIs
<1> HIDE DEF t
<1>6. /\ i \in 1..Len(s) /\ j \in 1..Len(s) /\ i <= j
  BY <1>0
<1>7. \A k \in i..j : s[k] \in Char
  BY <1>6, ElementOfSeq
<1>8. /\ t \in Seq(Char) /\ Len(t) = j - i + 1
      /\ \A k \in 1..(j - i + 1) : t[k] = s[i + k - 1]
  BY <1>5, <1>6, <1>7, SubSeqProperties
<1>9. j >= i + 1 /\ s[i] = colon /\ s[i + 1] = colon
  <2>1. j - i + 1 >= 2
    BY <1>1, <1>8
  <2>2. 1 \in 1..(j - i + 1) /\ 2 \in 1..(j - i + 1)
    BY <1>6, <2>1
  <2>3. t[1] = s[i + 1 - 1] /\ t[2] = s[i + 2 - 1]
    BY <1>8, <2>2
  <2>4. i + 1 - 1 = i /\ i + 2 - 1 = i + 1
    BY <1>6
  <2> QED
    BY <1>1, <1>6, <2>1, <2>3, <2>4
<1>10. SubSeq(t, 3, Len(t)) = SubSeq(s, i + 2, j)
  <2>1. CASE j = i + 1
    <3>1. SubSeq(t, 3, Len(t)) = << >>
      BY <1>6, <1>8, <2>1, SubSeqEmpty
    <3>2. SubSeq(s, i + 2, j) = << >>
      BY <1>6, <2>1, SubSeqEmpty
    <3> QED
      BY <3>1, <3>2
  <2>2. CASE j # i + 1
    <3>1. 3 \in 1..(j - i + 1) /\ Len(t) \in 1..(j - i + 1)
      BY <1>6, <1>8, <1>9, <2>2
    <3>2. SubSeq(SubSeq(s, i, j), 3, Len(t)) = SubSeq(s, i + 3 - 1, i + Len(t) - 1)
      BY <1>6, <1>8, <3>1, SubSeqOfSubSeq
    <3>3. i + 3 - 1 = i + 2 /\ i + Len(t) - 1 = j
      BY <1>6, <1>8
    <3> QED
      BY <1>5, <3>2, <3>3
  <2> QED
    BY <2>1, <2>2
<1> DEFINE w == Trimmed(SubSeq(s, i + 2, j))
<1>11. IsWord(w) /\ w # << >>
  BY <1>1, <1>10 DEF IsWord
<1>12. i + 2 \in 1..(Len(s) + 1) /\ j \in ((i + 2) - 1)..Len(s)
  BY <1>0, <1>6, <1>9
<1>13. ~(\A k \in (i + 2)..j : s[k] = blank)
  BY <1>11, <1>12, BlanksAreTrimmed
<1>14. PICK b \in (i + 2)..j : \E e \in b..j :
             /\ s[b] # blank /\ s[e] # blank
             /\ \A k \in (i + 2)..(b - 1) : s[k] = blank
             /\ \A k \in (e + 1)..j : s[k] = blank
  BY <1>12, <1>13, BlankOrSolid
<1>15. PICK e \in b..j :
             /\ s[b] # blank /\ s[e] # blank
             /\ \A k \in (i + 2)..(b - 1) : s[k] = blank
             /\ \A k \in (e + 1)..j : s[k] = blank
  BY <1>14
<1>16. w = SubSeq(s, b, e)
  BY <1>12, <1>15, TrimmedIs
<1> HIDE DEF w
<1>17. b \in 1..(Len(s) + 1) /\ e \in 0..Len(s)
  BY <1>0, <1>6
<1>18. s[b] = letter /\ \A k \in b..e : s[k] \in WordChar
  BY <1>11, <1>16, <1>17, WordIs
<1>19. e = j
  BY <1>4, <1>6, <1>12, <1>15
<1> DEFINE q == e + 1
<1>20. i \in p..Len(s) /\ b \in (i + 2)..Len(s) /\ q \in (b + 1)..(Len(s) + 1)
       /\ q - 1 = e
  BY <1>0, <1>6, <1>17
<1>21. Round(s, p, i, b, q)
  BY <1>4, <1>9, <1>15, <1>18, <1>20 DEF Round
<1>22. i \in Nat /\ b \in Nat /\ q \in Nat /\ q <= d + 1
  BY <1>0, <1>6
<1>23. \A k \in q..d : s[k] = blank
  BY <1>4, <1>19
<1> QED
  BY <1>21, <1>22, <1>23

(* A round with nothing but blanks behind it is a qualified word.          *)
LEMMA RoundIsQualified ==
  ASSUME NEW s \in Seq(Char), NEW p \in 1..(Len(s) + 1), NEW d \in p..Len(s),
         NEW a, NEW b, NEW q, Round(s, p, a, b, q),
         q <= d + 1, \A i \in q..d : s[i] = blank
  PROVE  IsQualifiedWord(SubSeq(s, p, d))
<1>0. Len(s) \in Nat /\ d \in (p - 1)..Len(s)
  BY LenProperties
<1> DEFINE j == q - 1
           t == SubSeq(s, a, j)
<1>1. a \in p..Len(s) /\ b \in (a + 2)..Len(s) /\ q \in (b + 1)..(Len(s) + 1)
  BY DEF Round
<1>2. a \in p..d /\ j \in a..d /\ j \in b..(q - 1)
  BY <1>0, <1>1
<1>3. s[a] # blank /\ s[j] # blank
  BY <1>2, ClassesDiffer DEF Round
<1>4. \A k \in p..(a - 1) : s[k] = blank
  BY DEF Round
<1>5. \A k \in (j + 1)..d : s[k] = blank
  BY <1>0, <1>1
<1>6. Trimmed(SubSeq(s, p, d)) = t
  <2> HIDE DEF j
  <2> QED
    BY <1>0, <1>2, <1>3, <1>4, <1>5, TrimmedIs
<1>7. /\ a \in 1..Len(s) /\ j \in 1..Len(s) /\ a + 2 <= j
  BY <1>0, <1>1
<1>8. \A k \in a..j : s[k] \in Char
  BY <1>7, ElementOfSeq
<1>9. /\ t \in Seq(Char) /\ Len(t) = j - a + 1
      /\ \A k \in 1..(j - a + 1) : t[k] = s[a + k - 1]
  BY <1>7, <1>8, SubSeqProperties
<1> HIDE DEF t
<1>10. Len(t) >= 2 /\ t[1] = colon /\ t[2] = colon
  <2>1. 1 \in 1..(j - a + 1) /\ 2 \in 1..(j - a + 1)
    BY <1>7
  <2>2. t[1] = s[a + 1 - 1] /\ t[2] = s[a + 2 - 1]
    BY <1>9, <2>1
  <2>3. a + 1 - 1 = a /\ a + 2 - 1 = a + 1
    BY <1>7
  <2> QED
    BY <1>7, <1>9, <2>2, <2>3 DEF Round
<1>11. SubSeq(t, 3, Len(t)) = SubSeq(s, a + 2, j)
  <2>1. 3 \in 1..(j - a + 1) /\ Len(t) \in 1..(j - a + 1)
    BY <1>7, <1>9
  <2>2. SubSeq(SubSeq(s, a, j), 3, Len(t)) = SubSeq(s, a + 3 - 1, a + Len(t) - 1)
    <3> HIDE DEF j
    <3> QED
      BY <1>7, <1>9, <2>1, SubSeqOfSubSeq
  <2>3. a + 3 - 1 = a + 2 /\ a + Len(t) - 1 = j
    BY <1>7, <1>9
  <2> QED
    BY <2>2, <2>3 DEF t
<1>12. Trimmed(SubSeq(s, a + 2, j)) = SubSeq(s, b, j)
  <2>1. a + 2 \in 1..(Len(s) + 1) /\ j \in ((a + 2) - 1)..Len(s)
        /\ b \in (a + 2)..j /\ j \in b..j
    BY <1>0, <1>1, <1>7
  <2>2. s[b] # blank /\ (\A k \in (a + 2)..(b - 1) : s[k] = blank)
    BY ClassesDiffer DEF Round
  <2>3. \A k \in (j + 1)..j : s[k] = blank
    BY <1>7
  <2> HIDE DEF j
  <2> QED
    BY <1>3, <2>1, <2>2, <2>3, TrimmedIs
<1>13. IsWord(SubSeq(s, b, j))
  <2>1. b \in 1..(Len(s) + 1) /\ j \in 0..Len(s) /\ b <= j
    BY <1>0, <1>1, <1>2
  <2>2. s[b] = letter /\ \A k \in b..j : s[k] \in WordChar
    BY DEF Round
  <2> HIDE DEF j
  <2> QED
    BY <2>1, <2>2, WordIs
<1> QED
  BY <1>6, <1>10, <1>11, <1>12, <1>13 DEF IsQualifiedWord

(* A qualified word begins with a blank or a colon.                        *)
LEMMA QualifiedBegins ==
  ASSUME NEW s \in Seq(Char), NEW p \in 1..(Len(s) + 1), NEW a, NEW b, NEW q,
         Round(s, p, a, b, q)
  PROVE  s[p] \notin WordChar
<1>0. Len(s) \in Nat
  BY LenProperties
<1>1. a \in p..Len(s)
  BY DEF Round
<1>2. CASE a = p
  BY <1>2, ClassesDiffer DEF Round
<1>3. CASE a # p
  <2>1. p \in p..(a - 1)
    BY <1>0, <1>1, <1>3
  <2> QED
    BY <2>1, ClassesDiffer DEF Round
<1> QED
  BY <1>2, <1>3
-----------------------------------------------------------------------------
(* The rest of the text from p on is what funcdef takes and phrase_parse   *)
(* lets through.                                                           *)
RestIsTaken(s, p) ==
  Part(s, p) # Fail /\ SkipBlanks(s, From(s)[p]) = Len(s) + 1

(* funcdef never ends at Fail once a round has matched.                    *)
LEMMA FromIsPosition ==
  ASSUME NEW s \in Seq(Char), NEW p \in 1..(Len(s) + 1)
  PROVE  From(s)[p] # Fail
<1>0. Len(s) \in Nat
  BY LenProperties
<1> DEFINE Bad == {n \in 1..(Len(s) + 1) : From(s)[n] = Fail}
<1> SUFFICES ASSUME Bad # {} PROVE FALSE
  OBVIOUS
<1>1. Bad \in SUBSET Nat /\ \A n \in Bad : n <= Len(s) + 1
  BY <1>0
<1>2. PICK n \in Bad : \A m \in Bad : n >= m
  <2> HIDE DEF Bad
  <2>1. Len(s) + 1 \in Nat
    BY <1>0
  <2> QED
    BY <1>1, <2>1, GreatestExists
<1>3. Part(s, n) # Fail
  BY FromIs DEF Fail
<1>4. Part(s, n) \in (n + 1)..(Len(s) + 1)
  BY <1>3, PartIsRound
<1>5. Part(s, n) \in 1..(Len(s) + 1) /\ ~(n >= Part(s, n))
  BY <1>0, <1>4
<1>6. From(s)[Part(s, n)] = Fail
  BY <1>3, FromIs
<1> QED
  BY <1>2, <1>5, <1>6

(* parseFunctionDefinition accepts what is taken from its beginning.       *)
LEMMA DefinitionIsTaken ==
  ASSUME NEW s \in Seq(Char)
  PROVE  parseFunctionDefinition(s) <=> RestIsTaken(s, 1)
<1>1. 1 \in 1..(Len(s) + 1)
  BY LenProperties
<1>2. From(s)[1] # Fail
  BY <1>1, FromIsPosition
<1> QED
  BY <1>2, FuncDefIs DEF parseFunctionDefinition, ConsumesAll, RestIsTaken

(* One round with nothing but blanks behind it is a definition.            *)
LEMMA LastRoundIsTaken ==
  ASSUME NEW s \in Seq(Char), NEW p \in 1..(Len(s) + 1), NEW a, NEW b, NEW q,
         Round(s, p, a, b, q), \A i \in q..Len(s) : s[i] = blank
  PROVE  RestIsTaken(s, p)
<1>0. Len(s) \in Nat
  BY LenProperties
<1>1. q \in 1..(Len(s) + 1)
  BY <1>0 DEF Round
<1>2. q = Len(s) + 1 \/ s[q] \notin WordChar
  BY <1>0, <1>1, ClassesDiffer
<1>3. Part(s, p) = q /\ q # Fail
  BY <1>2, RoundIsPart
<1>4. Part(s, q) = Fail /\ SkipBlanks(s, q) = Len(s) + 1
  BY <1>1, NoPartInBlanks
<1>5. From(s)[p] = From(s)[q] /\ From(s)[q] = q
  BY <1>1, <1>3, <1>4, FromIs
<1> QED
  BY <1>3, <1>4, <1>5 DEF RestIsTaken

(* One in front of a qualified word goes on with it.                       *)
LEMMA RoundBeforeTaken ==
  ASSUME NEW s \in Seq(Char), NEW p \in 1..(Len(s) + 1), NEW d \in p..(Len(s) - 1),
         NEW a, NEW b, NEW q, Round(s, p, a, b, q),
         q <= d + 1, \A i \in q..d : s[i] = blank,
         s[d + 1] \notin WordChar, RestIsTaken(s, d + 1)
  PROVE  RestIsTaken(s, p)
<1>0. Len(s) \in Nat
  BY LenProperties
<1>1. q \in 1..(Len(s) + 1) /\ d + 1 \in 1..(Len(s) + 1) /\ d + 1 \in q..(Len(s) + 1)
  BY <1>0 DEF Round
<1>2. s[q] \notin WordChar
  <2>1. q = d + 1 \/ q \in q..d
    BY <1>0, <1>1
  <2> QED
    BY <2>1, ClassesDiffer
<1>3. Part(s, p) = q /\ q # Fail
  BY <1>2, RoundIsPart
<1>4. \A i \in q..((d + 1) - 1) : s[i] = blank
  BY <1>0
<1>5. Part(s, q) = Part(s, d + 1)
  BY <1>1, <1>4, PartFromBlank
<1>6. Part(s, d + 1) # Fail
  BY DEF RestIsTaken
<1>7. From(s)[p] = From(s)[q]
  BY <1>3, FromIs
<1>8. From(s)[q] = From(s)[d + 1]
  BY <1>1, <1>5, <1>6, FromIs
<1> QED
  BY <1>3, <1>7, <1>8 DEF RestIsTaken
-----------------------------------------------------------------------------
(* Where the word ends that begins at a cut.                               *)
EndOf(cuts, len, c) ==
  LET ends == {d \in cuts \cup {len} : d > c}
  IN  CHOOSE d \in ends : \A e \in ends : d <= e

(* The cuts from p on divide the rest of the text into qualified words.    *)
Divides(cuts, s, p) ==
  /\ cuts \in SUBSET ((p - 1)..(Len(s) - 1))
  /\ p - 1 \in cuts
  /\ \A c \in cuts : IsQualifiedWord(SubSeq(s, c + 1, EndOf(cuts, Len(s), c)))

(* It is the next cut, or the end of the text.                             *)
LEMMA EndIs ==
  ASSUME NEW cuts \in SUBSET Nat, NEW len \in Nat, NEW c \in Nat, c < len
  PROVE  /\ EndOf(cuts, len, c) \in cuts \cup {len}
         /\ EndOf(cuts, len, c) > c
         /\ \A e \in cuts \cup {len} : e > c => EndOf(cuts, len, c) <= e
<1> DEFINE ends == {d \in cuts \cup {len} : d > c}
<1>1. ends \in SUBSET Nat /\ len \in ends
  OBVIOUS
<1>2. \E n \in ends : \A m \in ends : n <= m
  BY <1>1, LeastExists
<1>3. /\ EndOf(cuts, len, c) \in ends
      /\ \A e \in ends : EndOf(cuts, len, c) <= e
  BY <1>2 DEF EndOf
<1> QED
  BY <1>3

(* What can be cut into qualified words is taken.                          *)
LEMMA DividedIsTaken ==
  ASSUME NEW s \in Seq(Char), NEW cuts, Divides(cuts, s, 1)
  PROVE  RestIsTaken(s, 1)
<1>0. Len(s) \in Nat /\ 1 - 1 = 0
  BY LenProperties
<1>1. cuts \in SUBSET Nat /\ 0 \in cuts /\ \A c \in cuts : c <= Len(s) - 1
  BY <1>0 DEF Divides
<1> DEFINE Bad == {c \in cuts : ~RestIsTaken(s, c + 1)}
<1>2. Bad = {}
  <2> SUFFICES ASSUME Bad # {} PROVE FALSE
    OBVIOUS
  <2>1. Bad \in SUBSET Nat /\ \A c \in Bad : c <= Len(s)
    <3>1. \A c \in cuts : c \in Nat /\ c <= Len(s)
      BY <1>0, <1>1
    <3> QED
      BY <3>1
  <2>2. PICK c \in Bad : \A m \in Bad : c >= m
    <3> HIDE DEF Bad
    <3> QED
      BY <1>0, <2>1, GreatestExists
  <2>3. c \in Nat /\ c <= Len(s) - 1 /\ c < Len(s) /\ c + 1 \in 1..(Len(s) + 1)
    BY <1>0, <1>1
  <2> DEFINE d == EndOf(cuts, Len(s), c)
  <2>4. d \in cuts \cup {Len(s)} /\ d > c
    BY <1>0, <1>1, <2>3, EndIs
  <2>5. IsQualifiedWord(SubSeq(s, c + 1, d))
    BY DEF Divides
  <2> HIDE DEF d
  <2>6. d \in (c + 1)..Len(s)
    BY <1>0, <1>1, <2>3, <2>4
  <2>7. PICK a, b, q \in Nat :
          Round(s, c + 1, a, b, q) /\ q <= d + 1 /\ \A i \in q..d : s[i] = blank
    BY <2>3, <2>5, <2>6, QualifiedIsRound
  <2>8. CASE d = Len(s)
    BY <2>3, <2>7, <2>8, LastRoundIsTaken
  <2>9. CASE d # Len(s)
    <3>1. d \in cuts /\ d \in (c + 1)..(Len(s) - 1) /\ d \in Nat
          /\ d < Len(s) /\ d + 1 \in 1..(Len(s) + 1) /\ ~(c >= d)
      BY <1>0, <1>1, <2>3, <2>4, <2>6, <2>9
    <3>2. RestIsTaken(s, d + 1)
      BY <2>2, <3>1
    <3> DEFINE e == EndOf(cuts, Len(s), d)
    <3>3. e \in cuts \cup {Len(s)} /\ e > d
      BY <1>0, <1>1, <3>1, EndIs
    <3>4. IsQualifiedWord(SubSeq(s, d + 1, e))
      BY <3>1 DEF Divides
    <3> HIDE DEF e
    <3>5. e \in (d + 1)..Len(s)
      BY <1>0, <1>1, <3>1, <3>3
    <3>6. \E aa, bb, qq \in Nat : Round(s, d + 1, aa, bb, qq)
      BY <3>1, <3>4, <3>5, QualifiedIsRound
    <3>7. s[d + 1] \notin WordChar
      BY <3>1, <3>6, QualifiedBegins
    <3>8. RestIsTaken(s, c + 1)
      BY <2>3, <2>7, <3>1, <3>2, <3>7, RoundBeforeTaken
    <3> QED
      BY <3>8
  <2> QED
    BY <2>8, <2>9
<1>3. RestIsTaken(s, 0 + 1)
  BY <1>1, <1>2
<1> QED
  BY <1>3

(* What is taken can be cut into qualified words: at each round.           *)
LEMMA TakenIsDivided ==
  ASSUME NEW s \in Seq(Char), RestIsTaken(s, 1)
  PROVE  \E cuts : Divides(cuts, s, 1)
<1>0. Len(s) \in Nat
  BY LenProperties
<1> DEFINE Bad == {p \in 1..(Len(s) + 1) :
                     RestIsTaken(s, p) /\ ~\E cuts : Divides(cuts, s, p)}
<1>1. Bad = {}
  <2> SUFFICES ASSUME Bad # {} PROVE FALSE
    OBVIOUS
  <2>1. Bad \in SUBSET Nat /\ \A p \in Bad : p <= Len(s) + 1
    BY <1>0
  <2>2. PICK p \in Bad : \A m \in Bad : p >= m
    <3> HIDE DEF Bad
    <3>1. Len(s) + 1 \in Nat
      BY <1>0
    <3> QED
      BY <2>1, <3>1, GreatestExists
  <2>3. p \in 1..(Len(s) + 1) /\ Part(s, p) # Fail
        /\ SkipBlanks(s, From(s)[p]) = Len(s) + 1 /\ ~\E cuts : Divides(cuts, s, p)
    BY DEF RestIsTaken
  <2> HIDE DEF Bad
  <2> DEFINE q == Part(s, p)
  <2>4. /\ \E a, b \in Nat : Round(s, p, a, b, q)
        /\ q \in (p + 1)..(Len(s) + 1)
    BY <2>3, PartIsRound
  <2>5. From(s)[p] = From(s)[q] /\ q # Fail
    BY <2>3, FromIs
  <2> HIDE DEF q
  <2>6. PICK a, b \in Nat : Round(s, p, a, b, q)
    BY <2>4
  <2>7. q \in 1..(Len(s) + 1) /\ p \in Nat /\ p - 1 \in Nat /\ p - 1 < Len(s)
        /\ p \in 1..Len(s) /\ (p - 1) + 1 = p /\ ~(p >= q)
    BY <1>0, <2>3, <2>4
  <2>8. CASE Part(s, q) = Fail
    <3>1. SkipBlanks(s, q) = Len(s) + 1
      BY <2>3, <2>5, <2>7, <2>8, FromIs
    <3>2. \A i \in q..((Len(s) + 1) - 1) : s[i] \in {blank}
      BY <2>7, <3>1, SkipIs DEF SkipBlanks
    <3>3. \A i \in q..Len(s) : s[i] = blank
      BY <1>0, <3>2
    <3>4. Len(s) \in p..Len(s) /\ q <= Len(s) + 1
      BY <1>0, <2>7
    <3>5. IsQualifiedWord(SubSeq(s, p, Len(s)))
      BY <2>3, <2>6, <3>3, <3>4, RoundIsQualified
    <3> DEFINE cuts == {p - 1}
    <3>6. EndOf(cuts, Len(s), p - 1) = Len(s)
      <4>1. /\ EndOf(cuts, Len(s), p - 1) \in cuts \cup {Len(s)}
            /\ EndOf(cuts, Len(s), p - 1) > p - 1
        BY <1>0, <2>7, EndIs
      <4> QED
        BY <2>7, <4>1
    <3>7. p - 1 \in (p - 1)..(Len(s) - 1)
      BY <1>0, <2>7
    <3>8. Divides(cuts, s, p)
      BY <2>7, <3>5, <3>6, <3>7 DEF Divides
    <3> QED
      BY <2>3, <3>8
  <2>9. CASE Part(s, q) # Fail
    <3>1. RestIsTaken(s, q)
      BY <2>3, <2>5, <2>9 DEF RestIsTaken
    <3>2. q \notin Bad
      BY <2>2, <2>7
    <3>3. PICK rest : Divides(rest, s, q)
      BY <2>7, <3>1, <3>2 DEF Bad
    <3>4. rest \in SUBSET ((q - 1)..(Len(s) - 1)) /\ q - 1 \in rest
      BY <3>3 DEF Divides
    <3> DEFINE cuts == rest \cup {p - 1}
    <3>5. /\ cuts \in SUBSET Nat /\ rest \in SUBSET Nat
          /\ cuts \in SUBSET ((p - 1)..(Len(s) - 1)) /\ p - 1 \in cuts
          /\ \A c \in rest : c \in Nat /\ c < Len(s) /\ c > p - 1 /\ c >= q - 1
      BY <1>0, <2>7, <3>4
    <3>6. ASSUME NEW c \in rest
          PROVE  EndOf(cuts, Len(s), c) = EndOf(rest, Len(s), c)
      <4>1. {d \in cuts \cup {Len(s)} : d > c} = {d \in rest \cup {Len(s)} : d > c}
        BY <2>7, <3>5
      <4> QED
        BY <4>1 DEF EndOf
    <3>7. EndOf(cuts, Len(s), p - 1) = q - 1
      <4> DEFINE e == EndOf(cuts, Len(s), p - 1)
      <4>1. /\ e \in cuts \cup {Len(s)} /\ e > p - 1
            /\ \A k \in cuts \cup {Len(s)} : k > p - 1 => e <= k
        <5> HIDE DEF cuts
        <5> QED
          BY <1>0, <2>7, <3>5, EndIs
      <4> HIDE DEF e
      <4>2. e <= q - 1
        BY <2>7, <3>4, <3>5, <4>1
      <4>3. e >= q - 1
        BY <1>0, <2>7, <3>5, <4>1
      <4>4. e \in Int /\ q - 1 \in Int
        BY <1>0, <2>7, <3>5, <4>1
      <4>5. e = q - 1
        BY <4>2, <4>3, <4>4
      <4> QED
        BY <4>5 DEF e
    <3>8. IsQualifiedWord(SubSeq(s, p, q - 1))
      <4>1. q - 1 \in p..Len(s) /\ q <= (q - 1) + 1
        BY <1>0, <2>4, <2>7
      <4>2. \A i \in q..(q - 1) : s[i] = blank
        BY <2>7
      <4> QED
        BY <2>3, <2>6, <4>1, <4>2, RoundIsQualified
    <3>9. ASSUME NEW c \in cuts
          PROVE  IsQualifiedWord(SubSeq(s, c + 1, EndOf(cuts, Len(s), c)))
      <4>1. CASE c \in rest
        <5>1. IsQualifiedWord(SubSeq(s, c + 1, EndOf(rest, Len(s), c)))
          BY <3>3, <4>1 DEF Divides
        <5> QED
          BY <3>6, <4>1, <5>1
      <4>2. CASE c = p - 1
        BY <2>7, <3>7, <3>8, <4>2
      <4> QED
        BY <4>1, <4>2
    <3>10. Divides(cuts, s, p)
      BY <3>5, <3>9 DEF Divides
    <3> QED
      BY <2>3, <3>10
  <2> QED
    BY <2>8, <2>9
<1>2. 1 \in 1..(Len(s) + 1)
  BY <1>0
<1> QED
  BY <1>1, <1>2

(* parseFunctionDefinition accepts exactly the texts, of any length, that  *)
(* can be cut into qualified words.                                        *)
THEOREM DefinitionsAreAccepted == Spec => []DefinitionsAccepted
<1>1. IsText => DefinitionsAccepted
  <2> SUFFICES ASSUME text \in Seq(Char)
               PROVE  DefinitionsAccepted
    BY DEF IsText
  <2>1. parseFunctionDefinition(text) <=> \E cuts : Divides(cuts, text, 1)
    BY DefinitionIsTaken, DividedIsTaken, TakenIsDivided
  <2>2. 1 - 1 = 0
    OBVIOUS
  <2>3. (\E cuts : Divides(cuts, text, 1)) <=>
          \E cuts \in SUBSET (0..(Len(text) - 1)) :
            /\ 0 \in cuts
            /\ \A c \in cuts :
                 IsQualifiedWord(SubSeq(text, c + 1, EndOf(cuts, Len(text), c)))
    BY <2>2 DEF Divides
  <2> QED
    BY <2>1, <2>3 DEF DefinitionsAccepted, EndOf
<1> QED
  BY <1>1, TextsAreTyped, PTL

(* A relative name is refused as a definition, and taken when "::" is put  *)
(* in front of it, whatever its length.                                    *)
THEOREM PrefixedNamesAreDefinitions == Spec => []PrefixMakesDefinition
<1>1. IsText => PrefixMakesDefinition
  <2> SUFFICES ASSUME text \in Seq(Char), isIdentifier(text)
               PROVE  /\ ~parseFunctionDefinition(text)
                      /\ parseFunctionDefinition(<<colon, colon>> \o text)
    BY DEF IsText, PrefixMakesDefinition
  <2>0. Len(text) \in Nat
    BY LenProperties
  <2>1. PICK n \in 1..Len(text) :
             /\ text[1] = letter
             /\ \A i \in 1..n : text[i] \in WordChar
             /\ \A i \in (n + 1)..Len(text) : text[i] = blank
    BY IdentifierIs
  <2>2. ~parseFunctionDefinition(text)
    <3>1. 1 \in 1..(Len(text) + 1)
      BY <2>0
    <3>2. text[1] \in WordChar
      BY <2>1, ClassesDiffer
    <3>3. Part(text, 1) = Fail
      BY <3>1, <3>2, PartIsRound, QualifiedBegins
    <3> QED
      BY <3>3, DefinitionIsTaken DEF RestIsTaken
  <2> DEFINE prefix == <<colon, colon>>
             t == prefix \o text
  <2>3. prefix \in Seq(Char) /\ Len(prefix) = 2 /\ prefix[1] = colon /\ prefix[2] = colon
    BY DEF Char
  <2> HIDE DEF prefix
  <2>4. /\ t \in Seq(Char) /\ Len(t) = Len(text) + 2
        /\ t[1] = colon /\ t[2] = colon
        /\ \A i \in 3..(Len(text) + 2) : t[i] = text[i - 2]
    <3>1. t \in Seq(Char) /\ Len(t) = Len(prefix) + Len(text)
          /\ \A i \in 1..(Len(prefix) + Len(text)) :
               t[i] = IF i <= Len(prefix) THEN prefix[i] ELSE text[i - Len(prefix)]
      BY <2>3, ConcatProperties
    <3> HIDE DEF t
    <3>2. Len(t) = Len(text) + 2
      BY <2>0, <2>3, <3>1
    <3>3. t[1] = colon /\ t[2] = colon
      <4>1. 1 \in 1..Len(t) /\ 2 \in 1..Len(t) /\ 1 <= Len(prefix) /\ 2 <= Len(prefix)
        BY <2>0, <2>3, <3>2
      <4> QED
        BY <2>3, <3>1, <4>1
    <3>4. ASSUME NEW i \in 3..(Len(text) + 2)
          PROVE  t[i] = text[i - 2]
      <4>1. i \in 1..Len(t) /\ ~(i <= Len(prefix))
        BY <2>0, <2>3, <3>2
      <4> QED
        BY <2>3, <3>1, <4>1
    <3> QED
      BY <3>1, <3>2, <3>3, <3>4
  <2> HIDE DEF t
  <2>5. 1 \in 1..(Len(t) + 1) /\ 3 \in (1 + 2)..Len(t) /\ n + 3 \in (3 + 1)..(Len(t) + 1)
        /\ 1 \in 1..Len(t)
    BY <2>0, <2>4
  <2>6. t[3] = letter
    <3>1. 3 \in 3..(Len(text) + 2) /\ 3 - 2 = 1
      BY <2>0
    <3> QED
      BY <2>1, <2>4, <3>1
  <2>7. ASSUME NEW i \in 3..((n + 3) - 1)
        PROVE  t[i] \in WordChar
    <3>1. i \in 3..(Len(text) + 2) /\ i - 2 \in 1..n
      BY <2>0
    <3> QED
      BY <2>1, <2>4, <3>1
  <2>8. ASSUME NEW i \in (n + 3)..Len(t)
        PROVE  t[i] = blank
    <3>1. i \in 3..(Len(text) + 2) /\ i - 2 \in (n + 1)..Len(text)
      BY <2>0, <2>4
    <3> QED
      BY <2>1, <2>4, <3>1
  <2>9. Round(t, 1, 1, 3, n + 3)
    <3>1. t[1 + 1] = colon
      BY <2>4
    <3> QED
      BY <2>4, <2>5, <2>6, <2>7, <3>1 DEF Round
  <2>10. RestIsTaken(t, 1)
    BY <2>4, <2>5, <2>8, <2>9, LastRoundIsTaken
  <2>11. parseFunctionDefinition(t)
    BY <2>4, <2>10, DefinitionIsTaken
  <2> QED
    BY <2>2, <2>11 DEF t, prefix
<1> QED
  BY <1>1, TextsAreTyped, PTL
=============================================================================
