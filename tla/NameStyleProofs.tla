-------------------------- MODULE NameStyleProofs --------------------------
(***************************************************************************)
(* Proofs about splitting and joining identifiers of every length.         *)
(***************************************************************************)
EXTENDS NameStyle, SequenceTheorems, DataInduction, TLAPS

(* The characters are five different ones, and no character is "".         *)
LEMMA CharsDiffer ==
  /\ lower # upper /\ lower # digit /\ upper # digit
  /\ "" \notin Char
  /\ Alnum \cap Separator = {} /\ Alnum \cup Separator = Char
  /\ Alnum = {lower, upper, digit}
BY DEF lower, upper, digit, underscore, other, Char, Alnum, Separator, Letter
-----------------------------------------------------------------------------
(* What Alnums flattens.                                                   *)
Single(s) == [i \in DOMAIN s |-> IF s[i] \in Alnum THEN <<s[i]>> ELSE << >>]

(* It is as long as the text.                                             *)
LEMMA SingleIs ==
  ASSUME NEW s \in Seq(Char)
  PROVE  Single(s) \in Seq(Seq(Alnum)) /\ Len(Single(s)) = Len(s)
<1>1. Len(s) \in Nat /\ DOMAIN s = 1..Len(s)
  BY LenProperties
<1>2. \A i \in 1..Len(s) : (IF s[i] \in Alnum THEN <<s[i]>> ELSE << >>) \in Seq(Alnum)
  OBVIOUS
<1> QED
  BY <1>1, <1>2, IsASeq DEF Single

(* Alnums leaves separators out, one character after the other.            *)
LEMMA AlnumsAppend ==
  ASSUME NEW s \in Seq(Char), NEW c \in Char
  PROVE  /\ Alnums(s) \in Seq(Alnum)
         /\ c \in Alnum => Alnums(Append(s, c)) = Append(Alnums(s), c)
         /\ c \notin Alnum => Alnums(Append(s, c)) = Alnums(s)
<1> DEFINE t == Append(s, c)
           x == IF c \in Alnum THEN <<c>> ELSE << >>
<1>1. /\ t \in Seq(Char) /\ Len(t) = Len(s) + 1 /\ t[Len(s) + 1] = c
      /\ \A i \in 1..Len(s) : t[i] = s[i]
      /\ Len(s) \in Nat /\ DOMAIN s = 1..Len(s) /\ DOMAIN t = 1..(Len(s) + 1)
  BY AppendProperties, LenProperties
<1> HIDE DEF t
<1>2. x \in Seq(Alnum)
  OBVIOUS
<1>3. /\ Single(s) \in Seq(Seq(Alnum)) /\ Len(Single(s)) = Len(s)
      /\ Single(t) \in Seq(Seq(Alnum)) /\ Len(Single(t)) = Len(s) + 1
  BY <1>1, SingleIs
<1>4. Single(t) = Append(Single(s), x)
  <2> DEFINE w == Append(Single(s), x)
  <2>1. /\ w \in Seq(Seq(Alnum)) /\ Len(w) = Len(s) + 1 /\ w[Len(s) + 1] = x
        /\ \A i \in 1..Len(s) : w[i] = Single(s)[i]
    BY <1>2, <1>3, AppendProperties
  <2> HIDE DEF w
  <2>2. ASSUME NEW i \in 1..(Len(s) + 1)
        PROVE  Single(t)[i] = w[i]
    <3>1. CASE i = Len(s) + 1
      BY <1>1, <2>1, <3>1 DEF Single
    <3>2. CASE i # Len(s) + 1
      <4>1. i \in 1..Len(s)
        BY <1>1, <3>2
      <4>2. Single(t)[i] = Single(s)[i]
        BY <1>1, <4>1 DEF Single
      <4> QED
        BY <2>1, <4>1, <4>2
    <3> QED
      BY <3>1, <3>2
  <2>3. Single(t) = w
    BY <1>3, <2>1, <2>2, SeqEqual
  <2> QED
    BY <2>3 DEF w
<1>5. Alnums(s) = FlattenSeq(Single(s)) /\ Alnums(t) = FlattenSeq(Single(t))
  BY DEF Alnums, Single
<1>6. Alnums(s) \in Seq(Alnum)
  BY <1>3, <1>5, FlattenTyped
<1>7. Alnums(t) = Alnums(s) \o x
  BY <1>2, <1>3, <1>4, <1>5, FlattenAppend
<1>8. CASE c \in Alnum
  <2>1. x = <<c>>
    BY <1>8
  <2>2. Alnums(s) \o <<c>> = Append(Alnums(s), c)
    BY <1>6, <1>8, AppendIsConcat
  <2> QED
    BY <1>6, <1>7, <1>8, <2>1, <2>2 DEF t
<1>9. CASE c \notin Alnum
  <2>1. x = << >>
    BY <1>9
  <2>2. Alnums(s) \o << >> = Alnums(s)
    BY <1>6, ConcatEmptySeq
  <2> QED
    BY <1>6, <1>7, <1>9, <2>1, <2>2 DEF t
<1> QED
  BY <1>8, <1>9

(* There is nothing in an empty text.                                      *)
LEMMA AlnumsEmpty == Alnums(<< >>) = << >>
<1>1. Single(<< >>) = << >>
  <2>1. << >> \in Seq(Char)
    OBVIOUS
  <2>2. Single(<< >>) \in Seq(Seq(Alnum)) /\ Len(Single(<< >>)) = 0
    BY <2>1, SingleIs
  <2> QED
    BY <2>2, EmptySeq
<1> QED
  BY <1>1, FlattenEmpty DEF Alnums, Single

(* The letters and digits of two texts are one behind the other.           *)
LEMMA AlnumsConcat ==
  ASSUME NEW s \in Seq(Char), NEW t \in Seq(Char)
  PROVE  Alnums(s \o t) = Alnums(s) \o Alnums(t)
<1> DEFINE Joins(v) == Alnums(s \o v) = Alnums(s) \o Alnums(v)
           P == {n \in Nat : \A v \in Seq(Char) : Len(v) = n => Joins(v)}
<1>0. Alnums(s) \in Seq(Alnum)
  BY AlnumsAppend, CharsDiffer
<1>1. 0 \in P
  <2>1. ASSUME NEW v \in Seq(Char), Len(v) = 0 PROVE Joins(v)
    <3>1. v = << >>
      BY <2>1, EmptySeq
    <3>2. s \o << >> = s /\ Alnums(s) \o << >> = Alnums(s)
      BY <1>0, ConcatEmptySeq
    <3> QED
      BY <3>1, <3>2, AlnumsEmpty
  <2> QED
    BY <2>1
<1>2. ASSUME NEW n \in P PROVE n + 1 \in P
  <2>1. ASSUME NEW v \in Seq(Char), Len(v) = n + 1 PROVE Joins(v)
    <3>1. v # << >>
      BY <2>1
    <3>2. PICK u \in Seq(Char), c \in Char : v = Append(u, c)
      BY <3>1, SequenceEmptyOrAppend
    <3>3. Len(u) = n
      BY <2>1, <3>2, AppendProperties, LenProperties
    <3>4. Alnums(s \o u) = Alnums(s) \o Alnums(u)
      BY <3>3
    <3>5. s \o u \in Seq(Char) /\ Alnums(u) \in Seq(Alnum)
      BY AlnumsAppend, ConcatProperties
    <3>6. s \o v = Append(s \o u, c)
      <4>1. v = u \o <<c>>
        BY <3>2, AppendIsConcat
      <4>2. s \o (u \o <<c>>) = (s \o u) \o <<c>>
        BY ConcatAssociative
      <4>3. (s \o u) \o <<c>> = Append(s \o u, c)
        BY <3>5, AppendIsConcat
      <4> QED
        BY <4>1, <4>2, <4>3
    <3>7. CASE c \in Alnum
      <4>1. Alnums(s \o v) = Append(Alnums(s \o u), c)
        BY <3>5, <3>6, <3>7, AlnumsAppend
      <4>2. Alnums(v) = Append(Alnums(u), c)
        BY <3>2, <3>7, AlnumsAppend
      <4>3. Append(Alnums(u), c) = Alnums(u) \o <<c>>
        BY <3>5, <3>7, AppendIsConcat
      <4>4. Alnums(s) \o (Alnums(u) \o <<c>>) = (Alnums(s) \o Alnums(u)) \o <<c>>
        BY <1>0, <3>5, <3>7, ConcatAssociative
      <4>5. Alnums(s) \o Alnums(u) \in Seq(Alnum)
        BY <1>0, <3>5, ConcatProperties
      <4>6. (Alnums(s) \o Alnums(u)) \o <<c>> = Append(Alnums(s) \o Alnums(u), c)
        BY <3>7, <4>5, AppendIsConcat
      <4> QED
        BY <3>4, <4>1, <4>2, <4>3, <4>4, <4>6
    <3>8. CASE c \notin Alnum
      BY <3>2, <3>4, <3>5, <3>6, <3>8, AlnumsAppend
    <3> QED
      BY <3>7, <3>8
  <2> HIDE DEF Joins
  <2> QED
    BY <2>1
<1>3. \A n \in Nat : n \in P
  <2>1. P \in SUBSET Nat
    OBVIOUS
  <2> HIDE DEF P
  <2> QED
    BY <1>1, <1>2, <2>1, InductionOnSet
<1>4. Len(t) \in Nat
  BY LenProperties
<1> QED
  BY <1>3, <1>4

(* A text without a separator is kept, one of separators leaves nothing.   *)
LEMMA AlnumsOfOneKind ==
  ASSUME NEW s \in Seq(Char)
  PROVE  /\ (\A i \in 1..Len(s) : s[i] \in Alnum) => Alnums(s) = s
         /\ (\A i \in 1..Len(s) : s[i] \in Separator) => Alnums(s) = << >>
<1> DEFINE OfOneKind(v) ==
             /\ (\A i \in 1..Len(v) : v[i] \in Alnum) => Alnums(v) = v
             /\ (\A i \in 1..Len(v) : v[i] \in Separator) => Alnums(v) = << >>
           P == {n \in Nat : \A v \in Seq(Char) : Len(v) = n => OfOneKind(v)}
<1>1. 0 \in P
  <2>1. ASSUME NEW v \in Seq(Char), Len(v) = 0 PROVE OfOneKind(v)
    BY <2>1, EmptySeq, AlnumsEmpty
  <2> HIDE DEF OfOneKind
  <2> QED
    BY <2>1
<1>2. ASSUME NEW n \in P PROVE n + 1 \in P
  <2>1. ASSUME NEW v \in Seq(Char), Len(v) = n + 1 PROVE OfOneKind(v)
    <3>1. v # << >>
      BY <2>1
    <3>2. PICK u \in Seq(Char), c \in Char : v = Append(u, c)
      BY <3>1, SequenceEmptyOrAppend
    <3>3. Len(u) = n /\ v[n + 1] = c /\ \A i \in 1..n : v[i] = u[i]
      BY <2>1, <3>2, AppendProperties, LenProperties
    <3>4. OfOneKind(u)
      <4> HIDE DEF OfOneKind
      <4> QED
        BY <3>3
    <3>5. n + 1 \in 1..(n + 1) /\ \A i \in 1..n : i \in 1..(n + 1)
      OBVIOUS
    <3>6. ASSUME \A i \in 1..Len(v) : v[i] \in Alnum
          PROVE  Alnums(v) = v
      <4>1. c \in Alnum /\ \A i \in 1..Len(u) : u[i] \in Alnum
        BY <2>1, <3>3, <3>5, <3>6
      <4> QED
        BY <3>2, <3>4, <4>1, AlnumsAppend
    <3>7. ASSUME \A i \in 1..Len(v) : v[i] \in Separator
          PROVE  Alnums(v) = << >>
      <4>1. c \notin Alnum /\ \A i \in 1..Len(u) : u[i] \in Separator
        BY <2>1, <3>3, <3>5, <3>7, CharsDiffer
      <4> QED
        BY <3>2, <3>4, <4>1, AlnumsAppend
    <3> QED
      BY <3>6, <3>7
  <2> HIDE DEF OfOneKind
  <2> QED
    BY <2>1
<1>3. \A n \in Nat : n \in P
  <2>1. P \in SUBSET Nat
    OBVIOUS
  <2> HIDE DEF P
  <2> QED
    BY <1>1, <1>2, <2>1, InductionOnSet
<1>4. Len(s) \in Nat
  BY LenProperties
<1>5. OfOneKind(s)
  <2> HIDE DEF OfOneKind
  <2> QED
    BY <1>3, <1>4
<1> QED
  BY <1>5

LowerChar(c) == IF c = upper THEN lower ELSE c

(* Lower case is put in character by character.                            *)
LEMMA LowerIs ==
  ASSUME NEW S, S \subseteq Char, lower \in S, NEW s \in Seq(S)
  PROVE  /\ Lower(s) \in Seq(S) /\ Len(Lower(s)) = Len(s)
         /\ \A i \in 1..Len(s) : Lower(s)[i] = LowerChar(s[i])
         /\ \A c \in S : Lower(Append(s, c)) = Append(Lower(s), LowerChar(c))
<1>1. Len(s) \in Nat /\ DOMAIN s = 1..Len(s) /\ \A i \in 1..Len(s) : s[i] \in S
  BY LenProperties, ElementOfSeq
<1>2. Lower(s) = [i \in 1..Len(s) |-> LowerChar(s[i])]
  BY <1>1 DEF Lower, LowerChar
<1>3. \A i \in 1..Len(s) : LowerChar(s[i]) \in S
  BY <1>1 DEF LowerChar
<1>4. Lower(s) \in Seq(S) /\ Len(Lower(s)) = Len(s)
  BY <1>1, <1>2, <1>3, IsASeq
<1>5. ASSUME NEW c \in S
      PROVE  Lower(Append(s, c)) = Append(Lower(s), LowerChar(c))
  <2> DEFINE t == Append(s, c)
             w == Append(Lower(s), LowerChar(c))
  <2>1. /\ t \in Seq(S) /\ Len(t) = Len(s) + 1 /\ t[Len(s) + 1] = c
        /\ \A i \in 1..Len(s) : t[i] = s[i]
        /\ DOMAIN t = 1..(Len(s) + 1)
    BY AppendProperties, LenProperties
  <2>2. LowerChar(c) \in S
    BY DEF LowerChar
  <2>3. /\ w \in Seq(S) /\ Len(w) = Len(s) + 1 /\ w[Len(s) + 1] = LowerChar(c)
        /\ \A i \in 1..Len(s) : w[i] = Lower(s)[i]
    BY <1>4, <2>2, AppendProperties
  <2> HIDE DEF t, w
  <2>4. Lower(t) = [i \in 1..(Len(s) + 1) |-> LowerChar(t[i])]
    BY <2>1 DEF Lower, LowerChar
  <2>5. \A i \in 1..(Len(s) + 1) : LowerChar(t[i]) \in S
    <3>1. \A i \in 1..(Len(s) + 1) : t[i] \in S
      BY <2>1, ElementOfSeq
    <3> QED
      BY <3>1 DEF LowerChar
  <2>6. Lower(t) \in Seq(S) /\ Len(Lower(t)) = Len(s) + 1
    BY <1>1, <2>4, <2>5, IsASeq
  <2>7. ASSUME NEW i \in 1..(Len(s) + 1)
        PROVE  Lower(t)[i] = w[i]
    <3>1. CASE i = Len(s) + 1
      BY <2>1, <2>3, <2>4, <3>1
    <3>2. CASE i # Len(s) + 1
      <4>1. i \in 1..Len(s)
        BY <1>1, <3>2
      <4> QED
        BY <1>2, <2>1, <2>3, <2>4, <4>1
    <3> QED
      BY <3>1, <3>2
  <2>8. Lower(t) = w
    BY <2>3, <2>6, <2>7, SeqEqual
  <2> QED
    BY <2>8 DEF t, w
<1> QED
  BY <1>2, <1>4, <1>5

(* It makes no difference for what is a letter or a digit.                 *)
LEMMA AlnumsOfLower ==
  ASSUME NEW s \in Seq(Char)
  PROVE  Alnums(Lower(s)) = Caseless(s)
<1> DEFINE Same(v) == Alnums(Lower(v)) = Lower(Alnums(v))
           P == {n \in Nat : \A v \in Seq(Char) : Len(v) = n => Same(v)}
<1>0. lower \in Char /\ lower \in Alnum /\ Alnum \subseteq Char
  BY CharsDiffer
<1>1. 0 \in P
  <2>1. Lower(<< >>) = << >>
    BY DEF Lower
  <2>2. ASSUME NEW v \in Seq(Char), Len(v) = 0 PROVE Same(v)
    BY <2>1, <2>2, EmptySeq, AlnumsEmpty
  <2> HIDE DEF Same
  <2> QED
    BY <2>2
<1>2. ASSUME NEW n \in P PROVE n + 1 \in P
  <2>1. ASSUME NEW v \in Seq(Char), Len(v) = n + 1 PROVE Same(v)
    <3>1. v # << >>
      BY <2>1
    <3>2. PICK u \in Seq(Char), c \in Char : v = Append(u, c)
      BY <3>1, SequenceEmptyOrAppend
    <3>3. Len(u) = n
      BY <2>1, <3>2, AppendProperties, LenProperties
    <3>4. Alnums(Lower(u)) = Lower(Alnums(u))
      BY <3>3
    <3>5. Lower(u) \in Seq(Char) /\ Lower(v) = Append(Lower(u), LowerChar(c))
      BY <1>0, <3>2, LowerIs
    <3>6. LowerChar(c) \in Char /\ (LowerChar(c) \in Alnum <=> c \in Alnum)
      BY <1>0, CharsDiffer DEF LowerChar
    <3>7. Alnums(u) \in Seq(Alnum)
      BY <3>2, AlnumsAppend
    <3>8. CASE c \in Alnum
      <4>1. Alnums(Lower(v)) = Append(Alnums(Lower(u)), LowerChar(c))
        BY <3>5, <3>6, <3>8, AlnumsAppend
      <4>2. Alnums(v) = Append(Alnums(u), c)
        BY <3>2, <3>8, AlnumsAppend
      <4>3. Lower(Append(Alnums(u), c)) = Append(Lower(Alnums(u)), LowerChar(c))
        BY <1>0, <3>7, <3>8, LowerIs
      <4> QED
        BY <3>4, <4>1, <4>2, <4>3
    <3>9. CASE c \notin Alnum
      <4>1. Alnums(Lower(v)) = Alnums(Lower(u))
        BY <3>5, <3>6, <3>9, AlnumsAppend
      <4>2. Alnums(v) = Alnums(u)
        BY <3>2, <3>9, AlnumsAppend
      <4> QED
        BY <3>4, <4>1, <4>2
    <3> QED
      BY <3>8, <3>9
  <2> HIDE DEF Same
  <2> QED
    BY <2>1
<1>3. \A n \in Nat : n \in P
  <2>1. P \in SUBSET Nat
    OBVIOUS
  <2> HIDE DEF P
  <2> QED
    BY <1>1, <1>2, <2>1, InductionOnSet
<1>4. Len(s) \in Nat
  BY LenProperties
<1>5. Same(s)
  <2> HIDE DEF Same
  <2> QED
    BY <1>3, <1>4
<1> QED
  BY <1>5 DEF Caseless
-----------------------------------------------------------------------------
(* Span stops at the first position that is not accepted.                  *)
LEMMA SpanIs ==
  ASSUME NEW n \in Nat, NEW p \in 1..(n + 1), NEW accepted \in SUBSET (1..n)
  PROVE  /\ Span(p, accepted) \in p..(n + 1)
         /\ Span(p, accepted) \notin accepted
         /\ \A i \in p..(Span(p, accepted) - 1) : i \in accepted
<1> DEFINE Stops == {e \in p..(n + 1) : e \notin accepted}
<1>1. Stops \in SUBSET Nat /\ n + 1 \in Stops
  OBVIOUS
<1>2. PICK e \in Stops : \A m \in Stops : e <= m
  BY <1>1, LeastExists
<1>3. \A i \in p..(e - 1) : i \in accepted
  BY <1>2
<1>4. e \in {p} \cup {i + 1 : i \in accepted}
  <2>1. CASE e = p
    BY <2>1
  <2>2. CASE e # p
    <3>1. e - 1 \in p..(e - 1) /\ (e - 1) + 1 = e
      BY <2>2
    <3>2. e - 1 \in accepted
      BY <1>3, <3>1
    <3> QED
      BY <3>1, <3>2
  <2> QED
    BY <2>1, <2>2
<1>5. \E k \in {p} \cup {i + 1 : i \in accepted} :
        k >= p /\ p..(k - 1) \subseteq accepted /\ k \notin accepted
  BY <1>3, <1>4
<1> DEFINE k == Span(p, accepted)
<1>6. /\ k \in {p} \cup {i + 1 : i \in accepted}
      /\ k >= p /\ p..(k - 1) \subseteq accepted /\ k \notin accepted
  BY <1>5 DEF Span
<1> QED
  BY <1>6

(* So does Skip, at the first character that is not of the class.        *)
LEMMA SkipIs ==
  ASSUME NEW s \in Seq(Char), NEW p \in 1..(Len(s) + 1), NEW class
  PROVE  /\ Skip(s, p, class) \in p..(Len(s) + 1)
         /\ Skip(s, p, class) \in 1..Len(s) => s[Skip(s, p, class)] \notin class
         /\ \A i \in p..(Skip(s, p, class) - 1) : i \in 1..Len(s) /\ s[i] \in class
<1>1. Len(s) \in Nat /\ DOMAIN s = 1..Len(s)
  BY LenProperties
<1> DEFINE accepted == {i \in DOMAIN s : s[i] \in class}
<1>2. accepted \in SUBSET (1..Len(s))
  BY <1>1
<1>3. \A i : i \in accepted <=> i \in 1..Len(s) /\ s[i] \in class
  BY <1>1
<1> HIDE DEF accepted
<1>4. /\ Span(p, accepted) \in p..(Len(s) + 1)
      /\ Span(p, accepted) \notin accepted
      /\ \A i \in p..(Span(p, accepted) - 1) : i \in accepted
  BY <1>1, <1>2, SpanIs
<1>5. Skip(s, p, class) = Span(p, accepted)
  BY DEF Skip, accepted
<1> QED
  BY <1>3, <1>4, <1>5

(* What gid takes from p to the position in front of e: letters and digits *)
(* without a boundary between two letters, and a boundary behind them if   *)
(* there are letters and digits on both sides of it.                       *)
Boundary(s, i) == s[i] = upper /\ (s[i - 1] = lower \/ CharAt(s, i + 1) = lower)

WordShape(s, p, e) ==
  /\ e \in p..(Len(s) + 1)
  /\ \A i \in p..(e - 1) : s[i] \in Alnum
  /\ \A i \in (p + 1)..(e - 1) : s[i - 1] \in Letter => ~Boundary(s, i)
  /\ e > p /\ e <= Len(s) /\ s[e] \in Alnum =>
       s[e] # digit /\ (s[e - 1] \in Letter => Boundary(s, e))
  /\ p <= Len(s) /\ s[p] \in Alnum => e > p

(* The three alternatives of gid.                                          *)
LEMMA GidIs ==
  ASSUME NEW s \in Seq(Char), NEW p \in 1..(Len(s) + 1)
  PROVE  WordShape(s, p, Gid(s, p))
<1>0. Len(s) \in Nat /\ DOMAIN s = 1..Len(s) /\ \A i \in 1..Len(s) : s[i] \in Char
  BY LenProperties, ElementOfSeq
<1> USE DEF Boundary
<1>1. CASE LowerCase(s, p) > p
  <2> DEFINE e == Skip(s, p, {lower, digit})
  <2>1. /\ e \in p..(Len(s) + 1)
        /\ e \in 1..Len(s) => s[e] \notin {lower, digit}
        /\ \A i \in p..(e - 1) : i \in 1..Len(s) /\ s[i] \in {lower, digit}
    BY SkipIs
  <2>2. Gid(s, p) = e /\ e > p
    BY <1>1 DEF Gid, LowerCase
  <2> HIDE DEF e
  <2>3. \A i \in p..(e - 1) : s[i] \in Alnum /\ s[i] # upper
    BY <2>1, CharsDiffer
  <2>4. \A i \in (p + 1)..(e - 1) : i \in p..(e - 1)
    BY <1>0, <2>1
  <2>5. ASSUME e <= Len(s), s[e] \in Alnum
        PROVE  s[e] = upper /\ (s[e - 1] \in Letter => s[e - 1] = lower)
    <3>1. e \in 1..Len(s) /\ e - 1 \in p..(e - 1)
      BY <1>0, <2>1, <2>2, <2>5
    <3> QED
      BY <2>1, <2>3, <2>5, <3>1, CharsDiffer DEF Letter
  <2> QED
    BY <2>1, <2>2, <2>3, <2>4, <2>5, CharsDiffer DEF WordShape
<1>2. CASE ~(LowerCase(s, p) > p) /\ CamelCase(s, p) > p
  <2> DEFINE e == Skip(s, p + 1, {lower, digit})
  <2>1. Gid(s, p) = CamelCase(s, p) /\ CamelCase(s, p) # p
    BY <1>0, <1>2 DEF Gid
  <2>2. Gid(s, p) = e /\ CharAt(s, p) = upper /\ CharAt(s, p + 1) \in {lower, digit}
    BY <2>1 DEF CamelCase
  <2>3. p \in 1..Len(s) /\ s[p] = upper /\ p + 1 \in 1..Len(s)
    <3>1. "" \notin {upper, lower, digit}
      BY CharsDiffer
    <3>2. p + 1 <= Len(s)
      BY <2>2, <3>1 DEF CharAt
    <3>3. p \in 1..Len(s) /\ p <= Len(s) /\ p + 1 \in 1..Len(s)
      BY <1>0, <3>2
    <3> QED
      BY <2>2, <3>3 DEF CharAt
  <2>4. s[p + 1] \in {lower, digit}
    BY <1>0, <2>2, <2>3 DEF CharAt
  <2>5. /\ e \in (p + 1)..(Len(s) + 1)
        /\ e \in 1..Len(s) => s[e] \notin {lower, digit}
        /\ \A i \in (p + 1)..(e - 1) : i \in 1..Len(s) /\ s[i] \in {lower, digit}
    BY <1>0, <2>3, SkipIs
  <2> HIDE DEF e
  <2>6. e # p + 1
    BY <2>3, <2>4, <2>5
  <2>7. \A i \in (p + 1)..(e - 1) : s[i] \in Alnum /\ s[i] # upper
    BY <2>5, CharsDiffer
  <2>8. \A i \in p..(e - 1) : s[i] \in Alnum
    <3>1. \A i \in p..(e - 1) : i = p \/ i \in (p + 1)..(e - 1)
      BY <1>0, <2>5
    <3> QED
      BY <2>3, <2>7, <3>1, CharsDiffer
  <2>9. ASSUME e <= Len(s), s[e] \in Alnum
        PROVE  s[e] = upper /\ (s[e - 1] \in Letter => s[e - 1] = lower)
    <3>1. e \in 1..Len(s) /\ e - 1 \in (p + 1)..(e - 1)
      BY <1>0, <2>5, <2>6, <2>9
    <3> QED
      BY <2>5, <2>7, <2>9, <3>1, CharsDiffer DEF Letter
  <2>10. e \in p..(Len(s) + 1) /\ e > p
    BY <1>0, <2>5
  <2> QED
    BY <2>2, <2>7, <2>8, <2>9, <2>10, CharsDiffer DEF WordShape
<1>3. CASE ~(LowerCase(s, p) > p) /\ ~(CamelCase(s, p) > p)
  <2> DEFINE accepted == {i \in DOMAIN s :
                           s[i] = digit \/ (s[i] = upper /\ CharAt(s, i + 1) # lower)}
             e == Span(p, accepted)
  <2>1. accepted \in SUBSET (1..Len(s))
    BY <1>0
  <2>2. \A i : i \in accepted <=>
          i \in 1..Len(s) /\ (s[i] = digit \/ (s[i] = upper /\ CharAt(s, i + 1) # lower))
    BY <1>0
  <2>3. Gid(s, p) = e
    BY <1>3 DEF Gid, GidUpperCase
  <2> HIDE DEF accepted
  <2>4. /\ e \in p..(Len(s) + 1)
        /\ e \notin accepted
        /\ \A i \in p..(e - 1) : i \in accepted
    BY <1>0, <2>1, SpanIs
  <2> HIDE DEF e
  <2>5. \A i \in p..(e - 1) : s[i] \in Alnum
    BY <2>2, <2>4, CharsDiffer
  <2>6. ASSUME NEW i \in (p + 1)..(e - 1)
        PROVE  ~Boundary(s, i)
    <3>1. i \in accepted /\ i - 1 \in accepted
      BY <1>0, <2>4
    <3> QED
      BY <2>2, <3>1, CharsDiffer
  <2>7. ASSUME e > p, e <= Len(s), s[e] \in Alnum
        PROVE  s[e] # digit /\ (s[e - 1] \in Letter => Boundary(s, e))
    <3>1. e \in 1..Len(s) /\ e - 1 \in p..(e - 1) /\ (e - 1) + 1 = e
      BY <1>0, <2>4, <2>7
    <3>2. s[e] # digit /\ (s[e] = upper => CharAt(s, e + 1) = lower)
      BY <2>2, <2>4, <3>1
    <3>3. s[e - 1] = digit \/ (s[e - 1] = upper /\ CharAt(s, (e - 1) + 1) # lower)
      BY <2>2, <2>4, <3>1
    <3>4. CharAt(s, (e - 1) + 1) = s[e]
      BY <2>7, <3>1 DEF CharAt
    <3> QED
      BY <2>7, <3>2, <3>3, <3>4, CharsDiffer DEF Letter
  <2>8. ASSUME p <= Len(s), s[p] \in Alnum
        PROVE  e > p
    <3>1. p \in 1..Len(s)
      BY <1>0, <2>8
    <3>2. s[p] \notin {lower, digit}
      <4> DEFINE k == Skip(s, p, {lower, digit})
      <4>1. /\ k \in p..(Len(s) + 1)
            /\ k \in 1..Len(s) => s[k] \notin {lower, digit}
        BY SkipIs
      <4>2. ~(k > p)
        BY <1>3 DEF LowerCase
      <4>3. k = p
        BY <1>0, <4>1, <4>2
      <4> QED
        BY <3>1, <4>1, <4>3
    <3>3. s[p] = upper
      BY <2>8, <3>2, CharsDiffer
    <3>4. CharAt(s, p + 1) # lower
      <4> SUFFICES ASSUME CharAt(s, p + 1) = lower PROVE FALSE
        OBVIOUS
      <4>1. CharAt(s, p) = upper
        BY <2>8, <3>3 DEF CharAt
      <4>2. CamelCase(s, p) = Skip(s, p + 1, {lower, digit})
        BY <4>1 DEF CamelCase
      <4>3. p + 1 \in 1..(Len(s) + 1)
        BY <1>0, <3>1
      <4>4. Skip(s, p + 1, {lower, digit}) \in (p + 1)..(Len(s) + 1)
        BY <4>3, SkipIs
      <4> QED
        BY <1>0, <1>3, <4>2, <4>4
    <3>5. p \in accepted
      BY <2>2, <3>1, <3>3, <3>4
    <3> QED
      BY <1>0, <2>4, <3>5
  <2> QED
    BY <2>3, <2>4, <2>5, <2>6, <2>7, <2>8 DEF WordShape
<1> QED
  BY <1>1, <1>2, <1>3

(* first_id takes digits in front of it, and they are no word of their own *)
(* when letters follow.                                                    *)
LEMMA FirstIdIs ==
  ASSUME NEW s \in Seq(Char), NEW p \in 1..(Len(s) + 1)
  PROVE  WordShape(s, p, FirstId(s, p))
<1>0. Len(s) \in Nat /\ DOMAIN s = 1..Len(s) /\ \A i \in 1..Len(s) : s[i] \in Char
  BY LenProperties, ElementOfSeq
<1> DEFINE d == Skip(s, p, {digit})
           e == Gid(s, d)
<1>1. /\ d \in p..(Len(s) + 1)
      /\ d \in 1..Len(s) => s[d] \notin {digit}
      /\ \A i \in p..(d - 1) : i \in 1..Len(s) /\ s[i] \in {digit}
  BY SkipIs
<1>2. FirstId(s, p) = e
  BY DEF FirstId
<1> HIDE DEF d
<1>3. d \in 1..(Len(s) + 1)
  BY <1>0, <1>1
<1>4. WordShape(s, d, e)
  BY <1>3, GidIs
<1> HIDE DEF e
<1>5. e \in d..(Len(s) + 1) /\ e \in p..(Len(s) + 1)
  BY <1>0, <1>1, <1>4 DEF WordShape
<1>6. \A i \in p..(d - 1) : s[i] = digit /\ s[i] \in Alnum /\ s[i] \notin Letter
  BY <1>1, CharsDiffer DEF Letter
<1>7. ASSUME NEW i \in p..(e - 1)
      PROVE  s[i] \in Alnum
  <2>1. i \in p..(d - 1) \/ i \in d..(e - 1)
    BY <1>0, <1>1, <1>5
  <2> QED
    BY <1>4, <1>6, <2>1 DEF WordShape
<1>8. ASSUME NEW i \in (p + 1)..(e - 1), s[i - 1] \in Letter
      PROVE  ~Boundary(s, i)
  <2>1. i - 1 \in p..(d - 1) \/ i \in (d + 1)..(e - 1)
    BY <1>0, <1>1, <1>5
  <2> QED
    BY <1>4, <1>6, <1>8, <2>1 DEF WordShape
<1>9. ASSUME e > p, e <= Len(s), s[e] \in Alnum
      PROVE  s[e] # digit /\ (s[e - 1] \in Letter => Boundary(s, e))
  <2>1. CASE e = d
    <3>1. d <= Len(s) /\ s[d] \in Alnum
      BY <1>9, <2>1
    <3>2. e > d
      BY <1>4, <3>1 DEF WordShape
    <3> QED
      BY <1>0, <1>1, <2>1, <3>2
  <2>2. CASE e # d
    <3>1. e > d
      BY <1>0, <1>1, <1>5, <2>2
    <3> QED
      BY <1>4, <1>9, <3>1 DEF WordShape
  <2> QED
    BY <2>1, <2>2
<1>10. ASSUME p <= Len(s), s[p] \in Alnum
       PROVE  e > p
  <2>1. CASE d = p
    BY <1>4, <1>10, <2>1 DEF WordShape
  <2>2. CASE d # p
    BY <1>0, <1>1, <1>5, <2>2
  <2> QED
    BY <2>1, <2>2
<1> QED
  BY <1>2, <1>5, <1>7, <1>8, <1>9, <1>10 DEF WordShape
-----------------------------------------------------------------------------
(* Where *nth_id finds the next word from p on, and where that word ends.  *)
WordAt(s, p) == Skip(s, p, Separator)

EndAt(s, p) == IF WordAt(s, p) = p THEN Gid(s, p) ELSE FirstId(s, WordAt(s, p))

(* Separators are passed, and what follows is a word or the end.           *)
LEMMA NextWord ==
  ASSUME NEW s \in Seq(Char), NEW p \in 1..(Len(s) + 1)
  PROVE  /\ WordAt(s, p) \in p..(Len(s) + 1)
         /\ WordAt(s, p) \in 1..Len(s) => s[WordAt(s, p)] \in Alnum
         /\ \A i \in p..(WordAt(s, p) - 1) : s[i] \in Separator
         /\ WordShape(s, WordAt(s, p), EndAt(s, p))
         /\ EndAt(s, p) \in WordAt(s, p)..(Len(s) + 1)
<1>0. Len(s) \in Nat /\ \A i \in 1..Len(s) : s[i] \in Char
  BY LenProperties, ElementOfSeq
<1> DEFINE a == WordAt(s, p)
<1>1. /\ a \in p..(Len(s) + 1)
      /\ a \in 1..Len(s) => s[a] \notin Separator
      /\ \A i \in p..(a - 1) : i \in 1..Len(s) /\ s[i] \in Separator
  BY SkipIs DEF WordAt
<1> HIDE DEF a
<1>2. a \in 1..Len(s) => s[a] \in Alnum
  BY <1>0, <1>1, CharsDiffer
<1>3. a \in 1..(Len(s) + 1)
  BY <1>0, <1>1
<1>4. WordShape(s, a, EndAt(s, p))
  BY <1>3, GidIs, FirstIdIs DEF EndAt, a
<1>5. EndAt(s, p) \in a..(Len(s) + 1)
  BY <1>4 DEF WordShape
<1> QED
  BY <1>1, <1>2, <1>4, <1>5 DEF a

(* The recursive function that NthIds is.                                  *)
IsNth(s, f) ==
  f = [p \in 1..(Len(s) + 1) |->
         IF EndAt(s, p) > WordAt(s, p)
         THEN [words |-> <<Word(s, WordAt(s, p), EndAt(s, p))>> \o f[EndAt(s, p)].words,
               end   |-> f[EndAt(s, p)].end]
         ELSE [words |-> << >>, end |-> p]]

(* Its equations can be solved from the end of the identifier to its front.*)
LEMMA NthExists ==
  ASSUME NEW s \in Seq(Char)
  PROVE  \E f : IsNth(s, f)
<1>0. Len(s) \in Nat
  BY LenProperties
<1> DEFINE End == Len(s) + 1
           Val(f, p) ==
             IF EndAt(s, p) > WordAt(s, p)
             THEN [words |-> <<Word(s, WordAt(s, p), EndAt(s, p))>>
                               \o f[EndAt(s, p)].words,
                   end   |-> f[EndAt(s, p)].end]
             ELSE [words |-> << >>, end |-> p]
           Solves(n, f) == f = [p \in n..End |-> Val(f, p)]
           Bad == {n \in 1..End : \A f : ~Solves(n, f)}
<1>1. Bad = {}
  <2> SUFFICES ASSUME Bad # {} PROVE FALSE
    OBVIOUS
  <2>1. Bad \in SUBSET Nat /\ \A n \in Bad : n <= End
    BY <1>0
  <2>2. PICK n \in Bad : \A m \in Bad : n >= m
    <3> HIDE DEF Bad
    <3>1. End \in Nat
      BY <1>0
    <3> HIDE DEF End
    <3> QED
      BY <2>1, <3>1, GreatestExists
  <2>3. \E g : Solves(n + 1, g)
    <3>1. CASE n = End
      <4> DEFINE g == [p \in (n + 1)..End |-> p]
      <4>1. (n + 1)..End = {}
        BY <1>0, <3>1
      <4> HIDE DEF Val
      <4>2. Solves(n + 1, g)
        BY <4>1
      <4> QED
        BY <4>2
    <3>2. CASE n # End
      <4>1. n + 1 \in 1..End /\ ~(n >= n + 1)
        BY <1>0, <3>2
      <4> HIDE DEF Solves
      <4>2. n + 1 \notin Bad
        BY <2>2, <4>1
      <4> QED
        BY <4>1, <4>2
    <3> QED
      BY <3>1, <3>2
  <2>4. PICK g : Solves(n + 1, g)
    BY <2>3
  <2> DEFINE f == [p \in n..End |-> IF p = n THEN Val(g, n) ELSE g[p]]
  <2>5. ASSUME NEW p \in n..End
        PROVE  f[p] = Val(f, p)
    <3>1. p \in 1..(Len(s) + 1)
      BY <1>0
    <3>2. EndAt(s, p) > WordAt(s, p) =>
            EndAt(s, p) \in n..End /\ EndAt(s, p) # n /\ EndAt(s, p) \in (p + 1)..End
      <4>1. /\ WordAt(s, p) \in p..(Len(s) + 1)
            /\ EndAt(s, p) \in WordAt(s, p)..(Len(s) + 1)
        BY <3>1, NextWord
      <4> QED
        BY <1>0, <4>1
    <3>3. Val(g, p) = Val(f, p)
      BY <3>2
    <3>4. CASE p = n
      <4> HIDE DEF Val
      <4> QED
        BY <3>3, <3>4
    <3>5. CASE p # n
      <4>1. p \in (n + 1)..End
        BY <1>0, <3>5
      <4> HIDE DEF Val
      <4>2. g[p] = Val(g, p)
        BY <2>4, <4>1
      <4>3. f[p] = g[p]
        BY <3>5
      <4> HIDE DEF f
      <4> QED
        BY <3>3, <4>2, <4>3
    <3> QED
      BY <3>4, <3>5
  <2>6. Solves(n, f)
    <3> HIDE DEF Val
    <3>1. f = [p \in n..End |-> f[p]]
      OBVIOUS
    <3> HIDE DEF f
    <3> QED
      BY <2>5, <3>1
  <2> HIDE DEF Solves, f
  <2> QED
    BY <2>2, <2>6
<1>2. 1 \in 1..End
  BY <1>0
<1>3. \E f : Solves(1, f)
  <2> HIDE DEF Solves
  <2> QED
    BY <1>1, <1>2
<1> QED
  BY <1>3 DEF IsNth

(* NthIds solves them.                                                     *)
LEMMA NthIs ==
  ASSUME NEW s \in Seq(Char), NEW p \in 1..(Len(s) + 1)
  PROVE  NthIds(s)[p] =
           IF EndAt(s, p) > WordAt(s, p)
           THEN [words |-> <<Word(s, WordAt(s, p), EndAt(s, p))>>
                             \o NthIds(s)[EndAt(s, p)].words,
                 end   |-> NthIds(s)[EndAt(s, p)].end]
           ELSE [words |-> << >>, end |-> p]
<1>1. NthIds(s) = CHOOSE f : IsNth(s, f)
  BY DEF NthIds, IsNth, EndAt, WordAt
<1>2. IsNth(s, NthIds(s))
  BY <1>1, NthExists
<1> QED
  BY <1>2 DEF IsNth
-----------------------------------------------------------------------------
(* The words lie in the identifier from p on, one behind the other, with a *)
(* boundary of gid at both sides, and nothing but separators is outside.   *)
IsLayout(s, p, words, b, e) ==
  /\ b \in [1..Len(words) -> Nat] /\ e \in [1..Len(words) -> Nat]
  /\ \A k \in 1..Len(words) :
       /\ p <= b[k] /\ b[k] < e[k]
       /\ WordShape(s, b[k], e[k])
       /\ words[k] = Word(s, b[k], e[k])
  /\ \A k \in 1..Len(words) : \A j \in 1..(k - 1) : e[j] <= b[k]
  /\ \A i \in p..Len(s) : s[i] \in Alnum =>
       \E k \in 1..Len(words) : i \in b[k]..(e[k] - 1)

Layout(s, p, words) ==
  /\ words \in Seq(Seq(Alnum) \ {<< >>})
  /\ \E b, e : IsLayout(s, p, words, b, e)

(* A word is a part of the identifier.                                     *)
LEMMA WordIs ==
  ASSUME NEW s \in Seq(Char), NEW a \in 1..(Len(s) + 1), NEW e,
         WordShape(s, a, e), e > a
  PROVE  /\ Word(s, a, e) \in Seq(Alnum) /\ Word(s, a, e) # << >>
         /\ Len(Word(s, a, e)) = e - a
         /\ \A i \in 1..(e - a) : Word(s, a, e)[i] = s[a + i - 1]
<1>0. Len(s) \in Nat
  BY LenProperties
<1>1. e \in a..(Len(s) + 1) /\ \A i \in a..(e - 1) : s[i] \in Alnum
  BY DEF WordShape
<1>2. /\ SubSeq(s, a, e - 1) \in Seq(Alnum)
      /\ Len(SubSeq(s, a, e - 1)) = (e - 1) - a + 1
      /\ \A i \in 1..((e - 1) - a + 1) : SubSeq(s, a, e - 1)[i] = s[a + i - 1]
  BY <1>0, <1>1, SubSeqProperties
<1>3. (e - 1) - a + 1 = e - a /\ e - a # 0
  BY <1>0, <1>1
<1> QED
  BY <1>2, <1>3 DEF Word

(* A word in front of a layout makes a layout.                             *)
LEMMA LayoutGrows ==
  ASSUME NEW s \in Seq(Char), NEW p \in 1..(Len(s) + 1), NEW a \in p..(Len(s) + 1),
         NEW e \in 1..(Len(s) + 1), NEW words,
         \A i \in p..(a - 1) : s[i] \in Separator,
         WordShape(s, a, e), e > a, Layout(s, e, words)
  PROVE  Layout(s, p, <<Word(s, a, e)>> \o words)
<1>0. Len(s) \in Nat /\ a \in 1..(Len(s) + 1)
  BY LenProperties
<1> DEFINE w == Word(s, a, e)
           ws == <<w>> \o words
           n == Len(words)
<1>1. w \in Seq(Alnum) \ {<< >>} /\ words \in Seq(Seq(Alnum) \ {<< >>}) /\ n \in Nat
  BY <1>0, WordIs, LenProperties DEF Layout
<1>2. PICK b, f : IsLayout(s, e, words, b, f)
  BY DEF Layout
<1> HIDE DEF w
<1>3. <<w>> \in Seq(Seq(Alnum) \ {<< >>}) /\ Len(<<w>>) = 1 /\ <<w>>[1] = w
  BY <1>1
<1>4. /\ ws \in Seq(Seq(Alnum) \ {<< >>}) /\ Len(ws) = 1 + n
      /\ \A i \in 1..(1 + n) : ws[i] = IF i <= 1 THEN <<w>>[i] ELSE words[i - 1]
  BY <1>1, <1>3, ConcatProperties
<1> HIDE DEF ws, n
<1>5. /\ ws[1] = w
      /\ \A i \in 2..(1 + n) : ws[i] = words[i - 1] /\ i - 1 \in 1..n
  <2>1. 1 \in 1..(1 + n)
    BY <1>1
  <2>2. \A i \in 2..(1 + n) : i \in 1..(1 + n) /\ ~(i <= 1) /\ i - 1 \in 1..n
    BY <1>1
  <2> QED
    BY <1>3, <1>4, <2>1, <2>2
<1> DEFINE bb == [k \in 1..(1 + n) |-> IF k = 1 THEN a ELSE b[k - 1]]
           ee == [k \in 1..(1 + n) |-> IF k = 1 THEN e ELSE f[k - 1]]
<1>6. /\ b \in [1..n -> Nat] /\ f \in [1..n -> Nat]
      /\ \A k \in 1..n :
           /\ e <= b[k] /\ b[k] < f[k]
           /\ WordShape(s, b[k], f[k])
           /\ words[k] = Word(s, b[k], f[k])
      /\ \A k \in 1..n : \A j \in 1..(k - 1) : f[j] <= b[k]
      /\ \A i \in e..Len(s) : s[i] \in Alnum =>
           \E k \in 1..n : i \in b[k]..(f[k] - 1)
  BY <1>2 DEF IsLayout, n
<1>7. /\ bb \in [1..(1 + n) -> Nat] /\ ee \in [1..(1 + n) -> Nat]
      /\ bb[1] = a /\ ee[1] = e
      /\ \A k \in 2..(1 + n) :
           bb[k] = b[k - 1] /\ ee[k] = f[k - 1] /\ k - 1 \in 1..n /\ k # 1
      /\ \A k \in 1..n : bb[k + 1] = b[k] /\ ee[k + 1] = f[k]
  <2>1. ASSUME NEW k \in 1..(1 + n)
        PROVE  bb[k] \in Nat /\ ee[k] \in Nat
    <3>1. k = 1 \/ k - 1 \in 1..n
      BY <1>1
    <3> QED
      BY <1>0, <1>6, <3>1
  <2>2. \A k \in 2..(1 + n) : k \in 1..(1 + n) /\ k - 1 \in 1..n /\ k # 1
    BY <1>1
  <2>3. \A k \in 1..n : k + 1 \in 1..(1 + n) /\ k + 1 # 1 /\ (k + 1) - 1 = k
    BY <1>1
  <2>4. 1 \in 1..(1 + n)
    BY <1>1
  <2> QED
    BY <2>1, <2>2, <2>3, <2>4
<1> HIDE DEF bb, ee
<1>8. ASSUME NEW k \in 1..(1 + n)
      PROVE  /\ p <= bb[k] /\ bb[k] < ee[k]
             /\ WordShape(s, bb[k], ee[k])
             /\ ws[k] = Word(s, bb[k], ee[k])
  <2>1. CASE k = 1
    BY <1>0, <1>5, <1>7, <2>1 DEF w
  <2>2. CASE k # 1
    <3>1. k \in 2..(1 + n)
      BY <1>1, <2>2
    <3>2. p <= b[k - 1]
      <4>1. e <= b[k - 1] /\ b[k - 1] \in Nat
        BY <1>6, <1>7, <3>1
      <4> QED
        BY <1>0, <4>1
    <3> QED
      BY <1>5, <1>6, <1>7, <3>1, <3>2
  <2> QED
    BY <2>1, <2>2
<1>9. ASSUME NEW k \in 1..(1 + n), NEW j \in 1..(k - 1)
      PROVE  ee[j] <= bb[k]
  <2>1. k \in 2..(1 + n) /\ (j # 1 => j \in 2..(1 + n) /\ j - 1 \in 1..((k - 1) - 1))
    BY <1>1
  <2>2. CASE j = 1
    BY <1>6, <1>7, <2>1, <2>2
  <2>3. CASE j # 1
    BY <1>6, <1>7, <2>1, <2>3
  <2> QED
    BY <2>2, <2>3
<1>10. ASSUME NEW i \in p..Len(s), s[i] \in Alnum
       PROVE  \E k \in 1..(1 + n) : i \in bb[k]..(ee[k] - 1)
  <2>1. i \in p..(a - 1) \/ i \in a..(e - 1) \/ i \in e..Len(s)
    BY <1>0
  <2>2. i \notin p..(a - 1)
    BY <1>10, CharsDiffer
  <2>3. CASE i \in a..(e - 1)
    <3>1. 1 \in 1..(1 + n)
      BY <1>1
    <3> QED
      BY <1>7, <2>3, <3>1
  <2>4. CASE i \in e..Len(s)
    <3>1. PICK k \in 1..n : i \in b[k]..(f[k] - 1)
      BY <1>6, <1>10, <2>4
    <3>2. k + 1 \in 1..(1 + n)
      BY <1>1
    <3> QED
      BY <1>7, <3>1, <3>2
  <2> QED
    BY <2>1, <2>2, <2>3, <2>4
<1>11. IsLayout(s, p, ws, bb, ee)
  BY <1>4, <1>7, <1>8, <1>9, <1>10 DEF IsLayout
<1>12. Layout(s, p, ws)
  BY <1>4, <1>11 DEF Layout
<1> QED
  BY <1>12 DEF ws, w

(* What *nth_id matches from p on is a layout of the rest, and it ends     *)
(* where nothing but separators are left.                                  *)
LEMMA NthLayout ==
  ASSUME NEW s \in Seq(Char), NEW q \in 1..(Len(s) + 1)
  PROVE  /\ Layout(s, q, NthIds(s)[q].words)
         /\ NthIds(s)[q].end \in 1..(Len(s) + 1)
         /\ \A i \in NthIds(s)[q].end..Len(s) : s[i] \in Separator
<1>0. Len(s) \in Nat
  BY LenProperties
<1> DEFINE Good(p) ==
             /\ Layout(s, p, NthIds(s)[p].words)
             /\ NthIds(s)[p].end \in 1..(Len(s) + 1)
             /\ \A i \in NthIds(s)[p].end..Len(s) : s[i] \in Separator
           Bad == {p \in 1..(Len(s) + 1) : ~Good(p)}
<1>1. Bad = {}
  <2> SUFFICES ASSUME Bad # {} PROVE FALSE
    OBVIOUS
  <2>1. Bad \in SUBSET Nat /\ \A p \in Bad : p <= Len(s) + 1
    BY <1>0
  <2>2. PICK p \in Bad : \A m \in Bad : p >= m
    <3> HIDE DEF Bad
    <3>1. Len(s) + 1 \in Nat
      BY <1>0
    <3> QED
      BY <2>1, <3>1, GreatestExists
  <2>3. p \in 1..(Len(s) + 1)
    OBVIOUS
  <2> DEFINE a == WordAt(s, p)
             e == EndAt(s, p)
  <2>4. /\ a \in p..(Len(s) + 1)
        /\ a \in 1..Len(s) => s[a] \in Alnum
        /\ \A i \in p..(a - 1) : s[i] \in Separator
        /\ WordShape(s, a, e)
        /\ e \in a..(Len(s) + 1)
    BY <2>3, NextWord
  <2>5. NthIds(s)[p] =
          IF e > a
          THEN [words |-> <<Word(s, a, e)>> \o NthIds(s)[e].words,
                end   |-> NthIds(s)[e].end]
          ELSE [words |-> << >>, end |-> p]
    BY <2>3, NthIs
  <2> HIDE DEF a, e
  <2>6. CASE e > a
    <3>1. e \in 1..(Len(s) + 1) /\ ~(p >= e)
      BY <1>0, <2>3, <2>4, <2>6
    <3>2. Good(e)
      <4> HIDE DEF Good
      <4> QED
        BY <2>2, <3>1
    <3>3. /\ NthIds(s)[p].words = <<Word(s, a, e)>> \o NthIds(s)[e].words
          /\ NthIds(s)[p].end = NthIds(s)[e].end
      BY <2>5, <2>6
    <3>4. Layout(s, p, NthIds(s)[p].words)
      BY <2>3, <2>4, <2>6, <3>1, <3>2, <3>3, LayoutGrows
    <3>5. Good(p)
      BY <3>2, <3>3, <3>4
    <3> HIDE DEF Good
    <3> QED
      BY <3>5
  <2>7. CASE ~(e > a)
    <3>1. NthIds(s)[p].words = << >> /\ NthIds(s)[p].end = p
      BY <2>5, <2>7
    <3>2. a = Len(s) + 1
      <4>1. a \in 1..Len(s) => e > a
        BY <1>0, <2>4 DEF WordShape
      <4> QED
        BY <1>0, <2>3, <2>4, <2>7, <4>1
    <3>3. \A i \in p..Len(s) : s[i] \in Separator
      BY <1>0, <2>4, <3>2
    <3>4. Layout(s, p, << >>)
      <4>1. << >> \in Seq(Seq(Alnum) \ {<< >>}) /\ Len(<< >>) = 0
        OBVIOUS
      <4>2. \A i \in p..Len(s) : s[i] \notin Alnum
        BY <3>3, CharsDiffer
      <4>3. 1..0 = {}
        OBVIOUS
      <4> DEFINE none == [k \in 1..0 |-> 0]
      <4>4. none \in [1..0 -> Nat]
        BY <4>3
      <4> HIDE DEF none
      <4>5. IsLayout(s, p, << >>, none, none)
        BY <4>1, <4>2, <4>3, <4>4 DEF IsLayout
      <4> QED
        BY <4>1, <4>5 DEF Layout
    <3>5. Good(p)
      BY <2>3, <3>1, <3>3, <3>4
    <3> HIDE DEF Good
    <3> QED
      BY <3>5
  <2> QED
    BY <2>6, <2>7
<1>2. Good(q)
  <2> HIDE DEF Good
  <2> QED
    BY <1>1
<1> QED
  BY <1>2

(* HasWord speaks of the letters and digits of the text.                   *)
LEMMA HasWordIs ==
  ASSUME NEW s \in Seq(Char)
  PROVE  HasWord(s) <=> \E i \in 1..Len(s) : s[i] \in Alnum
BY LenProperties DEF HasWord

(* An identifier with a letter or a digit parses, and no other.            *)
LEMMA ParseIs ==
  ASSUME NEW s \in Seq(Char)
  PROVE  /\ Parse(s).ok \in BOOLEAN
         /\ HasWord(s) => Parse(s).ok /\ Layout(s, 1, Parse(s).words)
         /\ ~HasWord(s) => ~Parse(s).ok
<1>0. Len(s) \in Nat /\ 1 \in 1..(Len(s) + 1)
  BY LenProperties
<1> DEFINE a == Skip(s, 1, Separator)
           e == FirstId(s, a)
           rest == NthIds(s)[e]
<1>1. /\ a \in 1..(Len(s) + 1)
      /\ a \in 1..Len(s) => s[a] \in Alnum
      /\ \A i \in 1..(a - 1) : s[i] \in Separator
  BY <1>0, NextWord DEF WordAt
<1>2. /\ Parse(s).ok = (e > a /\ Skip(s, rest.end, Separator) = Len(s) + 1)
      /\ Parse(s).words = <<Word(s, a, e)>> \o rest.words
  BY DEF Parse
<1> HIDE DEF a
<1>3. WordShape(s, a, e)
  BY <1>1, FirstIdIs
<1> HIDE DEF e
<1>4. e \in a..(Len(s) + 1) /\ e \in 1..(Len(s) + 1)
  BY <1>0, <1>1, <1>3 DEF WordShape
<1>5. /\ Layout(s, e, rest.words)
      /\ rest.end \in 1..(Len(s) + 1)
      /\ \A i \in rest.end..Len(s) : s[i] \in Separator
  BY <1>4, NthLayout
<1> HIDE DEF rest
<1>6. Skip(s, rest.end, Separator) = Len(s) + 1
  <2> DEFINE k == Skip(s, rest.end, Separator)
  <2>1. /\ k \in rest.end..(Len(s) + 1)
        /\ k \in 1..Len(s) => s[k] \notin Separator
    BY <1>5, SkipIs
  <2> HIDE DEF k
  <2>2. k \notin rest.end..Len(s)
    BY <1>0, <1>5, <2>1
  <2>3. k = Len(s) + 1
    BY <1>0, <1>5, <2>1, <2>2
  <2> QED
    BY <2>3 DEF k
<1>7. ASSUME HasWord(s)
      PROVE  Parse(s).ok /\ Layout(s, 1, Parse(s).words)
  <2>1. PICK i \in 1..Len(s) : s[i] \in Alnum
    BY <1>7, HasWordIs
  <2>2. i \notin 1..(a - 1)
    BY <1>1, <2>1, CharsDiffer
  <2>3. a \in 1..Len(s) /\ a <= Len(s)
    BY <1>0, <1>1, <2>2
  <2>4. e > a
    BY <1>1, <1>3, <2>3 DEF WordShape
  <2>5. Layout(s, 1, <<Word(s, a, e)>> \o rest.words)
    BY <1>0, <1>1, <1>3, <1>4, <1>5, <2>4, LayoutGrows
  <2> QED
    BY <1>2, <1>6, <2>4, <2>5
<1>8. ASSUME ~HasWord(s)
      PROVE  ~Parse(s).ok
  <2>1. a \notin 1..Len(s)
    BY <1>1, <1>8, HasWordIs
  <2>2. a = Len(s) + 1
    BY <1>0, <1>1, <2>1
  <2>3. ~(e > a)
    BY <1>0, <1>4, <2>2
  <2> QED
    BY <1>2, <2>3
<1> QED
  BY <1>2, <1>7, <1>8

(* What splitIdentifer returns, by what there is to split.                 *)
LEMMA SplitIs ==
  ASSUME NEW s \in Seq(Char)
  PROVE  /\ s = << >> => SplitIdentifier(s) = [ok |-> TRUE, parts |-> << >>]
         /\ Len(s) = 1 => /\ SplitIdentifier(s) =
                               [ok |-> TRUE, parts |-> <<<<EscapeChar(s[1])>>>>]
                          /\ EscapeChar(s[1]) \in Char
                          /\ s[1] \in Alnum => EscapeChar(s[1]) = s[1]
                          /\ s[1] \notin Alnum => EscapeChar(s[1]) \notin Alnum
         /\ Len(s) >= 2 /\ HasWord(s) =>
              SplitIdentifier(s).ok = TRUE /\ Layout(s, 1, SplitIdentifier(s).parts)
         /\ Len(s) >= 2 /\ ~HasWord(s) =>
              SplitIdentifier(s) = [ok |-> FALSE, parts |-> <<s>>]
<1>1. Len(s) \in Nat /\ (Len(s) >= 2 => s # << >> /\ Len(s) # 1)
      /\ (Len(s) = 1 => s # << >>)
  <2>1. Len(s) \in Nat
    BY LenProperties
  <2>2. ASSUME s = << >> PROVE Len(s) = 0
    BY <2>2
  <2>3. Len(s) # 0 => s # << >>
    BY <2>2
  <2>4. Len(s) = 1 => s # << >>
    BY <2>3
  <2>5. Len(s) >= 2 => Len(s) # 0 /\ Len(s) # 1
    <3> DEFINE n == Len(s)
    <3>1. n \in Nat
      BY <2>1
    <3> HIDE DEF n
    <3>2. n >= 2 => n # 0 /\ n # 1
      BY <3>1
    <3> QED
      BY <3>2 DEF n
  <2> QED
    BY <2>1, <2>3, <2>4, <2>5
<1>2. ASSUME Len(s) = 1
      PROVE  /\ SplitIdentifier(s) =
                               [ok |-> TRUE, parts |-> <<<<EscapeChar(s[1])>>>>]
             /\ EscapeChar(s[1]) \in Char
             /\ s[1] \in Alnum => EscapeChar(s[1]) = s[1]
             /\ s[1] \notin Alnum => EscapeChar(s[1]) \notin Alnum
  BY <1>1, <1>2
  DEF SplitIdentifier, EscapeChar, Char, Alnum, Letter, Separator,
      underscore, lower, upper, digit
<1>3. ASSUME Len(s) >= 2, HasWord(s)
      PROVE  SplitIdentifier(s).ok = TRUE /\ Layout(s, 1, SplitIdentifier(s).parts)
  <2>1. Parse(s).ok = TRUE /\ Layout(s, 1, Parse(s).words)
    BY <1>3, ParseIs
  <2>2. /\ SplitIdentifier(s).ok = Parse(s).ok
        /\ SplitIdentifier(s).parts = IF Parse(s).ok THEN Parse(s).words ELSE <<s>>
    BY <1>1, <1>3 DEF SplitIdentifier
  <2> QED
    BY <2>1, <2>2
<1>4. ASSUME Len(s) >= 2, ~HasWord(s)
      PROVE  SplitIdentifier(s) = [ok |-> FALSE, parts |-> <<s>>]
  <2>1. Parse(s).ok = FALSE
    BY <1>4, ParseIs
  <2> QED
    BY <1>1, <1>4, <2>1 DEF SplitIdentifier
<1>5. s = << >> => SplitIdentifier(s) = [ok |-> TRUE, parts |-> << >>]
  BY DEF SplitIdentifier
<1> QED
  BY <1>2, <1>3, <1>4, <1>5
-----------------------------------------------------------------------------
(* Where the first k words of a layout end.                                *)
LastOf(e, k) == IF k = 0 THEN 0 ELSE e[k] - 1

(* The letters and digits of the front of a text, as the front grows.      *)
LEMMA FrontGrows ==
  ASSUME NEW s \in Seq(Char), NEW x \in 0..Len(s), NEW y \in x..Len(s)
  PROVE  /\ (\A i \in (x + 1)..y : s[i] \in Separator) =>
              Alnums(SubSeq(s, 1, y)) = Alnums(SubSeq(s, 1, x))
         /\ (\A i \in (x + 1)..y : s[i] \in Alnum) =>
              Alnums(SubSeq(s, 1, y)) = Alnums(SubSeq(s, 1, x)) \o SubSeq(s, x + 1, y)
         /\ Alnums(SubSeq(s, 1, y)) =
              Alnums(SubSeq(s, 1, x)) \o Alnums(SubSeq(s, x + 1, y))
<1>0. Len(s) \in Nat /\ \A i \in 1..Len(s) : s[i] \in Char
  BY LenProperties, ElementOfSeq
<1> DEFINE u == SubSeq(s, 1, x)
           v == SubSeq(s, x + 1, y)
<1>1. SubSeq(s, 1, y) = u \o v
  <2>1. 1 \in 1..(Len(s) + 1) /\ x \in (1 - 1)..Len(s) /\ y \in x..Len(s)
    BY <1>0
  <2> QED
    BY <2>1, ConcatAdjacentSubSeq
<1>2. u \in Seq(Char)
  <2>1. \A i \in 1..x : s[i] \in Char
    BY <1>0
  <2> QED
    BY <1>0, <2>1, SubSeqProperties
<1>3. /\ v \in Seq(Char) /\ Len(v) = y - x
      /\ \A i \in 1..(y - x) : v[i] = s[x + i] /\ x + i \in (x + 1)..y
  <2>1. \A i \in (x + 1)..y : s[i] \in Char
    BY <1>0
  <2>2. /\ v \in Seq(Char) /\ Len(v) = IF x + 1 <= y THEN y - (x + 1) + 1 ELSE 0
        /\ \A i \in 1..(y - (x + 1) + 1) : v[i] = s[(x + 1) + i - 1]
    BY <1>0, <2>1, SubSeqProperties
  <2>3. y - (x + 1) + 1 = y - x /\ (~(x + 1 <= y) => y - x = 0)
    BY <1>0
  <2>4. \A i \in 1..(y - x) : (x + 1) + i - 1 = x + i /\ x + i \in (x + 1)..y
    BY <1>0
  <2> HIDE DEF v
  <2> QED
    BY <2>2, <2>3, <2>4
<1> HIDE DEF u, v
<1>4. Alnums(u \o v) = Alnums(u) \o Alnums(v)
  BY <1>2, <1>3, AlnumsConcat
<1>5. Alnums(u) \in Seq(Alnum)
  BY <1>2, AlnumsAppend, CharsDiffer
<1>6. ASSUME \A i \in (x + 1)..y : s[i] \in Separator
      PROVE  Alnums(u \o v) = Alnums(u)
  <2>1. Alnums(v) = << >>
    BY <1>3, <1>6, AlnumsOfOneKind
  <2> QED
    BY <1>4, <1>5, <2>1, ConcatEmptySeq
<1>7. ASSUME \A i \in (x + 1)..y : s[i] \in Alnum
      PROVE  Alnums(u \o v) = Alnums(u) \o v
  <2>1. Alnums(v) = v
    BY <1>3, <1>7, AlnumsOfOneKind
  <2> QED
    BY <1>4, <2>1
<1> QED
  BY <1>1, <1>4, <1>6, <1>7 DEF u, v

(* Between two words of a layout, and behind the last, are separators.     *)
LEMMA GapIs ==
  ASSUME NEW s \in Seq(Char), NEW words \in Seq(Seq(Alnum) \ {<< >>}),
         NEW b, NEW e, IsLayout(s, 1, words, b, e), NEW k \in 0..Len(words),
         NEW i \in (LastOf(e, k) + 1)..(IF k = Len(words) THEN Len(s) ELSE b[k + 1] - 1)
  PROVE  i \in 1..Len(s) /\ s[i] \in Separator
<1>0. Len(s) \in Nat /\ Len(words) \in Nat /\ \A m \in 1..Len(s) : s[m] \in Char
  BY LenProperties, ElementOfSeq
<1>1. /\ b \in [1..Len(words) -> Nat] /\ e \in [1..Len(words) -> Nat]
      /\ \A m \in 1..Len(words) : 1 <= b[m] /\ b[m] < e[m] /\ WordShape(s, b[m], e[m])
      /\ \A m \in 1..Len(words) : \A j \in 1..(m - 1) : e[j] <= b[m]
      /\ \A m \in 1..Len(s) : s[m] \in Alnum =>
           \E j \in 1..Len(words) : m \in b[j]..(e[j] - 1)
  BY DEF IsLayout
<1>2. \A m \in 1..Len(words) :
        b[m] \in Nat /\ e[m] \in Nat /\ b[m] < e[m] /\ 1 <= b[m] /\ e[m] <= Len(s) + 1
  <2> SUFFICES ASSUME NEW m \in 1..Len(words)
               PROVE  /\ b[m] \in Nat /\ e[m] \in Nat /\ b[m] < e[m]
                      /\ 1 <= b[m] /\ e[m] <= Len(s) + 1
    OBVIOUS
  <2>1. b[m] \in Nat /\ e[m] \in Nat /\ b[m] < e[m] /\ 1 <= b[m]
    BY <1>1
  <2>2. e[m] \in b[m]..(Len(s) + 1)
    BY <1>1 DEF WordShape
  <2> QED
    BY <1>0, <2>1, <2>2
<1>3. i \in 1..Len(s)
  <2>1. CASE k = 0
    <3>1. LastOf(e, k) + 1 = 1
      BY <2>1 DEF LastOf
    <3>2. CASE k = Len(words)
      BY <1>0, <3>1, <3>2
    <3>3. CASE k # Len(words)
      <4>1. k + 1 \in 1..Len(words)
        BY <1>0, <2>1, <3>3
      <4>2. b[k + 1] \in Nat /\ b[k + 1] <= Len(s) + 1
        BY <1>0, <1>2, <4>1
      <4> QED
        BY <1>0, <3>1, <3>3, <4>2
    <3> QED
      BY <3>2, <3>3
  <2>2. CASE k # 0
    <3>1. LastOf(e, k) + 1 = e[k] /\ k \in 1..Len(words)
      BY <1>0, <1>2, <2>2 DEF LastOf
    <3>2. e[k] \in Nat /\ 1 <= e[k]
      BY <1>2, <3>1
    <3>3. CASE k = Len(words)
      BY <1>0, <3>1, <3>2, <3>3
    <3>4. CASE k # Len(words)
      <4>1. k + 1 \in 1..Len(words)
        BY <1>0, <2>2, <3>4
      <4>2. b[k + 1] \in Nat /\ b[k + 1] <= Len(s) + 1
        BY <1>0, <1>2, <4>1
      <4> QED
        BY <1>0, <3>1, <3>2, <3>4, <4>2
    <3> QED
      BY <3>3, <3>4
  <2> QED
    BY <2>1, <2>2
<1>4. s[i] \notin Alnum
  <2> SUFFICES ASSUME s[i] \in Alnum PROVE FALSE
    OBVIOUS
  <2>1. PICK j \in 1..Len(words) : i \in b[j]..(e[j] - 1)
    BY <1>1, <1>3
  <2>2. i < e[j] /\ b[j] <= i /\ b[j] \in Nat /\ e[j] \in Nat /\ i \in Nat
    BY <1>2, <1>3, <2>1
  <2>3. CASE j <= k
    <3>1. k \in 1..Len(words) /\ k # 0
      BY <1>0, <2>3
    <3>2. e[k] <= i
      <4>1. LastOf(e, k) + 1 = e[k]
        BY <1>2, <3>1 DEF LastOf
      <4> QED
        BY <1>2, <1>3, <3>1, <4>1
    <3>3. CASE j = k
      BY <2>2, <3>2, <3>3
    <3>4. CASE j # k
      <4>1. j \in 1..(k - 1)
        BY <1>0, <2>3, <3>4
      <4>2. e[j] <= b[k] /\ b[k] < e[k]
        BY <1>1, <3>1, <4>1
      <4> QED
        BY <1>2, <2>2, <3>1, <3>2, <4>2
    <3> QED
      BY <3>3, <3>4
  <2>4. CASE ~(j <= k)
    <3>1. k # Len(words) /\ k + 1 \in 1..Len(words)
      BY <1>0, <2>4
    <3>2. i < b[k + 1]
      BY <1>2, <1>3, <3>1
    <3>3. CASE j = k + 1
      BY <1>2, <2>2, <3>1, <3>2, <3>3
    <3>4. CASE j # k + 1
      <4>1. k + 1 \in 1..(j - 1)
        BY <1>0, <2>4, <3>4
      <4>2. e[k + 1] <= b[j] /\ b[k + 1] < e[k + 1]
        BY <1>1, <3>1, <4>1
      <4> QED
        BY <1>2, <2>2, <3>1, <3>2, <4>2
    <3> QED
      BY <3>3, <3>4
  <2> QED
    BY <2>3, <2>4
<1> QED
  BY <1>0, <1>3, <1>4, CharsDiffer

(* The first k words of a layout hold the letters and digits up to where   *)
(* they end.                                                               *)
LEMMA WordsOfFront ==
  ASSUME NEW s \in Seq(Char), NEW words \in Seq(Seq(Alnum) \ {<< >>}),
         NEW b, NEW e, IsLayout(s, 1, words, b, e), NEW n \in 0..Len(words)
  PROVE  /\ LastOf(e, n) \in 0..Len(s)
         /\ FlattenSeq(SubSeq(words, 1, n)) = Alnums(SubSeq(s, 1, LastOf(e, n)))
<1>0. Len(s) \in Nat /\ Len(words) \in Nat /\ words \in Seq(Seq(Alnum))
  <2>1. words \in Seq(Seq(Alnum))
    BY SeqMonotonic
  <2> QED
    BY <2>1, LenProperties
<1>1. /\ b \in [1..Len(words) -> Nat] /\ e \in [1..Len(words) -> Nat]
      /\ \A m \in 1..Len(words) : /\ 1 <= b[m] /\ b[m] < e[m]
                                  /\ WordShape(s, b[m], e[m])
                                  /\ words[m] = Word(s, b[m], e[m])
      /\ \A m \in 1..Len(words) : \A j \in 1..(m - 1) : e[j] <= b[m]
  BY DEF IsLayout
<1>2. \A m \in 1..Len(words) :
        /\ b[m] \in Nat /\ e[m] \in Nat /\ b[m] < e[m] /\ 1 <= b[m] /\ e[m] <= Len(s) + 1
        /\ \A i \in b[m]..(e[m] - 1) : s[i] \in Alnum
  <2> SUFFICES ASSUME NEW m \in 1..Len(words)
               PROVE  /\ b[m] \in Nat /\ e[m] \in Nat /\ b[m] < e[m]
                      /\ 1 <= b[m] /\ e[m] <= Len(s) + 1
                      /\ \A i \in b[m]..(e[m] - 1) : s[i] \in Alnum
    OBVIOUS
  <2>1. b[m] \in Nat /\ e[m] \in Nat /\ b[m] < e[m] /\ 1 <= b[m]
    BY <1>1
  <2>2. /\ e[m] \in b[m]..(Len(s) + 1)
        /\ \A i \in b[m]..(e[m] - 1) : s[i] \in Alnum
    BY <1>1 DEF WordShape
  <2> QED
    BY <1>0, <2>1, <2>2
<1> DEFINE Held(k) ==
             FlattenSeq(SubSeq(words, 1, k)) = Alnums(SubSeq(s, 1, LastOf(e, k)))
           P == {k \in Nat : k <= Len(words) => Held(k)}
<1>3. \A k \in 0..Len(words) : LastOf(e, k) \in 0..Len(s)
  <2> SUFFICES ASSUME NEW k \in 0..Len(words) PROVE LastOf(e, k) \in 0..Len(s)
    OBVIOUS
  <2>1. k # 0 => k \in 1..Len(words)
    BY <1>0
  <2> QED
    BY <1>0, <1>2, <2>1 DEF LastOf
<1>4. 0 \in P
  <2>1. SubSeq(words, 1, 0) = << >> /\ SubSeq(s, 1, 0) = << >>
    BY SubSeqEmpty
  <2>2. LastOf(e, 0) = 0
    BY DEF LastOf
  <2>3. Held(0)
    BY <2>1, <2>2, FlattenEmpty, AlnumsEmpty
  <2> HIDE DEF Held
  <2> QED
    BY <2>3
<1>5. ASSUME NEW k \in P PROVE k + 1 \in P
  <2> SUFFICES ASSUME k + 1 <= Len(words) PROVE Held(k + 1)
    <3> HIDE DEF Held
    <3> QED
      OBVIOUS
  <2>1. k \in Nat /\ k <= Len(words) /\ k + 1 \in 1..Len(words) /\ k \in 0..Len(words)
        /\ k + 1 \in 0..Len(words) /\ k # Len(words) /\ k + 1 # 0
    BY <1>0
  <2>2. FlattenSeq(SubSeq(words, 1, k)) = Alnums(SubSeq(s, 1, LastOf(e, k)))
    BY <2>1
  <2> DEFINE x == LastOf(e, k)
             y == b[k + 1] - 1
             z == e[k + 1] - 1
             w == words[k + 1]
  <2>3. x \in 0..Len(s) /\ LastOf(e, k + 1) = z /\ z \in 0..Len(s)
    BY <1>3, <2>1 DEF LastOf
  <2>4. x <= y
    <3>1. CASE k = 0
      BY <1>2, <2>1, <3>1 DEF LastOf
    <3>2. CASE k # 0
      <4>1. k \in 1..Len(words) /\ k \in 1..((k + 1) - 1)
        BY <1>0, <2>1, <3>2
      <4>2. e[k] <= b[k + 1] /\ x = e[k] - 1
        BY <1>1, <2>1, <3>2, <4>1 DEF LastOf
      <4> QED
        BY <1>2, <2>1, <4>1, <4>2
    <3> QED
      BY <3>1, <3>2
  <2>5. y \in x..Len(s) /\ z \in y..Len(s) /\ y \in 0..Len(s) /\ y + 1 = b[k + 1]
    <3>1. /\ b[k + 1] \in Nat /\ e[k + 1] \in Nat /\ b[k + 1] < e[k + 1]
          /\ 1 <= b[k + 1] /\ e[k + 1] <= Len(s) + 1
      BY <1>2, <2>1
    <3>2. x \in 0..Len(s) /\ x <= b[k + 1] - 1
      BY <2>3, <2>4
    <3> HIDE DEF x
    <3>3. y \in x..Len(s) /\ y \in 0..Len(s) /\ y + 1 = b[k + 1]
      <4> DEFINE first == b[k + 1]
                 last == e[k + 1]
      <4>1. /\ first \in Nat /\ last \in Nat /\ first < last
            /\ 1 <= first /\ last <= Len(s) + 1 /\ x <= first - 1
        BY <3>1, <3>2
      <4> HIDE DEF first, last
      <4>2. first - 1 \in x..Len(s) /\ first - 1 \in 0..Len(s) /\ (first - 1) + 1 = first
        BY <1>0, <3>2, <4>1
      <4> QED
        BY <4>2 DEF first
    <3>4. z \in y..Len(s)
      BY <1>0, <3>1
    <3> QED
      BY <3>3, <3>4
  <2>6. \A i \in (x + 1)..y : s[i] \in Separator
    BY <2>1, GapIs
  <2>7. \A i \in (y + 1)..z : s[i] \in Alnum
    BY <1>2, <2>1, <2>5
  <2>8. w = SubSeq(s, y + 1, z) /\ w \in Seq(Alnum)
    BY <1>0, <1>1, <2>1, <2>5, ElementOfSeq DEF Word
  <2> HIDE DEF x, y, z
  <2>9. Alnums(SubSeq(s, 1, y)) = Alnums(SubSeq(s, 1, x))
    BY <2>3, <2>5, <2>6, FrontGrows
  <2>10. Alnums(SubSeq(s, 1, z)) = Alnums(SubSeq(s, 1, y)) \o SubSeq(s, y + 1, z)
    BY <2>5, <2>7, FrontGrows
  <2>11. FlattenSeq(SubSeq(words, 1, k + 1)) = FlattenSeq(SubSeq(words, 1, k)) \o w
    <3>1. 1 \in 1..Len(words) /\ k + 1 \in 1..Len(words) /\ (k + 1) - 1 = k
      BY <1>0, <2>1
    <3>2. SubSeq(words, 1, k + 1) = SubSeq(words, 1, k) \o <<w>>
      BY <1>0, <3>1, SubSeqRecursiveSecond
    <3>3. SubSeq(words, 1, k) \in Seq(Seq(Alnum))
      <4>1. \A i \in 1..k : words[i] \in Seq(Alnum)
        <5>1. \A i \in 1..k : i \in 1..Len(words)
          BY <1>0, <2>1
        <5> QED
          BY <1>0, <5>1, ElementOfSeq
      <4> QED
        BY <2>1, <4>1, SubSeqProperties
    <3>4. SubSeq(words, 1, k) \o <<w>> = Append(SubSeq(words, 1, k), w)
      BY <2>8, <3>3, AppendIsConcat
    <3> HIDE DEF w
    <3> QED
      BY <2>8, <3>2, <3>3, <3>4, FlattenAppend
  <2> QED
    BY <2>2, <2>3, <2>8, <2>9, <2>10, <2>11 DEF x
<1>6. \A k \in Nat : k \in P
  <2>1. P \in SUBSET Nat
    OBVIOUS
  <2> HIDE DEF P
  <2> QED
    BY <1>4, <1>5, <2>1, InductionOnSet
<1>7. n \in Nat /\ n <= Len(words)
  BY <1>0
<1> QED
  BY <1>3, <1>6, <1>7

(* All words of a layout hold all letters and digits.                      *)
LEMMA WordsOfLayout ==
  ASSUME NEW s \in Seq(Char), NEW words, Layout(s, 1, words)
  PROVE  FlattenSeq(words) = Alnums(s)
<1>1. words \in Seq(Seq(Alnum) \ {<< >>}) /\ \E b, e : IsLayout(s, 1, words, b, e)
  BY DEF Layout
<1>2. PICK b, e : IsLayout(s, 1, words, b, e)
  BY <1>1
<1>3. Len(s) \in Nat /\ Len(words) \in Nat
  BY <1>1, LenProperties
<1> DEFINE x == LastOf(e, Len(words))
<1>4. /\ x \in 0..Len(s)
      /\ FlattenSeq(SubSeq(words, 1, Len(words))) = Alnums(SubSeq(s, 1, x))
  BY <1>1, <1>2, <1>3, WordsOfFront
<1>5. \A i \in (x + 1)..Len(s) : s[i] \in Separator
  <2>1. Len(words) \in 0..Len(words)
    BY <1>3
  <2> QED
    BY <1>1, <1>2, <2>1, GapIs
<1> HIDE DEF x
<1>6. Alnums(SubSeq(s, 1, Len(s))) = Alnums(SubSeq(s, 1, x))
  <2>1. Len(s) \in x..Len(s)
    BY <1>3, <1>4
  <2> QED
    BY <1>4, <1>5, <2>1, FrontGrows
<1> QED
  BY <1>1, <1>4, <1>6, SubSeqFull

(* The parts of an identifier: typed, never empty, and none of its letters *)
(* and digits is lost.                                                     *)
LEMMA PartsAre ==
  ASSUME NEW s \in Seq(Char)
  PROVE  /\ SplitIdentifier(s) \in [ok : BOOLEAN, parts : Seq(Seq(Char) \ {<< >>})]
         /\ HasWord(s) => /\ SplitIdentifier(s).ok
                          /\ FlattenSeq(SplitIdentifier(s).parts) = Alnums(s)
         /\ Alnums(FlattenSeq(SplitIdentifier(s).parts)) = Alnums(s)
<1> DEFINE r == SplitIdentifier(s)
<1>0. Len(s) \in Nat
  BY LenProperties
<1>1. CASE s = << >>
  <2>1. r = [ok |-> TRUE, parts |-> << >>]
    BY <1>1, SplitIs
  <2>2. << >> \in Seq(Seq(Char) \ {<< >>})
    OBVIOUS
  <2>3. ~HasWord(s)
    BY <1>1 DEF HasWord
  <2>4. r.parts = << >> /\ r.ok = TRUE
    BY <2>1
  <2>5. r \in [ok : BOOLEAN, parts : Seq(Seq(Char) \ {<< >>})]
    BY <2>1, <2>2
  <2> HIDE DEF r
  <2>6. Alnums(FlattenSeq(r.parts)) = Alnums(s)
    BY <1>1, <2>4, FlattenEmpty
  <2> QED
    BY <2>3, <2>5, <2>6 DEF r
<1>2. CASE Len(s) = 1
  <2> DEFINE c == EscapeChar(s[1])
  <2>1. /\ r = [ok |-> TRUE, parts |-> <<<<c>>>>]
        /\ c \in Char
        /\ s[1] \in Alnum => c = s[1]
        /\ s[1] \notin Alnum => c \notin Alnum
    BY <1>2, SplitIs
  <2> HIDE DEF c
  <2>2. s[1] \in Char
    BY <1>2, ElementOfSeq
  <2>3. s = <<s[1]>>
    <3>1. <<s[1]>> \in Seq(Char) /\ Len(<<s[1]>>) = 1 /\ <<s[1]>>[1] = s[1]
      BY <2>2
    <3>2. \A i \in 1..1 : i = 1
      OBVIOUS
    <3> QED
      BY <1>2, <3>1, <3>2, SeqEqual
  <2>4. /\ <<c>> \in Seq(Char) \ {<< >>}
        /\ <<<<c>>>> \in Seq(Seq(Char) \ {<< >>})
    BY <2>1
  <2>5. FlattenSeq(<<<<c>>>>) = <<c>>
    BY <2>4, FlattenOne
  <2>6. << >> \in Seq(Char) /\ << >> \in Seq(Alnum)
        /\ Append(<< >>, c) = <<c>> /\ Append(<< >>, s[1]) = <<s[1]>>
    OBVIOUS
  <2>7. /\ c \in Alnum => Alnums(<<c>>) = <<c>>
        /\ c \notin Alnum => Alnums(<<c>>) = << >>
    BY <2>1, <2>6, AlnumsAppend, AlnumsEmpty
  <2>8. /\ s[1] \in Alnum => Alnums(s) = s
        /\ s[1] \notin Alnum => Alnums(s) = << >>
    <3> DEFINE d == s[1]
    <3>1. d \in Char /\ s = <<d>> /\ Append(<< >>, d) = <<d>>
      BY <2>2, <2>3, <2>6
    <3> HIDE DEF d
    <3>2. /\ d \in Alnum => Alnums(<<d>>) = <<d>>
          /\ d \notin Alnum => Alnums(<<d>>) = << >>
      BY <2>6, <3>1, AlnumsAppend, AlnumsEmpty
    <3>3. /\ d \in Alnum => Alnums(s) = s
          /\ d \notin Alnum => Alnums(s) = << >>
      BY <3>1, <3>2
    <3> QED
      BY <3>3 DEF d
  <2>9. HasWord(s) => s[1] \in Alnum
    <3>1. \A i \in 1..1 : i = 1
      OBVIOUS
    <3> QED
      BY <1>2, <3>1, HasWordIs
  <2> QED
    BY <2>1, <2>3, <2>4, <2>5, <2>7, <2>8, <2>9
<1>3. CASE Len(s) >= 2 /\ HasWord(s)
  <2>1. r.ok = TRUE /\ Layout(s, 1, r.parts)
    BY <1>3, SplitIs
  <2>2. FlattenSeq(r.parts) = Alnums(s)
    BY <2>1, WordsOfLayout
  <2>3. r.parts \in Seq(Seq(Alnum) \ {<< >>})
    BY <2>1 DEF Layout
  <2>4. r.parts \in Seq(Seq(Char) \ {<< >>})
    <3>1. Alnum \subseteq Char
      BY CharsDiffer
    <3>2. Seq(Alnum) \ {<< >>} \subseteq Seq(Char) \ {<< >>}
      BY <3>1, SeqMonotonic
    <3> QED
      BY <2>3, <3>2, SeqMonotonic
  <2>5. Parse(s).ok \in BOOLEAN /\ r = [ok |-> Parse(s).ok, parts |-> r.parts]
    <3>1. s # << >> /\ Len(s) # 1
      <4>1. s # << >>
        BY <1>3 DEF HasWord
      <4>2. Len(s) # 1
        <5> DEFINE n == Len(s)
        <5>1. n \in Nat /\ n >= 2
          BY <1>0, <1>3
        <5> HIDE DEF n
        <5>2. n # 1
          BY <5>1
        <5> QED
          BY <5>2 DEF n
      <4> QED
        BY <4>1, <4>2
    <3> QED
      BY <3>1, ParseIs DEF SplitIdentifier
  <2>6. r \in [ok : BOOLEAN, parts : Seq(Seq(Char) \ {<< >>})]
    <3> HIDE DEF r
    <3> QED
      BY <2>4, <2>5
  <2>7. Alnums(Alnums(s)) = Alnums(s)
    <3>1. Alnums(s) \in Seq(Alnum)
      BY AlnumsAppend, CharsDiffer
    <3>2. Alnums(s) \in Seq(Char)
      BY <3>1, CharsDiffer, SeqMonotonic
    <3>3. \A i \in 1..Len(Alnums(s)) : Alnums(s)[i] \in Alnum
      BY <3>1, ElementOfSeq
    <3> QED
      BY <3>2, <3>3, AlnumsOfOneKind
  <2> QED
    BY <2>1, <2>2, <2>6, <2>7
<1>4. CASE Len(s) >= 2 /\ ~HasWord(s)
  <2>1. r = [ok |-> FALSE, parts |-> <<s>>]
    BY <1>4, SplitIs
  <2>2. s # << >>
    <3>1. ASSUME s = << >> PROVE Len(s) = 0
      BY <3>1
    <3> DEFINE n == Len(s)
    <3>2. n \in Nat /\ n >= 2
      BY <1>0, <1>4
    <3> HIDE DEF n
    <3>3. n # 0
      BY <3>2
    <3> QED
      BY <3>1, <3>3 DEF n
  <2>3. <<s>> \in Seq(Seq(Char) \ {<< >>})
    BY <2>2
  <2>4. FlattenSeq(<<s>>) = s
    BY FlattenOne
  <2> QED
    BY <1>4, <2>1, <2>3, <2>4
<1>5. s = << >> \/ Len(s) = 1 \/ Len(s) >= 2
  <2> DEFINE n == Len(s)
  <2>1. n \in Nat
    BY <1>0
  <2> HIDE DEF n
  <2>2. n = 0 \/ n = 1 \/ n >= 2
    BY <2>1
  <2>3. n = 0 => s = << >>
    BY EmptySeq DEF n
  <2> QED
    BY <2>2, <2>3 DEF n
<1> QED
  BY <1>1, <1>2, <1>3, <1>4, <1>5
-----------------------------------------------------------------------------
UpperChar(c) == IF c = lower THEN upper ELSE c

(* What the case conversions do to a text of characters.                   *)
LEMMA CasesAre ==
  ASSUME NEW s \in Seq(Char)
  PROVE  /\ Lower(s) \in Seq(Char) /\ Len(Lower(s)) = Len(s)
         /\ Upper(s) \in Seq(Char) /\ Len(Upper(s)) = Len(s)
         /\ \A i \in 1..Len(s) : /\ s[i] \in Char
                                 /\ Lower(s)[i] = LowerChar(s[i])
                                 /\ Upper(s)[i] = UpperChar(s[i])
<1>1. Len(s) \in Nat /\ DOMAIN s = 1..Len(s) /\ \A i \in 1..Len(s) : s[i] \in Char
  BY LenProperties, ElementOfSeq
<1>2. lower \in Char /\ upper \in Char
  BY CharsDiffer
<1>3. /\ Lower(s) = [i \in 1..Len(s) |-> LowerChar(s[i])]
      /\ Upper(s) = [i \in 1..Len(s) |-> UpperChar(s[i])]
  BY <1>1 DEF Lower, LowerChar, Upper, UpperChar
<1>4. \A i \in 1..Len(s) : LowerChar(s[i]) \in Char /\ UpperChar(s[i]) \in Char
  BY <1>1, <1>2 DEF LowerChar, UpperChar
<1>5. Lower(s) \in Seq(Char) /\ Len(Lower(s)) = Len(s)
  BY <1>1, <1>3, <1>4, IsASeq
<1>6. Upper(s) \in Seq(Char) /\ Len(Upper(s)) = Len(s)
  BY <1>1, <1>3, <1>4, IsASeq
<1> QED
  BY <1>1, <1>3, <1>5, <1>6

(* Lower case forgets a conversion that was done before.                   *)
LEMMA LowerForgets ==
  ASSUME NEW s \in Seq(Char)
  PROVE  Lower(Lower(s)) = Lower(s) /\ Lower(Upper(s)) = Lower(s)
<1> DEFINE l == Lower(s)
           u == Upper(s)
<1>1. /\ l \in Seq(Char) /\ Len(l) = Len(s)
      /\ u \in Seq(Char) /\ Len(u) = Len(s)
      /\ \A i \in 1..Len(s) : /\ s[i] \in Char
                              /\ l[i] = LowerChar(s[i])
                              /\ u[i] = UpperChar(s[i])
  BY CasesAre
<1> HIDE DEF l, u
<1>2. /\ Lower(l) \in Seq(Char) /\ Len(Lower(l)) = Len(s)
      /\ \A i \in 1..Len(s) : Lower(l)[i] = LowerChar(l[i])
  BY <1>1, CasesAre
<1>3. /\ Lower(u) \in Seq(Char) /\ Len(Lower(u)) = Len(s)
      /\ \A i \in 1..Len(s) : Lower(u)[i] = LowerChar(u[i])
  BY <1>1, CasesAre
<1>4. lower # upper
  BY CharsDiffer
<1>5. \A i \in 1..Len(s) : Lower(l)[i] = l[i] /\ Lower(u)[i] = l[i]
  BY <1>1, <1>2, <1>3, <1>4 DEF LowerChar, UpperChar
<1>6. Lower(l) = l
  BY <1>1, <1>2, <1>5, SeqEqual
<1>7. Lower(u) = l
  BY <1>1, <1>3, <1>5, SeqEqual
<1> QED
  BY <1>6, <1>7 DEF l, u

(* Lower case goes from left to right.                                     *)
LEMMA LowerConcat ==
  ASSUME NEW s \in Seq(Char), NEW t \in Seq(Char)
  PROVE  Lower(s \o t) = Lower(s) \o Lower(t)
<1> DEFINE a == Lower(s)
           z == Lower(t)
           x == s \o t
           y == a \o z
<1>0. Len(s) \in Nat /\ Len(t) \in Nat
  BY LenProperties
<1>1. /\ a \in Seq(Char) /\ Len(a) = Len(s)
      /\ \A i \in 1..Len(s) : a[i] = LowerChar(s[i])
  BY CasesAre
<1>2. /\ z \in Seq(Char) /\ Len(z) = Len(t)
      /\ \A i \in 1..Len(t) : z[i] = LowerChar(t[i])
  BY CasesAre
<1> HIDE DEF a, z
<1>3. /\ x \in Seq(Char) /\ Len(x) = Len(s) + Len(t)
      /\ \A i \in 1..(Len(s) + Len(t)) :
           x[i] = IF i <= Len(s) THEN s[i] ELSE t[i - Len(s)]
  BY ConcatProperties
<1>4. /\ y \in Seq(Char) /\ Len(y) = Len(s) + Len(t)
      /\ \A i \in 1..(Len(s) + Len(t)) :
           y[i] = IF i <= Len(s) THEN a[i] ELSE z[i - Len(s)]
  <2>1. a \in Seq(Char) /\ z \in Seq(Char)
    BY <1>1, <1>2
  <2>2. /\ y \in Seq(Char) /\ Len(y) = Len(a) + Len(z)
        /\ \A i \in 1..(Len(a) + Len(z)) :
             y[i] = IF i <= Len(a) THEN a[i] ELSE z[i - Len(a)]
    BY <2>1, ConcatProperties
  <2> HIDE DEF y
  <2> QED
    BY <1>1, <1>2, <2>2
<1> HIDE DEF x, y
<1>5. /\ Lower(x) \in Seq(Char) /\ Len(Lower(x)) = Len(s) + Len(t)
      /\ \A i \in 1..(Len(s) + Len(t)) : Lower(x)[i] = LowerChar(x[i])
  BY <1>3, CasesAre
<1>6. ASSUME NEW i \in 1..(Len(s) + Len(t)) PROVE Lower(x)[i] = y[i]
  <2>1. CASE i <= Len(s)
    <3>1. i \in 1..Len(s)
      BY <1>0, <2>1
    <3> QED
      BY <1>1, <1>3, <1>4, <1>5, <2>1, <3>1
  <2>2. CASE ~(i <= Len(s))
    <3>1. i - Len(s) \in 1..Len(t)
      BY <1>0, <2>2
    <3> QED
      BY <1>2, <1>3, <1>4, <1>5, <2>2, <3>1
  <2> QED
    BY <2>1, <2>2
<1>7. Lower(x) = y
  BY <1>4, <1>5, <1>6, SeqEqual
<1> QED
  BY <1>7 DEF x, y, a, z

(* Texts that differ in case only have the same letters and digits.        *)
LEMMA CaselessOfLower ==
  ASSUME NEW s \in Seq(Char), NEW t \in Seq(Char), Lower(s) = Lower(t)
  PROVE  Caseless(s) = Caseless(t)
BY AlnumsOfLower

(* So do two texts, one behind the other.                                  *)
LEMMA CaselessConcat ==
  ASSUME NEW s \in Seq(Char), NEW t \in Seq(Char)
  PROVE  Caseless(s \o t) = Caseless(s) \o Caseless(t)
<1>1. Alnums(s \o t) = Alnums(s) \o Alnums(t)
  BY AlnumsConcat
<1>2. Alnums(s) \in Seq(Alnum) /\ Alnums(t) \in Seq(Alnum) /\ Alnum \subseteq Char
  BY AlnumsAppend, CharsDiffer
<1>3. Alnums(s) \in Seq(Char) /\ Alnums(t) \in Seq(Char)
  BY <1>2, SeqMonotonic
<1> QED
  BY <1>1, <1>3, LowerConcat DEF Caseless

(* A word is converted to the same word but for case.                      *)
LEMMA ConvertIs ==
  ASSUME NEW s \in Seq(Char), NEW n, NEW c
  PROVE  /\ ConvertPart(s, n, c) \in Seq(Char)
         /\ Lower(ConvertPart(s, n, c)) = Lower(s)
<1>1. /\ Lower(s) \in Seq(Char) /\ Lower(Lower(s)) = Lower(s)
      /\ Upper(s) \in Seq(Char) /\ Lower(Upper(s)) = Lower(s)
  BY CasesAre, LowerForgets
<1>2. ToCamelCase(s) \in Seq(Char) /\ Lower(ToCamelCase(s)) = Lower(s)
  <2>1. CASE s = << >>
    BY <2>1 DEF ToCamelCase
  <2>2. CASE s # << >>
    <3> DEFINE h == <<s[1]>>
               t == Tail(s)
    <3>1. s[1] \in Char /\ h \in Seq(Char) /\ t \in Seq(Char)
      <4>1. Head(s) \in Char /\ Head(s) = s[1]
        BY <2>2, HeadTailProperties
      <4> QED
        BY <2>2, <4>1, HeadTailProperties
    <3>2. SubSeq(s, 1, 1) = h
      <4>1. \A i \in 1..1 : s[i] \in Char /\ h[i] = s[1 + i - 1]
        BY <3>1
      <4>2. /\ SubSeq(s, 1, 1) \in Seq(Char) /\ Len(SubSeq(s, 1, 1)) = 1
            /\ \A i \in 1..1 : SubSeq(s, 1, 1)[i] = s[1 + i - 1]
        BY <4>1, SubSeqProperties
      <4>3. Len(h) = 1
        BY <3>1
      <4> HIDE DEF h
      <4> QED
        BY <3>1, <4>1, <4>2, <4>3, SeqEqual
    <3>3. s = h \o t
      <4>1. Len(s) \in Nat /\ Len(t) = Len(s) - 1 /\ Len(h) = 1 /\ h[1] = s[1]
            /\ \A i \in 1..Len(t) : t[i] = s[i + 1]
        BY <2>2, <3>1, HeadTailProperties, LenProperties
      <4> HIDE DEF h, t
      <4>2. /\ h \o t \in Seq(Char) /\ Len(h \o t) = Len(h) + Len(t)
            /\ \A i \in 1..(Len(h) + Len(t)) :
                 (h \o t)[i] = IF i <= Len(h) THEN h[i] ELSE t[i - Len(h)]
        BY <3>1, ConcatProperties
      <4>3. ASSUME NEW i \in 1..Len(s) PROVE s[i] = (h \o t)[i]
        <5>1. CASE i = 1
          BY <4>1, <4>2, <5>1
        <5>2. CASE i # 1
          <6>1. i - 1 \in 1..Len(t) /\ i \in 1..(Len(h) + Len(t)) /\ ~(i <= Len(h))
                /\ (i - 1) + 1 = i
            BY <4>1, <5>2
          <6>2. (h \o t)[i] = t[i - 1]
            BY <4>1, <4>2, <6>1
          <6> QED
            BY <4>1, <6>1, <6>2
        <5> QED
          BY <5>1, <5>2
      <4>4. Len(s) = Len(h \o t)
        BY <4>1, <4>2
      <4> QED
        BY <4>2, <4>3, <4>4, SeqEqual
    <3> HIDE DEF h, t
    <3>4. /\ Upper(h) \in Seq(Char) /\ Lower(t) \in Seq(Char)
          /\ Lower(Upper(h)) = Lower(h) /\ Lower(Lower(t)) = Lower(t)
      BY <3>1, CasesAre, LowerForgets
    <3>5. ToCamelCase(s) = Upper(h) \o Lower(t)
      BY <2>2, <3>2 DEF ToCamelCase, t
    <3>6. Upper(h) \o Lower(t) \in Seq(Char)
      BY <3>4, ConcatProperties
    <3>7. Lower(Upper(h) \o Lower(t)) = Lower(h) \o Lower(t)
      BY <3>4, LowerConcat
    <3>8. Lower(s) = Lower(h) \o Lower(t)
      BY <3>1, <3>3, LowerConcat
    <3> QED
      BY <3>5, <3>6, <3>7, <3>8
  <2> QED
    BY <2>1, <2>2
<1> QED
  BY <1>1, <1>2 DEF ConvertPart

(* The letters and digits of a text are a text.                            *)
LEMMA CaselessTyped ==
  ASSUME NEW s \in Seq(Char)
  PROVE  Caseless(s) \in Seq(Char)
<1>1. Alnums(s) \in Seq(Alnum) /\ Alnum \subseteq Char
  BY AlnumsAppend, CharsDiffer
<1>2. Alnums(s) \in Seq(Char)
  BY <1>1, SeqMonotonic
<1> QED
  BY <1>2, CasesAre DEF Caseless

(* One part more, and its letters and digits come behind the others.       *)
LEMMA CaselessAppend ==
  ASSUME NEW w \in Seq(Seq(Char)), NEW x \in Seq(Char)
  PROVE  Caseless(FlattenSeq(Append(w, x))) = Caseless(FlattenSeq(w)) \o Caseless(x)
<1>1. FlattenSeq(Append(w, x)) = FlattenSeq(w) \o x
  BY FlattenAppend
<1>2. FlattenSeq(w) \in Seq(Char)
  BY FlattenTyped
<1> HIDE DEF Caseless
<1> QED
  BY <1>1, <1>2, CaselessConcat

(* Parts that have the same letters and digits, pair by pair, have the     *)
(* same ones when they are joined.                                         *)
LEMMA CaselessFlatten ==
  ASSUME NEW u \in Seq(Seq(Char)), NEW v \in Seq(Seq(Char)), Len(u) = Len(v),
         \A k \in 1..Len(u) : Caseless(u[k]) = Caseless(v[k])
  PROVE  Caseless(FlattenSeq(u)) = Caseless(FlattenSeq(v))
<1> DEFINE Alike(n, x, y) == /\ Len(x) = n /\ Len(y) = n
                             /\ \A k \in 1..n : Caseless(x[k]) = Caseless(y[k])
           Same(x, y) == Caseless(FlattenSeq(x)) = Caseless(FlattenSeq(y))
           P == {n \in Nat : \A x \in Seq(Seq(Char)), y \in Seq(Seq(Char)) :
                               Alike(n, x, y) => Same(x, y)}
<1>1. 0 \in P
  <2>1. ASSUME NEW x \in Seq(Seq(Char)), NEW y \in Seq(Seq(Char)), Alike(0, x, y)
        PROVE  Same(x, y)
    <3>1. x = << >> /\ y = << >>
      BY <2>1, EmptySeq
    <3> QED
      BY <3>1
  <2> HIDE DEF Alike, Same
  <2> QED
    BY <2>1
<1>2. ASSUME NEW n \in P PROVE n + 1 \in P
  <2>1. ASSUME NEW x \in Seq(Seq(Char)), NEW y \in Seq(Seq(Char)), Alike(n + 1, x, y)
        PROVE  Same(x, y)
    <3>0. n \in Nat
      OBVIOUS
    <3>1. x # << >> /\ y # << >>
      BY <2>1, <3>0
    <3>2. PICK x0 \in Seq(Seq(Char)), c \in Seq(Char) : x = Append(x0, c)
      BY <3>1, SequenceEmptyOrAppend
    <3>3. PICK y0 \in Seq(Seq(Char)), d \in Seq(Char) : y = Append(y0, d)
      BY <3>1, SequenceEmptyOrAppend
    <3>4. /\ Len(x) = Len(x0) + 1 /\ Len(x0) \in Nat
          /\ \A k \in 1..Len(x0) : x[k] = x0[k]
          /\ x[Len(x0) + 1] = c
      BY <3>2, AppendProperties, LenProperties
    <3>5. /\ Len(y) = Len(y0) + 1 /\ Len(y0) \in Nat
          /\ \A k \in 1..Len(y0) : y[k] = y0[k]
          /\ y[Len(y0) + 1] = d
      BY <3>3, AppendProperties, LenProperties
    <3>6. Len(x0) = n /\ Len(y0) = n
      BY <2>1, <3>0, <3>4, <3>5
    <3>7. \A k \in 1..(n + 1) : Caseless(x[k]) = Caseless(y[k])
      BY <2>1
    <3>8. \A k \in 1..n : Caseless(x0[k]) = Caseless(y0[k])
      BY <3>0, <3>4, <3>5, <3>6, <3>7
    <3>9. Caseless(c) = Caseless(d)
      <4>1. n + 1 \in 1..(n + 1)
        BY <3>0
      <4> QED
        BY <3>4, <3>5, <3>6, <3>7, <4>1
    <3>10. Caseless(FlattenSeq(x0)) = Caseless(FlattenSeq(y0))
      <4>1. Alike(n, x0, y0)
        BY <3>6, <3>8
      <4> HIDE DEF Alike
      <4> QED
        BY <4>1
    <3>11. /\ Caseless(FlattenSeq(x)) = Caseless(FlattenSeq(x0)) \o Caseless(c)
           /\ Caseless(FlattenSeq(y)) = Caseless(FlattenSeq(y0)) \o Caseless(d)
      BY <3>2, <3>3, CaselessAppend
    <3> QED
      BY <3>9, <3>10, <3>11
  <2> HIDE DEF Alike, Same
  <2> QED
    BY <2>1
<1>3. \A n \in Nat : n \in P
  <2>1. P \in SUBSET Nat
    OBVIOUS
  <2> HIDE DEF P
  <2> QED
    BY <1>1, <1>2, <2>1, InductionOnSet
<1>4. Len(u) \in Nat /\ Alike(Len(u), u, v)
  BY LenProperties
<1> HIDE DEF Alike, Same
<1> QED
  <2>1. Same(u, v)
    BY <1>3, <1>4
  <2> QED
    BY <2>1 DEF Same
-----------------------------------------------------------------------------
(* A style that separates words with characters that are no part of them.  *)
KnownStyle(st) ==
  /\ st \in TypeNameStyle
  /\ \A i \in 1..Len(st.word_delimiter) : st.word_delimiter[i] \in Separator

(* What the styles are built from.                                         *)
LEMMA PlainIsKnown ==
  ASSUME NEW c \in {"Original", "UpperCamelCase", "LowerCamelCase",
                    "LowerCase", "UpperCase"},
         NEW d \in {<< >>, <<underscore>>}
  PROVE  KnownStyle(Plain(c, d))
<1>1. underscore \in Separator /\ underscore \in Char
  BY DEF Separator, Char
<1>2. << >> \in Seq(Char) /\ <<underscore>> \in Seq(Char)
  BY <1>1
<1>3. \A i \in 1..Len(d) : d[i] \in Separator
  BY <1>1
<1>4. d \in Seq(Char)
  BY <1>2
<1> QED
  BY <1>2, <1>3, <1>4 DEF Plain, KnownStyle, TypeNameStyle

(* An affix or another capitalization makes another style of a known one.  *)
LEMMA ChangedIsKnown ==
  ASSUME NEW st, KnownStyle(st), NEW t \in Seq(Char)
  PROVE  /\ KnownStyle([st EXCEPT !.prefix = t])
         /\ KnownStyle([st EXCEPT !.suffix = t])
         /\ KnownStyle([st EXCEPT !.capitalization = "UpperCase"])
BY DEF KnownStyle, TypeNameStyle

(* The styles of the registry are styles.                                  *)
LEMMA StylesAreKnown ==
  ASSUME NEW styles \in DOMAIN NameStyles, NEW kind \in Kinds
  PROVE  KnownStyle(NameStyles[styles][kind])
<1>1. kind \in Field
  BY KindsAssumption
<1>2. /\ << >> \in {<< >>, <<underscore>>} /\ <<underscore>> \in {<< >>, <<underscore>>}
  OBVIOUS
<1>3. lower \in Char /\ other \in Char /\ underscore \in Char
  BY DEF Char, Alnum, Letter, Separator
<1>4. FileSuffix(kind) \in Seq(Char)
  BY <1>3 DEF FileSuffix
<1>5. /\ <<lower, lower, lower>> \in Seq(Char) /\ <<lower, lower>> \in Seq(Char)
      /\ <<other, lower>> \in Seq(Char)
  BY <1>3
<1>6. KnownStyle(Boost[kind])
  <2> DEFINE plain == Plain("LowerCase", <<underscore>>)
             common == [plain EXCEPT !.suffix = FileSuffix(kind)]
             guard == Plain("UpperCase", << >>)
  <2>1. KnownStyle(plain) /\ KnownStyle(guard)
    BY <1>2, PlainIsKnown
  <2> HIDE DEF plain, guard
  <2>2. KnownStyle(common)
    BY <1>4, <2>1, ChangedIsKnown
  <2> HIDE DEF common
  <2>3. KnownStyle([common EXCEPT !.capitalization = "UpperCase"])
    BY <1>4, <2>2, ChangedIsKnown
  <2>4. Boost[kind] = IF kind = "macro"
                      THEN [common EXCEPT !.capitalization = "UpperCase"]
                      ELSE IF kind = "include_guard" THEN guard ELSE common
    BY <1>1 DEF Boost, common, plain, guard
  <2> QED
    BY <2>1, <2>2, <2>3, <2>4
<1>7. KnownStyle(Llvm[kind])
  <2> DEFINE common == Plain("UpperCamelCase", << >>)
             func == Plain("LowerCamelCase", << >>)
             space == Plain("LowerCase", <<underscore>>)
             macro == Plain("UpperCase", << >>)
  <2>1. KnownStyle(common) /\ KnownStyle(func) /\ KnownStyle(space) /\ KnownStyle(macro)
    BY <1>2, PlainIsKnown
  <2>2. Llvm[kind] \in {func, [func EXCEPT !.prefix = <<lower, lower, lower>>],
                        [func EXCEPT !.prefix = <<lower, lower>>], space, macro,
                        [common EXCEPT !.suffix = <<other, lower>>],
                        [common EXCEPT !.suffix = FileSuffix(kind)]}
    BY <1>1 DEF Llvm, common, func, space, macro
  <2> HIDE DEF common, func, space, macro
  <2>3. /\ KnownStyle([func EXCEPT !.prefix = <<lower, lower, lower>>])
        /\ KnownStyle([func EXCEPT !.prefix = <<lower, lower>>])
        /\ KnownStyle([common EXCEPT !.suffix = <<other, lower>>])
        /\ KnownStyle([common EXCEPT !.suffix = FileSuffix(kind)])
    BY <1>4, <1>5, <2>1, ChangedIsKnown
  <2> QED
    BY <2>1, <2>2, <2>3
<1>8. NameStyles[styles] \in {Boost, Llvm}
  BY DEF NameStyles
<1> QED
  BY <1>6, <1>7, <1>8
-----------------------------------------------------------------------------
(* The pieces that are joined between prefix and suffix.                   *)
Pieces(words, st) ==
  [n \in DOMAIN words |->
     (IF n = 1 THEN << >> ELSE st.word_delimiter)
       \o ConvertPart(words[n], n, st.capitalization)]

(* A text that is joined has the letters and digits of its words: the      *)
(* delimiters that are put between them have none.                         *)
LEMMA JoinKeeps ==
  ASSUME NEW words \in Seq(Seq(Char)), NEW st, KnownStyle(st)
  PROVE  /\ JoinIdentifier(words, st) \in Seq(Char)
         /\ ~HasAffix(st) => Caseless(JoinIdentifier(words, st))
                               = Caseless(FlattenSeq(words))
<1> DEFINE d == st.word_delimiter
           w == Pieces(words, st)
           joined == FlattenSeq(w)
<1>1. /\ st.prefix \in Seq(Char) /\ st.suffix \in Seq(Char) /\ d \in Seq(Char)
      /\ \A i \in 1..Len(d) : d[i] \in Separator
  BY DEF KnownStyle, TypeNameStyle
<1>2. JoinIdentifier(words, st) = st.prefix \o joined \o st.suffix
  BY DEF JoinIdentifier, Pieces
<1>3. /\ DOMAIN words = 1..Len(words) /\ Len(words) \in Nat
      /\ \A n \in 1..Len(words) : words[n] \in Seq(Char)
  BY LenProperties, ElementOfSeq
<1>4. Caseless(d) = << >> /\ Caseless(<< >>) = << >>
  <2>1. Alnums(d) = << >> /\ Alnums(<< >>) = << >>
    BY <1>1, AlnumsOfOneKind, AlnumsEmpty
  <2>2. Lower(<< >>) = << >>
    BY DEF Lower
  <2> QED
    BY <2>1, <2>2 DEF Caseless
<1>5. ASSUME NEW n \in 1..Len(words)
      PROVE  w[n] \in Seq(Char) /\ Caseless(w[n]) = Caseless(words[n])
  <2> DEFINE x == IF n = 1 THEN << >> ELSE d
             y == ConvertPart(words[n], n, st.capitalization)
  <2>1. x \in Seq(Char) /\ Caseless(x) = << >>
    <3>1. << >> \in Seq(Char)
      OBVIOUS
    <3> QED
      BY <1>1, <1>4, <3>1
  <2>2. y \in Seq(Char) /\ Lower(y) = Lower(words[n])
    BY <1>3, ConvertIs
  <2>3. w[n] = x \o y
    BY <1>3 DEF Pieces
  <2> HIDE DEF x, y, w
  <2>4. Caseless(y) = Caseless(words[n])
    BY <1>3, <2>2, CaselessOfLower
  <2>5. Caseless(w[n]) = << >> \o Caseless(y)
    BY <2>1, <2>2, <2>3, CaselessConcat
  <2>6. Caseless(y) \in Seq(Char)
    BY <2>2, CaselessTyped
  <2>7. << >> \o Caseless(y) = Caseless(y)
    BY <2>6, ConcatEmptySeq
  <2>8. w[n] \in Seq(Char)
    BY <2>1, <2>2, <2>3, ConcatProperties
  <2> QED
    BY <2>4, <2>5, <2>7, <2>8
<1>6. w \in Seq(Seq(Char)) /\ Len(w) = Len(words)
  <2>1. w = [n \in 1..Len(words) |-> w[n]]
    BY <1>3 DEF Pieces
  <2> HIDE DEF w
  <2> QED
    BY <1>3, <1>5, <2>1, IsASeq
<1> HIDE DEF d, w
<1>7. joined \in Seq(Char) /\ Caseless(joined) = Caseless(FlattenSeq(words))
  BY <1>5, <1>6, FlattenTyped, CaselessFlatten
<1> HIDE DEF joined
<1>8. st.prefix \o joined \o st.suffix \in Seq(Char)
  <2>1. st.prefix \o joined \in Seq(Char)
    BY <1>1, <1>7, ConcatProperties
  <2> QED
    BY <1>1, <2>1, ConcatProperties
<1>9. ASSUME ~HasAffix(st) PROVE st.prefix \o joined \o st.suffix = joined
  <2>1. st.prefix = << >> /\ st.suffix = << >>
    BY <1>9 DEF HasAffix
  <2> QED
    BY <1>7, <2>1, ConcatEmptySeq
<1> QED
  BY <1>2, <1>7, <1>8, <1>9
-----------------------------------------------------------------------------
(* What every reachable state satisfies.  The style of a name is a known   *)
(* one, the parts are always those of the name, and the name has the       *)
(* letters and digits of what was typed as long as no affix was put on.    *)
NameInv ==
  /\ id \in Seq(Char) /\ name \in Seq(Char)
  /\ KnownStyle(style)
  /\ split = SplitIdentifier(name)
  /\ ~HasAffix(style) => Caseless(name) = Caseless(id)

(* What is typed is in a style with no affix.                             *)
LEMMA TypedHasNoAffix == KnownStyle(Typed) /\ ~HasAffix(Typed)
<1>1. KnownStyle(Typed)
  BY PlainIsKnown DEF Typed
<1>2. ~HasAffix(Typed)
  BY DEF Typed, Plain, HasAffix
<1> QED
  BY <1>1, <1>2

(* A name nobody has typed anything of yet.                                *)
LEMMA InitName == Init => NameInv
<1> SUFFICES ASSUME Init PROVE NameInv
  OBVIOUS
<1>1. << >> \in Seq(Char)
  OBVIOUS
<1> QED
  BY <1>1, TypedHasNoAffix DEF Init, NameInv

(* Typing puts in a new name, and a conversion keeps letters and digits.      *)
LEMMA NextName == NameInv /\ [Next]_vars => NameInv'
<1> SUFFICES ASSUME NameInv, [Next]_vars PROVE NameInv'
  OBVIOUS
<1> USE DEF NameInv
<1>1. ASSUME NEW c \in Char, Type(c) PROVE NameInv'
  <2>1. Append(id, c) \in Seq(Char)
    BY AppendProperties
  <2> QED
    BY <1>1, <2>1, TypedHasNoAffix DEF Type
<1>2. ASSUME NEW styles \in DOMAIN NameStyles, NEW kind \in Kinds,
             Convert(styles, kind)
      PROVE  NameInv'
  <2> DEFINE words == split.parts
  <2>1. /\ ~HasAffix(style) /\ style' = NameStyles[styles][kind]
        /\ name' = JoinIdentifier(words, style')
        /\ split' = SplitIdentifier(name') /\ id' = id
    BY <1>2 DEF Convert
  <2>2. KnownStyle(style')
    BY <2>1, StylesAreKnown
  <2>3. /\ words \in Seq(Seq(Char))
        /\ Alnums(FlattenSeq(words)) = Alnums(name)
    <3>1. split \in [ok : BOOLEAN, parts : Seq(Seq(Char) \ {<< >>})]
      BY PartsAre
    <3>2. words \in Seq(Seq(Char) \ {<< >>})
      BY <3>1
    <3>3. words \in Seq(Seq(Char))
      BY <3>2, SeqMonotonic
    <3> QED
      BY <3>3, PartsAre
  <2> HIDE DEF words
  <2>4. /\ name' \in Seq(Char)
        /\ ~HasAffix(style') => Caseless(name') = Caseless(FlattenSeq(words))
    BY <2>1, <2>2, <2>3, JoinKeeps
  <2>5. Caseless(FlattenSeq(words)) = Caseless(name)
    BY <2>3 DEF Caseless
  <2>6. ~HasAffix(style') => Caseless(name') = Caseless(id')
    BY <2>1, <2>4, <2>5
  <2> QED
    BY <2>1, <2>2, <2>4, <2>6
<1>3. CASE UNCHANGED vars
  BY <1>3 DEF vars
<1> QED
  BY <1>1, <1>2, <1>3 DEF Next
-----------------------------------------------------------------------------
(* More of a text has more letters and digits, if there is one in what is  *)
(* added.                                                                  *)
LEMMA CountGrows ==
  ASSUME NEW s \in Seq(Char), NEW x \in 0..Len(s), NEW y \in x..Len(s),
         NEW i \in (x + 1)..y, s[i] \in Alnum
  PROVE  Len(Alnums(SubSeq(s, 1, x))) < Len(Alnums(SubSeq(s, 1, y)))
<1> DEFINE Upto(n) == Alnums(SubSeq(s, 1, n))
           l == SubSeq(s, i, i)
           t == Alnums(SubSeq(s, i + 1, y))
           m == Alnums(SubSeq(s, x + 1, i - 1))
<1>0. Len(s) \in Nat /\ \A j \in 1..Len(s) : s[j] \in Char
  BY LenProperties, ElementOfSeq
<1>1. /\ i \in 1..Len(s) /\ i - 1 \in 0..Len(s) /\ i - 1 \in x..Len(s)
      /\ i \in (i - 1)..Len(s) /\ i \in 0..Len(s) /\ y \in i..Len(s)
      /\ i - 1 + 1 = i
  BY <1>0
<1>2. \A n \in 0..Len(s) : Upto(n) \in Seq(Alnum) /\ Len(Upto(n)) \in Nat
  <2>1. ASSUME NEW n \in 0..Len(s) PROVE Upto(n) \in Seq(Alnum)
    <3>1. \A j \in 1..n : s[j] \in Char
      BY <1>0
    <3>2. SubSeq(s, 1, n) \in Seq(Char)
      BY <3>1, SubSeqProperties
    <3> QED
      BY <3>2, AlnumsAppend, CharsDiffer
  <2> QED
    BY <2>1, LenProperties
<1>3. Upto(i - 1) = Upto(x) \o m
  BY <1>1, FrontGrows
<1>4. Upto(i) = Upto(i - 1) \o l
  <2>1. \A j \in i..i : s[j] \in Alnum
    OBVIOUS
  <2>2. \A j \in (i - 1 + 1)..i : s[j] \in Alnum
    BY <1>1, <2>1
  <2>3. Upto(i) = Upto(i - 1) \o SubSeq(s, i - 1 + 1, i)
    BY <1>1, <2>2, FrontGrows
  <2> QED
    BY <1>1, <2>3
<1>5. Upto(y) = Upto(i) \o t
  BY <1>1, FrontGrows
<1>6. m \in Seq(Alnum) /\ t \in Seq(Alnum)
  <2>1. /\ \A j \in (x + 1)..(i - 1) : s[j] \in Char
        /\ \A j \in (i + 1)..y : s[j] \in Char
    BY <1>0, <1>1
  <2>2. SubSeq(s, x + 1, i - 1) \in Seq(Char) /\ SubSeq(s, i + 1, y) \in Seq(Char)
    BY <1>1, <2>1, SubSeqProperties
  <2> QED
    BY <2>2, AlnumsAppend, CharsDiffer
<1>7. l \in Seq(Alnum) /\ Len(l) = 1
  <2>1. \A j \in i..i : s[j] \in Alnum
    OBVIOUS
  <2> QED
    BY <1>1, <2>1, SubSeqProperties
<1> HIDE DEF Upto, l, t, m
<1>8. /\ Len(Upto(i - 1)) = Len(Upto(x)) + Len(m)
      /\ Len(Upto(i)) = Len(Upto(i - 1)) + Len(l)
      /\ Len(Upto(y)) = Len(Upto(i)) + Len(t)
  <2>1. Len(Upto(x) \o m) = Len(Upto(x)) + Len(m)
    BY <1>2, <1>6, ConcatProperties
  <2>2. Len(Upto(i - 1) \o l) = Len(Upto(i - 1)) + Len(l)
    BY <1>1, <1>2, <1>7, ConcatProperties
  <2>3. Len(Upto(i) \o t) = Len(Upto(i)) + Len(t)
    BY <1>1, <1>2, <1>6, ConcatProperties
  <2> QED
    BY <1>3, <1>4, <1>5, <2>1, <2>2, <2>3
<1>9. Len(m) \in Nat /\ Len(t) \in Nat /\ Len(Upto(x)) \in Nat
  BY <1>2, <1>6, LenProperties
<1>10. Len(Upto(x)) < Len(Upto(y))
  BY <1>7, <1>8, <1>9
<1> QED
  BY <1>10 DEF Upto

(* What an identifier is laid out in: where its words begin and end.       *)
LEMMA LayoutFacts ==
  ASSUME NEW s \in Seq(Char), NEW words \in Seq(Seq(Alnum) \ {<< >>}),
         NEW b, NEW e, IsLayout(s, 1, words, b, e)
  PROVE  /\ \A k \in 1..Len(words) :
              /\ b[k] \in 1..Len(s) /\ e[k] \in 2..(Len(s) + 1) /\ b[k] < e[k]
              /\ WordShape(s, b[k], e[k])
         /\ \A k \in 1..Len(words) : \A j \in 1..(k - 1) : e[j] <= b[k]
         /\ \A i \in 1..Len(s) : s[i] \in Alnum =>
              \E k \in 1..Len(words) : i \in b[k]..(e[k] - 1)
<1>0. Len(s) \in Nat
  BY LenProperties
<1>1. SUFFICES ASSUME NEW k \in 1..Len(words)
               PROVE  /\ b[k] \in 1..Len(s) /\ e[k] \in 2..(Len(s) + 1) /\ b[k] < e[k]
                      /\ WordShape(s, b[k], e[k])
  BY DEF IsLayout
<1>2. /\ b[k] \in Nat /\ e[k] \in Nat /\ 1 <= b[k] /\ b[k] < e[k]
      /\ WordShape(s, b[k], e[k])
  BY DEF IsLayout
<1>3. e[k] \in b[k]..(Len(s) + 1)
  BY <1>2 DEF WordShape
<1> QED
  BY <1>0, <1>2, <1>3

(* A word of the layout begins between two letters or digits exactly where *)
(* whole words are in front of it.                                         *)
LEMMA StartsAt ==
  ASSUME NEW s \in Seq(Char), NEW words \in Seq(Seq(Alnum) \ {<< >>}),
         NEW b, NEW e, IsLayout(s, 1, words, b, e), NEW p \in 2..Len(s),
         s[p - 1] \in Alnum, s[p] \in Alnum, NEW k \in 1..Len(words)
  PROVE  Len(FlattenSeq(SubSeq(words, 1, k - 1))) = Len(Alnums(SubSeq(s, 1, p - 1)))
           <=> b[k] = p
<1> DEFINE x == LastOf(e, k - 1)
           Count(n) == Len(Alnums(SubSeq(s, 1, n)))
<1>0. Len(s) \in Nat /\ Len(words) \in Nat /\ k - 1 \in 0..Len(words) /\ k - 1 + 1 = k
      /\ k - 1 # Len(words)
  BY LenProperties
<1>1. x \in 0..Len(s) /\ Len(FlattenSeq(SubSeq(words, 1, k - 1))) = Count(x)
  BY <1>0, WordsOfFront
<1>2. b[k] \in 1..Len(s)
  BY LayoutFacts
<1>3. \A i \in (x + 1)..(b[k] - 1) : s[i] \in Separator
  <2> SUFFICES ASSUME NEW i \in (x + 1)..(b[k] - 1) PROVE s[i] \in Separator
    OBVIOUS
  <2> DEFINE h == k - 1
             last == IF h = Len(words) THEN Len(s) ELSE b[h + 1] - 1
  <2>1. h \in 0..Len(words) /\ last = b[k] - 1 /\ x = LastOf(e, h)
    BY <1>0
  <2>2. i \in (LastOf(e, h) + 1)..last
    BY <2>1
  <2> HIDE DEF h
  <2> QED
    BY <2>1, <2>2, GapIs
<1>4. k - 1 # 0 => x + 1 <= b[k]
  <2> SUFFICES ASSUME k - 1 # 0 PROVE x + 1 <= b[k]
    OBVIOUS
  <2>1. k - 1 \in 1..Len(words) /\ k - 1 \in 1..(k - 1)
    BY <1>0
  <2>2. e[k - 1] <= b[k] /\ e[k - 1] \in 2..(Len(s) + 1)
    BY <2>1, LayoutFacts
  <2> QED
    BY <1>0, <2>2 DEF LastOf
<1>5. x + 1 <= b[k]
  <2>1. CASE k - 1 = 0
    BY <1>2, <2>1 DEF LastOf
  <2> QED
    BY <1>4, <2>1
<1> HIDE DEF x
<1>6. Alnum \cap Separator = {}
  BY CharsDiffer
<1>7. p \in Nat /\ p - 1 \in 1..Len(s) /\ p \in 1..Len(s)
  BY <1>0
<1>8. ASSUME b[k] = p PROVE Count(x) = Count(p - 1)
  <2>1. p - 1 \in x..Len(s)
    BY <1>0, <1>1, <1>5, <1>7, <1>8
  <2>2. Alnums(SubSeq(s, 1, p - 1)) = Alnums(SubSeq(s, 1, x))
    BY <1>1, <1>3, <1>8, <2>1, FrontGrows
  <2> QED
    BY <2>2
<1>9. ASSUME Count(x) = Count(p - 1) PROVE b[k] = p
  <2>0. /\ Count(x) \in Nat /\ Count(p - 1) \in Nat
    <3>1. /\ \A i \in 1..x : s[i] \in Char
          /\ \A i \in 1..(p - 1) : s[i] \in Char
      BY <1>0, <1>1, <1>7, ElementOfSeq
    <3>2. SubSeq(s, 1, x) \in Seq(Char) /\ SubSeq(s, 1, p - 1) \in Seq(Char)
      BY <1>1, <1>7, <3>1, SubSeqProperties
    <3> QED
      BY <3>2, AlnumsAppend, CharsDiffer, LenProperties
  <2>1. ~(x < p - 1)
    <3> SUFFICES ASSUME x < p - 1 PROVE FALSE
      OBVIOUS
    <3>1. p - 1 \in x..Len(s) /\ p - 1 \in (x + 1)..(p - 1)
      BY <1>0, <1>1, <1>7
    <3>2. Count(x) < Count(p - 1)
      BY <1>1, <3>1, CountGrows
    <3> HIDE DEF Count
    <3> QED
      BY <1>9, <2>0, <3>2
  <2>2. ~(x > p - 1)
    <3> SUFFICES ASSUME x > p - 1 PROVE FALSE
      OBVIOUS
    <3> DEFINE q == p - 1
    <3>1. q \in 0..Len(s) /\ x \in q..Len(s) /\ p \in (q + 1)..x
      BY <1>0, <1>1, <1>7
    <3> HIDE DEF q
    <3>2. Count(q) < Count(x)
      BY <3>1, CountGrows
    <3>3. Count(p - 1) < Count(x)
      BY <3>2 DEF q
    <3> HIDE DEF Count
    <3> QED
      BY <1>9, <2>0, <3>3
  <2>3. x = p - 1
    BY <1>1, <1>7, <2>1, <2>2
  <2>4. ~(p <= b[k] - 1)
    <3> SUFFICES ASSUME p <= b[k] - 1 PROVE FALSE
      OBVIOUS
    <3>1. p \in (x + 1)..(b[k] - 1)
      BY <1>2, <1>7, <2>3
    <3> QED
      BY <1>3, <1>6, <3>1
  <2> QED
    BY <1>2, <1>5, <1>7, <2>3, <2>4
<1> QED
  BY <1>1, <1>8, <1>9

(* Where a word begins between two letters or digits: at a boundary, if    *)
(* both are letters, and never at a digit.                                 *)
LEMMA BeginsAtBoundary ==
  ASSUME NEW s \in Seq(Char), NEW words \in Seq(Seq(Alnum) \ {<< >>}),
         NEW b, NEW e, IsLayout(s, 1, words, b, e), NEW p \in 2..Len(s),
         s[p - 1] \in Alnum, s[p] \in Alnum
  PROVE  /\ (\E k \in 1..Len(words) : b[k] = p) =>
              s[p] # digit /\ (s[p - 1] \in Letter => Boundary(s, p))
         /\ s[p - 1] \in Letter /\ Boundary(s, p) =>
              \E k \in 1..Len(words) : b[k] = p
<1>0. /\ Len(s) \in Nat /\ Len(words) \in Nat /\ p \in Nat
      /\ p - 1 \in 1..Len(s) /\ p \in 1..Len(s)
  BY LenProperties
<1>1. /\ \A k \in 1..Len(words) :
           /\ b[k] \in 1..Len(s) /\ e[k] \in 2..(Len(s) + 1) /\ b[k] < e[k]
           /\ WordShape(s, b[k], e[k])
      /\ \A k \in 1..Len(words) : \A j \in 1..(k - 1) : e[j] <= b[k]
      /\ \A i \in 1..Len(s) : s[i] \in Alnum =>
           \E k \in 1..Len(words) : i \in b[k]..(e[k] - 1)
  BY LayoutFacts
<1>2. ASSUME NEW k \in 1..Len(words), b[k] = p
      PROVE  s[p] # digit /\ (s[p - 1] \in Letter => Boundary(s, p))
  <2>1. PICK j \in 1..Len(words) : p - 1 \in b[j]..(e[j] - 1)
    BY <1>0, <1>1
  <2>2. /\ b[j] \in 1..Len(s) /\ e[j] \in 2..(Len(s) + 1)
        /\ e[k] \in 2..(Len(s) + 1) /\ b[k] < e[k]
        /\ WordShape(s, b[j], e[j])
    BY <1>1
  <2>3. b[j] <= p - 1 /\ p <= e[j]
    BY <1>0, <2>1, <2>2
  <2>4. ~(k < j)
    <3> SUFFICES ASSUME k < j PROVE FALSE
      OBVIOUS
    <3>1. k \in 1..(j - 1)
      OBVIOUS
    <3>2. e[k] <= b[j]
      BY <1>1, <3>1
    <3> QED
      BY <1>0, <1>2, <2>2, <2>3, <3>2
  <2>5. k # j
    BY <1>0, <1>2, <2>3
  <2>6. j \in 1..(k - 1)
    BY <2>4, <2>5
  <2>7. e[j] <= p
    BY <1>1, <1>2, <2>6
  <2>8. e[j] = p /\ e[j] > b[j] /\ e[j] <= Len(s)
    BY <1>0, <2>2, <2>3, <2>7
  <2> QED
    BY <2>2, <2>8 DEF WordShape
<1>3. ASSUME s[p - 1] \in Letter, Boundary(s, p)
      PROVE  \E k \in 1..Len(words) : b[k] = p
  <2>1. PICK j \in 1..Len(words) : p \in b[j]..(e[j] - 1)
    BY <1>0, <1>1
  <2>2. /\ b[j] \in 1..Len(s) /\ e[j] \in 2..(Len(s) + 1)
        /\ WordShape(s, b[j], e[j])
    BY <1>1
  <2>3. ~(p \in (b[j] + 1)..(e[j] - 1))
    BY <1>3, <2>2 DEF WordShape
  <2>4. b[j] = p
    BY <1>0, <2>1, <2>2, <2>3
  <2> QED
    BY <2>4
<1> QED
  BY <1>2, <1>3

(* The words of a name that has one.                                       *)
LEMMA LayoutOfName ==
  ASSUME NEW s \in Seq(Char), Len(s) >= 2, HasWord(s)
  PROVE  /\ SplitIdentifier(s).parts \in Seq(Seq(Alnum) \ {<< >>})
         /\ \E b, e : IsLayout(s, 1, SplitIdentifier(s).parts, b, e)
BY SplitIs DEF Layout

(* The invariant has the words of every name begin where they should.      *)
LEMMA BoundariesOfName == NameInv => WordBoundaries
<1> SUFFICES ASSUME NameInv, NEW p \in 2..Len(name),
                    name[p - 1] \in Alnum, name[p] \in Alnum
             PROVE  /\ name[p - 1] \in Letter /\ name[p] \in Letter =>
                         (StartsWord(p) <=>
                            /\ name[p] = upper
                            /\ name[p - 1] = lower \/ CharAt(name, p + 1) = lower)
                    /\ name[p] = digit => ~StartsWord(p)
  BY DEF WordBoundaries
<1> DEFINE words == split.parts
<1>1. name \in Seq(Char) /\ split = SplitIdentifier(name)
  BY DEF NameInv
<1>2. Len(name) \in Nat /\ p \in 1..Len(name)
  BY <1>1, LenProperties
<1>3. HasWord(name)
  BY <1>1, <1>2, HasWordIs
<1>4. Len(name) >= 2
  <2> DEFINE n == Len(name)
  <2>1. n \in Nat /\ p \in 2..n
    BY <1>2
  <2> HIDE DEF n
  <2>2. n >= 2
    BY <2>1
  <2> QED
    BY <2>2 DEF n
<1>5. words \in Seq(Seq(Alnum) \ {<< >>}) /\ \E b, e : IsLayout(name, 1, words, b, e)
  BY <1>1, <1>3, <1>4, LayoutOfName
<1>6. PICK b, e : IsLayout(name, 1, words, b, e)
  BY <1>5
<1> HIDE DEF words
<1>7. StartsWord(p) <=> \E k \in 1..Len(words) : b[k] = p
  <2>1. DOMAIN words = 1..Len(words)
    BY <1>5, LenProperties
  <2>2. \A k \in 1..Len(words) :
          Len(FlattenSeq(SubSeq(words, 1, k - 1))) = Len(Alnums(SubSeq(name, 1, p - 1)))
            <=> b[k] = p
    BY <1>1, <1>5, <1>6, StartsAt
  <2> QED
    BY <2>1, <2>2 DEF StartsWord, words
<1>8. /\ (\E k \in 1..Len(words) : b[k] = p) =>
            name[p] # digit /\ (name[p - 1] \in Letter => Boundary(name, p))
      /\ name[p - 1] \in Letter /\ Boundary(name, p) =>
            \E k \in 1..Len(words) : b[k] = p
  BY <1>1, <1>5, <1>6, BeginsAtBoundary
<1> QED
  BY <1>7, <1>8 DEF Boundary

(* Every name has a splitting that is in the state, whatever was typed and *)
(* however often it was converted.                                         *)
THEOREM NamesAreLegal == Spec => []NameInv
<1>1. NameInv /\ [Next]_vars => NameInv'
  BY NextName
<1> QED
  BY InitName, <1>1, PTL DEF Spec

(* Every text that is typed or joined is a text of characters, its parts   *)
(* are texts that are not empty, and its style is a TypeNameStyle          *)
(* (splitIdentifer, joinIdentifier, getNameStyle).                         *)
THEOREM NamesAreTyped == Spec => []TypeOK
<1>1. NameInv => TypeOK
  BY PartsAre DEF NameInv, TypeOK, KnownStyle
<1> QED
  BY NamesAreLegal, <1>1, PTL

(* Splitting an identifier of any length loses and invents no letter and   *)
(* no digit: one that has any always parses, and its words hold them in    *)
(* their order (splitIdentifer with general_id_seperator).                 *)
THEOREM NothingIsLost == Spec => []PartsCover
<1>1. NameInv => PartsCover
  <2> SUFFICES ASSUME NameInv, HasWord(name)
               PROVE  /\ split.ok
                      /\ FlattenSeq(split.parts) = Alnums(name)
                      /\ \A k \in DOMAIN split.parts : split.parts[k] # << >>
    BY DEF PartsCover
  <2>1. name \in Seq(Char) /\ split = SplitIdentifier(name)
    BY DEF NameInv
  <2>2. /\ split \in [ok : BOOLEAN, parts : Seq(Seq(Char) \ {<< >>})]
        /\ split.ok /\ FlattenSeq(split.parts) = Alnums(name)
    BY <2>1, PartsAre
  <2>3. split.parts \in Seq(Seq(Char) \ {<< >>})
    BY <2>2
  <2>4. \A k \in DOMAIN split.parts : split.parts[k] \in Seq(Char) \ {<< >>}
    BY <2>3, LenProperties, ElementOfSeq
  <2> QED
    BY <2>2, <2>4
<1> QED
  BY NamesAreLegal, <1>1, PTL

(* In a name of any length a word begins between two letters exactly at a  *)
(* capital behind a small letter and at the last capital of an acronym,    *)
(* and never at a digit (gid and its three alternatives).                  *)
THEOREM WordsBeginAtCapitals == Spec => []WordBoundaries
BY NamesAreLegal, BoundariesOfName, PTL

(* However often a name of any length is put into another style of the     *)
(* registry, it keeps its letters and digits but for case (splitIdentifer, *)
(* joinIdentifier, getNameStyle).                                          *)
THEOREM LettersAreKept == Spec => []ConversionKeepsLetters
<1>1. NameInv => ConversionKeepsLetters
  BY DEF NameInv, ConversionKeepsLetters
<1> QED
  BY NamesAreLegal, <1>1, PTL
=============================================================================
