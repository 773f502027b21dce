--------------------------- MODULE DataInduction ---------------------------
(***************************************************************************)
(* What the proofs need induction for: the least and the greatest element  *)
(* of a set of natural numbers (a claim that failed somewhere would fail   *)
(* at a first or at a last place), sequences of sequences that are put one *)
(* behind the other, sequences with elements left out, recursions over      *)
(* numbers, and unions of finite sets.                                     *)
(***************************************************************************)
EXTENDS Integers, Subsequence, SequenceTheorems, FiniteSetTheorems,
        WellFoundedInduction, TLAPS

(* A set of natural numbers that is not empty has a least element.         *)
LEMMA LeastExists ==
  ASSUME NEW S \in SUBSET Nat, S # {}
  PROVE  \E n \in S : \A m \in S : n <= m
<1>1. PICK n \in S : \A m \in S : <<m, n>> \notin OpToRel(<, Nat)
  BY NatLessThanWellFounded, WFMin
<1>2. \A m \in S : ~(m < n)
  BY <1>1 DEF OpToRel
<1> QED
  BY <1>2

(* One with an upper bound has a greatest one.                             *)
LEMMA GreatestExists ==
  ASSUME NEW S \in SUBSET Nat, S # {}, NEW bound \in Nat,
         \A m \in S : m <= bound
  PROVE  \E n \in S : \A m \in S : n >= m
<1> DEFINE T == {bound - m : m \in S}
<1>1. T \in SUBSET Nat /\ T # {}
  <2>1. \A m \in S : bound - m \in Nat
    OBVIOUS
  <2> QED
    BY <2>1
<1>2. PICK d \in T : \A e \in T : d <= e
  BY <1>1, LeastExists
<1>3. PICK n \in S : d = bound - n
  OBVIOUS
<1>4. \A m \in S : bound - n <= bound - m
  BY <1>2, <1>3
<1> QED
  BY <1>4

(* A set that has 0 in it, and with a number the next one, has all.        *)
LEMMA InductionOnSet ==
  ASSUME NEW P \in SUBSET Nat, 0 \in P, \A n \in P : n + 1 \in P
  PROVE  \A n \in Nat : n \in P
<1> SUFFICES ASSUME Nat \ P # {} PROVE FALSE
  OBVIOUS
<1>1. PICK n \in Nat \ P : \A m \in Nat \ P : n <= m
  BY LeastExists
<1>2. n # 0 /\ n - 1 \in Nat /\ ~(n <= n - 1)
  BY <1>1
<1>3. n - 1 \in P /\ (n - 1) + 1 = n
  BY <1>1, <1>2
<1> QED
  BY <1>1, <1>3
-----------------------------------------------------------------------------
(* FlattenSeq goes from left to right: the recursive function it uses.     *)
IsFlat(w, f) ==
  f = [i \in 1..Len(w) |-> IF i = 1 THEN w[i] ELSE f[i - 1] \o w[i]]

Flat(w) == CHOOSE f : IsFlat(w, f)

(* Its equations can be solved for every sequence.                         *)
LEMMA FlatExists ==
  ASSUME NEW S, NEW w \in Seq(S)
  PROVE  IsFlat(w, Flat(w))
<1>0. Len(w) \in Nat
  BY LenProperties
<1> DEFINE Solves(n, f) ==
             f = [i \in 1..n |-> IF i = 1 THEN w[i] ELSE f[i - 1] \o w[i]]
           Bad == {n \in Nat : \A f : ~Solves(n, f)}
<1>1. Bad = {}
  <2> SUFFICES ASSUME Bad # {} PROVE FALSE
    OBVIOUS
  <2>1. PICK n \in Bad : \A m \in Bad : n <= m
    <3>1. Bad \in SUBSET Nat
      OBVIOUS
    <3> HIDE DEF Bad
    <3> QED
      BY <3>1, LeastExists
  <2>2. n # 0
    <3>1. Solves(0, [i \in 1..0 |-> i])
      <4>1. 1..0 = {}
        OBVIOUS
      <4> QED
        BY <4>1
    <3> QED
      BY <3>1
  <2>3. PICK g : g = [i \in 1..(n - 1) |-> IF i = 1 THEN w[i] ELSE g[i - 1] \o w[i]]
    <3>1. n - 1 \in Nat /\ ~(n <= n - 1)
      BY <2>2
    <3>2. n - 1 \notin Bad
      BY <2>1, <3>1
    <3> QED
      BY <3>1, <3>2
  <2> DEFINE f == [i \in 1..n |-> IF i = n THEN IF n = 1 THEN w[n]
                                                ELSE g[n - 1] \o w[n]
                                  ELSE g[i]]
  <2>4. ASSUME NEW i \in 1..n
        PROVE  f[i] = IF i = 1 THEN w[i] ELSE f[i - 1] \o w[i]
    <3>1. CASE i = n
      <4>1. n # 1 => n - 1 \in 1..n /\ n - 1 # n
        BY <2>2
      <4> QED
        BY <3>1, <4>1
    <3>2. CASE i # n
      <4>1. i \in 1..(n - 1)
        BY <3>2
      <4>2. g[i] = IF i = 1 THEN w[i] ELSE g[i - 1] \o w[i]
        BY <2>3, <4>1
      <4>3. i # 1 => i - 1 \in 1..n /\ i - 1 # n
        BY <4>1
      <4> QED
        BY <3>2, <4>2, <4>3
    <3> QED
      BY <3>1, <3>2
  <2>5. Solves(n, f)
    BY <2>4
  <2> QED
    BY <2>1, <2>5
<1>2. \E f : IsFlat(w, f)
  <2>1. \E f : Solves(Len(w), f)
    <3> HIDE DEF Solves
    <3> QED
      BY <1>0, <1>1
  <2> QED
    BY <2>1 DEF IsFlat
<1> QED
  BY <1>2 DEF Flat

(* That is what FlattenSeq computes.                                       *)
LEMMA FlattenIsFlat ==
  ASSUME NEW w
  PROVE  FlattenSeq(w) = IF Len(w) = 0 THEN w ELSE Flat(w)[Len(w)]
BY DEF FlattenSeq, Flat, IsFlat

(* One element after the other is put behind what there is.                *)
LEMMA FlattenAppend ==
  ASSUME NEW S, NEW w \in Seq(Seq(S)), NEW x \in Seq(S)
  PROVE  FlattenSeq(Append(w, x)) = FlattenSeq(w) \o x
<1> DEFINE v == Append(w, x)
           n == Len(w)
<1>1. /\ v \in Seq(Seq(S)) /\ Len(v) = n + 1 /\ v[n + 1] = x
      /\ \A i \in 1..n : v[i] = w[i]
      /\ n \in Nat
  BY AppendProperties, LenProperties
<1>2. /\ \A i \in 1..n : Flat(w)[i] = IF i = 1 THEN w[i] ELSE Flat(w)[i - 1] \o w[i]
      /\ \A i \in 1..(n + 1) : Flat(v)[i] = IF i = 1 THEN v[i] ELSE Flat(v)[i - 1] \o v[i]
  <2> HIDE DEF v
  <2>1. IsFlat(w, Flat(w)) /\ IsFlat(v, Flat(v))
    BY <1>1, FlatExists
  <2> QED
    BY <1>1, <2>1 DEF IsFlat
<1>3. FlattenSeq(v) = Flat(v)[n + 1]
  <2>1. Len(v) # 0
    BY <1>1
  <2> QED
    BY <1>1, <2>1, FlattenIsFlat
<1>4. n = 0 => w = << >>
  BY EmptySeq
<1>5. FlattenSeq(w) = IF n = 0 THEN << >> ELSE Flat(w)[n]
  BY <1>4, FlattenIsFlat
<1> HIDE DEF v, n
<1>6. CASE n = 0
  <2>1. FlattenSeq(v) = x
    BY <1>1, <1>2, <1>3, <1>6
  <2>2. << >> \o x = x
    BY ConcatEmptySeq
  <2> QED
    BY <1>5, <1>6, <2>1, <2>2 DEF v
<1>7. CASE n # 0
  <2> DEFINE Bad == {i \in 1..n : Flat(v)[i] # Flat(w)[i]}
  <2>1. Bad = {}
    <3> SUFFICES ASSUME Bad # {} PROVE FALSE
      OBVIOUS
    <3>1. PICK i \in Bad : \A m \in Bad : i <= m
      <4>1. Bad \in SUBSET Nat
        BY <1>1
      <4> HIDE DEF Bad
      <4> QED
        BY <4>1, LeastExists
    <3>2. i \in 1..n /\ i \in 1..(n + 1)
      BY <1>1
    <3>3. CASE i = 1
      BY <1>1, <1>2, <3>1, <3>2, <3>3
    <3>4. CASE i # 1
      <4>1. i - 1 \in 1..n /\ ~(i <= i - 1)
        BY <1>1, <3>2, <3>4
      <4>2. Flat(v)[i - 1] = Flat(w)[i - 1]
        BY <3>1, <4>1
      <4>3. Flat(v)[i] = Flat(v)[i - 1] \o v[i]
        BY <1>2, <3>2, <3>4
      <4>4. Flat(w)[i] = Flat(w)[i - 1] \o w[i]
        BY <1>2, <3>2, <3>4
      <4>5. v[i] = w[i]
        BY <1>1, <3>2
      <4>6. Flat(v)[i] = Flat(w)[i]
        BY <4>2, <4>3, <4>4, <4>5
      <4> QED
        BY <3>1, <4>6
    <3> QED
      BY <3>3, <3>4
  <2>2. n \in 1..n /\ n + 1 \in 1..(n + 1) /\ n + 1 # 1 /\ (n + 1) - 1 = n
    BY <1>1, <1>7
  <2>3. Flat(v)[n + 1] = Flat(v)[n] \o v[n + 1]
    BY <1>2, <2>2
  <2>4. Flat(v)[n] = Flat(w)[n]
    BY <2>1, <2>2
  <2> QED
    BY <1>1, <1>3, <1>5, <1>7, <2>3, <2>4 DEF v
<1> QED
  BY <1>6, <1>7

(* Nothing is flattened to nothing.                                        *)
LEMMA FlattenEmpty == FlattenSeq(<< >>) = << >>
BY FlattenIsFlat

(* What is flattened is made of the elements of the parts.                 *)
LEMMA FlattenTyped ==
  ASSUME NEW S, NEW w \in Seq(Seq(S))
  PROVE  FlattenSeq(w) \in Seq(S)
<1> DEFINE P == {n \in Nat : \A v \in Seq(Seq(S)) : Len(v) = n => FlattenSeq(v) \in Seq(S)}
<1>1. 0 \in P
  <2>1. ASSUME NEW v \in Seq(Seq(S)), Len(v) = 0 PROVE FlattenSeq(v) \in Seq(S)
    BY <2>1, EmptySeq, FlattenEmpty
  <2> QED
    BY <2>1
<1>2. ASSUME NEW n \in P PROVE n + 1 \in P
  <2>1. ASSUME NEW v \in Seq(Seq(S)), Len(v) = n + 1 PROVE FlattenSeq(v) \in Seq(S)
    <3>1. v # << >>
      BY <2>1
    <3>2. PICK u \in Seq(Seq(S)), x \in Seq(S) : v = Append(u, x)
      BY <3>1, SequenceEmptyOrAppend
    <3>3. Len(u) = n
      BY <2>1, <3>2, AppendProperties, LenProperties
    <3>4. FlattenSeq(u) \in Seq(S)
      BY <3>3
    <3>5. FlattenSeq(v) = FlattenSeq(u) \o x
      BY <3>2, FlattenAppend
    <3> QED
      BY <3>4, <3>5, ConcatProperties
  <2> QED
    BY <2>1
<1>3. \A n \in Nat : n \in P
  <2>1. P \in SUBSET Nat
    OBVIOUS
  <2> HIDE DEF P
  <2> QED
    BY <1>1, <1>2, <2>1, InductionOnSet
<1>4. Len(w) \in Nat
  BY LenProperties
<1> QED
  BY <1>3, <1>4

(* Two sequences of parts are flattened one behind the other.              *)
LEMMA FlattenConcat ==
  ASSUME NEW S, NEW u \in Seq(Seq(S)), NEW w \in Seq(Seq(S))
  PROVE  FlattenSeq(u \o w) = FlattenSeq(u) \o FlattenSeq(w)
<1> DEFINE Joins(v) == FlattenSeq(u \o v) = FlattenSeq(u) \o FlattenSeq(v)
           P == {n \in Nat : \A v \in Seq(Seq(S)) : Len(v) = n => Joins(v)}
<1>0. FlattenSeq(u) \in Seq(S)
  BY FlattenTyped
<1>1. 0 \in P
  <2>1. ASSUME NEW v \in Seq(Seq(S)), Len(v) = 0 PROVE Joins(v)
    <3>1. v = << >>
      BY <2>1, EmptySeq
    <3>2. u \o << >> = u /\ FlattenSeq(u) \o << >> = FlattenSeq(u)
      BY <1>0, ConcatEmptySeq
    <3> QED
      BY <3>1, <3>2, FlattenEmpty
  <2> QED
    BY <2>1
<1>2. ASSUME NEW n \in P PROVE n + 1 \in P
  <2>1. ASSUME NEW v \in Seq(Seq(S)), Len(v) = n + 1 PROVE Joins(v)
    <3>1. v # << >>
      BY <2>1
    <3>2. PICK t \in Seq(Seq(S)), x \in Seq(S) : v = Append(t, x)
      BY <3>1, SequenceEmptyOrAppend
    <3>3. Len(t) = n
      BY <2>1, <3>2, AppendProperties, LenProperties
    <3>4. FlattenSeq(u \o t) = FlattenSeq(u) \o FlattenSeq(t)
      BY <3>3
    <3>5. u \o v = Append(u \o t, x)
      <4>1. v = t \o <<x>>
        BY <3>2, AppendIsConcat
      <4>2. u \o (t \o <<x>>) = (u \o t) \o <<x>>
        BY ConcatAssociative
      <4>3. u \o t \in Seq(Seq(S))
        BY ConcatProperties
      <4>4. (u \o t) \o <<x>> = Append(u \o t, x)
        BY <4>3, AppendIsConcat
      <4> QED
        BY <4>1, <4>2, <4>4
    <3>6. u \o t \in Seq(Seq(S)) /\ FlattenSeq(t) \in Seq(S)
      BY ConcatProperties, FlattenTyped
    <3>7. FlattenSeq(u \o v) = FlattenSeq(u \o t) \o x
      BY <3>5, <3>6, FlattenAppend
    <3>8. FlattenSeq(v) = FlattenSeq(t) \o x
      BY <3>2, FlattenAppend
    <3>9. (FlattenSeq(u) \o FlattenSeq(t)) \o x = FlattenSeq(u) \o (FlattenSeq(t) \o x)
      BY <1>0, <3>6, ConcatAssociative
    <3> QED
      BY <3>4, <3>7, <3>8, <3>9
  <2> HIDE DEF Joins
  <2> QED
    BY <2>1
<1>3. \A n \in Nat : n \in P
  <2>1. P \in SUBSET Nat
    OBVIOUS
  <2> HIDE DEF P
  <2> QED
    BY <1>1, <1>2, <2>1, InductionOnSet
<1>4. Len(w) \in Nat
  BY LenProperties
<1> QED
  BY <1>3, <1>4

(* One part is flattened to itself.                                        *)
LEMMA FlattenOne ==
  ASSUME NEW S, NEW x \in Seq(S)
  PROVE  FlattenSeq(<<x>>) = x
<1>1. << >> \in Seq(Seq(S)) /\ Append(<< >>, x) = <<x>>
  OBVIOUS
<1>2. << >> \o x = x
  BY ConcatEmptySeq
<1> QED
  BY <1>1, <1>2, FlattenAppend, FlattenEmpty
-----------------------------------------------------------------------------
(* What Kept flattens.                                                     *)
Singles(s, S) == [i \in DOMAIN s |-> IF s[i] \in S THEN <<s[i]>> ELSE << >>]

(* There is one for every element.                                         *)
LEMMA SinglesAre ==
  ASSUME NEW X, NEW S, NEW s \in Seq(X)
  PROVE  Singles(s, S) \in Seq(Seq(X \cap S)) /\ Len(Singles(s, S)) = Len(s)
<1>1. Len(s) \in Nat /\ DOMAIN s = 1..Len(s) /\ \A i \in 1..Len(s) : s[i] \in X
  BY LenProperties, ElementOfSeq
<1>2. \A i \in 1..Len(s) :
        (IF s[i] \in S THEN <<s[i]>> ELSE << >>) \in Seq(X \cap S)
  <2> SUFFICES ASSUME NEW i \in 1..Len(s)
               PROVE  (IF s[i] \in S THEN <<s[i]>> ELSE << >>) \in Seq(X \cap S)
    OBVIOUS
  <2> DEFINE x == s[i]
             Y == X \cap S
  <2>1. x \in S => x \in Y
    BY <1>1
  <2> HIDE DEF x, Y
  <2>2. (IF x \in S THEN <<x>> ELSE << >>) \in Seq(Y)
    BY <2>1
  <2> QED
    BY <2>2 DEF x, Y
<1> QED
  BY <1>1, <1>2, IsASeq DEF Singles

(* What becomes of one element.                                            *)
One(c, S) == IF c \in S THEN <<c>> ELSE << >>

(* Kept goes from left to right and leaves out what is not in the set.     *)
LEMMA KeptAppend ==
  ASSUME NEW X, NEW S, NEW s \in Seq(X), NEW c \in X
  PROVE  /\ Kept(s, S) \in Seq(X \cap S)
         /\ Kept(Append(s, c), S) = Kept(s, S) \o One(c, S)
<1> DEFINE t == Append(s, c)
           x == IF c \in S THEN <<c>> ELSE << >>
<1>1. /\ t \in Seq(X) /\ Len(t) = Len(s) + 1 /\ t[Len(s) + 1] = c
      /\ \A i \in 1..Len(s) : t[i] = s[i]
      /\ Len(s) \in Nat /\ DOMAIN s = 1..Len(s) /\ DOMAIN t = 1..(Len(s) + 1)
  BY AppendProperties, LenProperties
<1> HIDE DEF t
<1>2. x \in Seq(X \cap S)
  <2> DEFINE Y == X \cap S
  <2>1. c \in S => c \in Y
    OBVIOUS
  <2> HIDE DEF Y
  <2>2. x \in Seq(Y)
    BY <2>1
  <2> QED
    BY <2>2 DEF Y
<1>3. /\ Singles(s, S) \in Seq(Seq(X \cap S)) /\ Len(Singles(s, S)) = Len(s)
      /\ Singles(t, S) \in Seq(Seq(X \cap S)) /\ Len(Singles(t, S)) = Len(s) + 1
  BY <1>1, SinglesAre
<1>4. Singles(t, S) = Append(Singles(s, S), x)
  <2> DEFINE w == Append(Singles(s, S), x)
  <2>1. /\ w \in Seq(Seq(X \cap S)) /\ Len(w) = Len(s) + 1 /\ w[Len(s) + 1] = x
        /\ \A i \in 1..Len(s) : w[i] = Singles(s, S)[i]
    BY <1>2, <1>3, AppendProperties
  <2> HIDE DEF w
  <2>2. ASSUME NEW i \in 1..(Len(s) + 1)
        PROVE  Singles(t, S)[i] = w[i]
    <3>1. CASE i = Len(s) + 1
      BY <1>1, <2>1, <3>1 DEF Singles
    <3>2. CASE i # Len(s) + 1
      <4>1. i \in 1..Len(s)
        BY <1>1, <3>2
      <4>2. Singles(t, S)[i] = Singles(s, S)[i]
        BY <1>1, <4>1 DEF Singles
      <4> QED
        BY <2>1, <4>1, <4>2
    <3> QED
      BY <3>1, <3>2
  <2>3. Singles(t, S) = w
    BY <1>3, <2>1, <2>2, SeqEqual
  <2> QED
    BY <2>3 DEF w
<1>5. Kept(s, S) = FlattenSeq(Singles(s, S)) /\ Kept(t, S) = FlattenSeq(Singles(t, S))
  BY DEF Kept, Singles
<1>6. Kept(s, S) \in Seq(X \cap S)
  BY <1>3, <1>5, FlattenTyped
<1>7. Kept(t, S) = Kept(s, S) \o x
  BY <1>2, <1>3, <1>4, <1>5, FlattenAppend
<1> QED
  BY <1>6, <1>7 DEF t, One

(* What is in the set comes to the end of what was kept before ...         *)
LEMMA KeptAppendIn ==
  ASSUME NEW X, NEW S, NEW s \in Seq(X), NEW c \in X, c \in S
  PROVE  Kept(Append(s, c), S) = Append(Kept(s, S), c)
<1> DEFINE Y == X \cap S
           k == Kept(s, S)
<1>1. k \in Seq(Y) /\ Kept(Append(s, c), S) = k \o <<c>>
  <2>1. One(c, S) = <<c>>
    BY DEF One
  <2> QED
    BY <2>1, KeptAppend
<1>2. c \in Y
  OBVIOUS
<1> HIDE DEF k, Y
<1>3. k \o <<c>> = Append(k, c)
  BY <1>1, <1>2, AppendIsConcat
<1> QED
  BY <1>1, <1>3 DEF k

(* ... and what is not in it leaves no trace.                              *)
LEMMA KeptAppendOut ==
  ASSUME NEW X, NEW S, NEW s \in Seq(X), NEW c \in X, c \notin S
  PROVE  Kept(Append(s, c), S) = Kept(s, S)
<1> DEFINE Y == X \cap S
           k == Kept(s, S)
<1>1. k \in Seq(Y) /\ Kept(Append(s, c), S) = k \o << >>
  <2>1. One(c, S) = << >>
    BY DEF One
  <2> QED
    BY <2>1, KeptAppend
<1> HIDE DEF k, Y
<1>2. k \o << >> = k
  BY <1>1, ConcatEmptySeq
<1> QED
  BY <1>1, <1>2 DEF k

(* Nothing is kept of nothing, and what is kept are elements of both.      *)
LEMMA KeptTyped ==
  ASSUME NEW X, NEW S, NEW s \in Seq(X)
  PROVE  Kept(s, S) \in Seq(X \cap S) /\ Kept(<< >>, S) = << >>
<1>1. Kept(s, S) \in Seq(X \cap S)
  <2>1. Singles(s, S) \in Seq(Seq(X \cap S))
    BY SinglesAre
  <2> QED
    BY <2>1, FlattenTyped DEF Kept, Singles
<1>2. Singles(<< >>, S) = << >>
  <2>1. << >> \in Seq(X)
    OBVIOUS
  <2>2. Singles(<< >>, S) \in Seq(Seq(X \cap S)) /\ Len(Singles(<< >>, S)) = 0
    BY <2>1, SinglesAre
  <2> QED
    BY <2>2, EmptySeq
<1> QED
  BY <1>1, <1>2, FlattenEmpty DEF Kept, Singles

(* Elements that are in a relation from left to right.                     *)
IsChain(s, R) == \A i, j \in 1..Len(s) : i < j => <<s[i], s[j]>> \in R

(* The elements of a sequence that are in a set.                           *)
HasThose(k, s, S) ==
  /\ \A i \in 1..Len(s) : s[i] \in S => \E j \in 1..Len(k) : k[j] = s[i]
  /\ \A i \in 1..Len(k) : \E j \in 1..Len(s) : k[i] = s[j]

(* Every element that is in the set is kept, and they are kept in an order *)
(* they were in.                                                           *)
LEMMA KeptKeeps ==
  ASSUME NEW X, NEW S, NEW s \in Seq(X), NEW R, IsChain(s, R)
  PROVE  HasThose(Kept(s, S), s, S) /\ IsChain(Kept(s, S), R)
<1> DEFINE InOrder(v) == \A i, j \in 1..Len(v) : i < j => <<v[i], v[j]>> \in R
           Has(v, w) == \A i \in 1..Len(v) : v[i] \in S =>
                          \E j \in 1..Len(w) : w[j] = v[i]
           Good(v) == /\ Has(v, Kept(v, S)) /\ InOrder(Kept(v, S))
                      /\ \A i \in 1..Len(Kept(v, S)) :
                           \E j \in 1..Len(v) : Kept(v, S)[i] = v[j]
           P == {n \in Nat : \A v \in Seq(X) : Len(v) = n /\ InOrder(v) => Good(v)}
<1>1. 0 \in P
  <2>1. ASSUME NEW v \in Seq(X), Len(v) = 0, InOrder(v) PROVE Good(v)
    <3>1. v = << >>
      BY <2>1, EmptySeq
    <3>2. Kept(v, S) = << >>
      BY <3>1, KeptTyped
    <3>3. Len(v) = 0 /\ Len(Kept(v, S)) = 0
      BY <3>1, <3>2
    <3> QED
      BY <3>3
  <2> HIDE DEF Good, InOrder
  <2> QED
    BY <2>1
<1>2. ASSUME NEW n \in P PROVE n + 1 \in P
  <2>1. ASSUME NEW v \in Seq(X), Len(v) = n + 1, InOrder(v) PROVE Good(v)
    <3>0. n \in Nat
      OBVIOUS
    <3>1. v # << >>
      BY <2>1, <3>0
    <3>2. PICK u \in Seq(X), c \in X : v = Append(u, c)
      BY <3>1, SequenceEmptyOrAppend
    <3>3. /\ Len(v) = Len(u) + 1 /\ Len(u) \in Nat
          /\ \A i \in 1..Len(u) : v[i] = u[i]
          /\ v[Len(u) + 1] = c
          /\ \A i \in 1..Len(u) : i \in 1..Len(v)
      BY <3>2, AppendProperties, LenProperties
    <3>4. Len(u) = n
      BY <2>1, <3>0, <3>3
    <3>5. InOrder(u)
      <4> SUFFICES ASSUME NEW i \in 1..Len(u), NEW j \in 1..Len(u), i < j
                   PROVE  <<u[i], u[j]>> \in R
        OBVIOUS
      <4>1. i \in 1..Len(v) /\ j \in 1..Len(v)
        BY <3>3
      <4>2. <<v[i], v[j]>> \in R
        BY <2>1, <4>1
      <4> QED
        BY <3>3, <4>2
    <3>6. Good(u)
      <4> HIDE DEF Good, InOrder
      <4> QED
        BY <3>4, <3>5
    <3> DEFINE k == Kept(u, S)
               l == Kept(v, S)
    <3>7. /\ k \in Seq(X \cap S) /\ Len(k) \in Nat
          /\ c \in S => l = Append(k, c)
          /\ c \notin S => l = k
      <4>1. k \in Seq(X \cap S)
        BY KeptTyped
      <4>2. c \in S => Kept(Append(u, c), S) = Append(k, c)
        BY <3>2, KeptAppendIn
      <4>3. c \notin S => Kept(Append(u, c), S) = k
        BY <3>2, KeptAppendOut
      <4> QED
        BY <3>2, <4>1, <4>2, <4>3, LenProperties
    <3>8. /\ Has(u, k) /\ InOrder(k)
          /\ \A i \in 1..Len(k) : \E j \in 1..Len(u) : k[i] = u[j]
      BY <3>6
    <3> HIDE DEF k
    <3>9. CASE c \in S
      <4>1. /\ Len(l) = Len(k) + 1 /\ l[Len(k) + 1] = c
            /\ \A i \in 1..Len(k) : l[i] = k[i]
        <5> DEFINE Y == X \cap S
        <5>1. c \in Y /\ k \in Seq(Y) /\ l = Append(k, c)
          BY <3>7, <3>9
        <5> HIDE DEF l, Y
        <5> QED
          BY <5>1, AppendProperties
      <4> HIDE DEF l
      <4>2. ASSUME NEW i \in 1..Len(v), v[i] \in S
            PROVE  \E j \in 1..Len(l) : l[j] = v[i]
        <5>1. CASE i = Len(u) + 1
          <6>1. Len(k) + 1 \in 1..Len(l)
            BY <3>7, <4>1
          <6> QED
            BY <3>3, <4>1, <5>1, <6>1
        <5>2. CASE i # Len(u) + 1
          <6>1. i \in 1..Len(u) /\ v[i] = u[i]
            BY <3>3, <5>2
          <6>2. PICK j \in 1..Len(k) : k[j] = u[i]
            BY <3>8, <4>2, <6>1
          <6>3. j \in 1..Len(l) /\ l[j] = k[j]
            BY <3>7, <4>1
          <6> QED
            BY <6>1, <6>2, <6>3
        <5> QED
          BY <5>1, <5>2
      <4>3. ASSUME NEW i \in 1..Len(l) PROVE \E j \in 1..Len(v) : l[i] = v[j]
        <5>1. CASE i = Len(k) + 1
          <6>1. Len(u) + 1 \in 1..Len(v)
            BY <3>3
          <6> QED
            BY <3>3, <4>1, <5>1, <6>1
        <5>2. CASE i # Len(k) + 1
          <6>1. i \in 1..Len(k) /\ l[i] = k[i]
            BY <3>7, <4>1, <5>2
          <6>2. PICK j \in 1..Len(u) : k[i] = u[j]
            BY <3>8, <6>1
          <6>3. j \in 1..Len(v) /\ v[j] = u[j]
            BY <3>3
          <6> QED
            BY <6>1, <6>2, <6>3
        <5> QED
          BY <5>1, <5>2
      <4>4. ASSUME NEW i \in 1..Len(l), NEW j \in 1..Len(l), i < j
            PROVE  <<l[i], l[j]>> \in R
        <5>1. i \in 1..Len(k) /\ l[i] = k[i]
          BY <3>7, <4>1, <4>4
        <5>2. CASE j = Len(k) + 1
          <6>1. PICK m \in 1..Len(u) : k[i] = u[m]
            BY <3>8, <5>1
          <6>2. /\ m \in 1..Len(v) /\ Len(u) + 1 \in 1..Len(v) /\ m < Len(u) + 1
                /\ v[m] = u[m]
            BY <3>3
          <6>3. <<v[m], v[Len(u) + 1]>> \in R
            BY <2>1, <6>2
          <6> QED
            BY <3>3, <4>1, <5>1, <5>2, <6>1, <6>2, <6>3
        <5>3. CASE j # Len(k) + 1
          <6>1. j \in 1..Len(k) /\ l[j] = k[j]
            BY <3>7, <4>1, <5>3
          <6> QED
            BY <3>8, <4>4, <5>1, <6>1
        <5> QED
          BY <5>2, <5>3
      <4> QED
        BY <4>2, <4>3, <4>4 DEF l
    <3>10. CASE c \notin S
      <4>1. l = k
        BY <3>7, <3>10
      <4>2. ASSUME NEW i \in 1..Len(v), v[i] \in S
            PROVE  \E j \in 1..Len(k) : k[j] = v[i]
        <5>1. i # Len(u) + 1
          BY <3>3, <3>10, <4>2
        <5>2. i \in 1..Len(u) /\ v[i] = u[i]
          BY <3>3, <5>1
        <5> QED
          BY <3>8, <4>2, <5>2
      <4>3. ASSUME NEW i \in 1..Len(k) PROVE \E j \in 1..Len(v) : k[i] = v[j]
        <5>1. PICK j \in 1..Len(u) : k[i] = u[j]
          BY <3>8
        <5>2. j \in 1..Len(v) /\ v[j] = u[j]
          BY <3>3
        <5> QED
          BY <5>1, <5>2
      <4> QED
        BY <3>8, <4>1, <4>2, <4>3 DEF l
    <3> QED
      BY <3>9, <3>10
  <2> HIDE DEF Good, InOrder
  <2> QED
    BY <2>1
<1>3. \A n \in Nat : n \in P
  <2>1. P \in SUBSET Nat
    OBVIOUS
  <2> HIDE DEF P
  <2> QED
    BY <1>1, <1>2, <2>1, InductionOnSet
<1>4. Good(s)
  <2>1. Len(s) \in Nat /\ InOrder(s)
    BY LenProperties DEF IsChain
  <2> HIDE DEF Good, InOrder
  <2> QED
    BY <1>3, <2>1
<1> QED
  BY <1>4 DEF IsChain, HasThose
-----------------------------------------------------------------------------
(* A function that starts with a value and goes on step by step.           *)
IsIteration(f, start, n, step) ==
  f[0] = start /\ \A i \in 1..n : f[i] = step[i][f[i - 1]]

(* There is one, as far as there are steps.                                *)
LEMMA IterationExists ==
  ASSUME NEW X, NEW start \in X, NEW n \in Nat, NEW step \in [1..n -> [X -> X]]
  PROVE  \E f \in [0..n -> X] :
           IsIteration(f, start, n, step)
<1> DEFINE Solves(m, f) == /\ f \in [0..m -> X] /\ f[0] = start
                           /\ \A i \in 1..m : f[i] = step[i][f[i - 1]]
           P == {m \in Nat : m <= n => \E f : Solves(m, f)}
<1>1. 0 \in P
  <2> DEFINE g == [i \in 0..0 |-> start]
  <2>1. Solves(0, g)
    OBVIOUS
  <2> HIDE DEF Solves
  <2> QED
    BY <2>1
<1>2. ASSUME NEW m \in P PROVE m + 1 \in P
  <2> SUFFICES ASSUME m + 1 <= n PROVE \E f : Solves(m + 1, f)
    <3> HIDE DEF Solves
    <3> QED
      OBVIOUS
  <2>1. m \in Nat /\ m <= n
    OBVIOUS
  <2>2. PICK g : Solves(m, g)
    <3> HIDE DEF Solves
    <3> QED
      BY <2>1
  <2> DEFINE h == [i \in 0..(m + 1) |->
                     IF i = m + 1 THEN step[m + 1][g[m]] ELSE g[i]]
  <2>3. /\ m \in 0..m /\ g[m] \in X /\ m + 1 \in 1..n /\ ~(m = m + 1) /\ ~(0 = m + 1)
    BY <2>1, <2>2
  <2>4. step[m + 1][g[m]] \in X
    BY <2>3
  <2>5. \A i \in 0..m : h[i] = g[i] /\ g[i] \in X
    BY <2>1, <2>2
  <2>6. h[m + 1] = step[m + 1][g[m]] /\ (m + 1) - 1 = m /\ m + 1 \in 0..(m + 1)
    BY <2>1
  <2>7. h \in [0..(m + 1) -> X]
    BY <2>1, <2>2, <2>4
  <2>8. h[0] = start
    BY <2>1, <2>2, <2>5
  <2> HIDE DEF h
  <2>9. ASSUME NEW i \in 1..(m + 1) PROVE h[i] = step[i][h[i - 1]]
    <3>1. CASE i = m + 1
      BY <2>3, <2>5, <2>6, <3>1
    <3>2. CASE i # m + 1
      <4>1. i \in 1..m /\ i \in 0..m /\ i - 1 \in 0..m
        BY <2>1, <3>2
      <4> QED
        BY <2>2, <2>5, <4>1
    <3> QED
      BY <3>1, <3>2
  <2>10. Solves(m + 1, h)
    BY <2>7, <2>8, <2>9
  <2> HIDE DEF Solves
  <2> QED
    BY <2>10
<1>3. \A m \in Nat : m \in P
  <2>1. P \in SUBSET Nat
    OBVIOUS
  <2> HIDE DEF P
  <2> QED
    BY <1>1, <1>2, <2>1, InductionOnSet
<1>4. PICK f : Solves(n, f)
  <2> HIDE DEF Solves
  <2> QED
    BY <1>3
<1> QED
  BY <1>4 DEF IsIteration

(* The image of a finite set is finite.                                    *)
LEMMA FiniteImage ==
  ASSUME NEW f, IsFiniteSet(DOMAIN f)
  PROVE  IsFiniteSet({f[x] : x \in DOMAIN f})
<1> DEFINE T == {f[x] : x \in DOMAIN f}
           g == [x \in DOMAIN f |-> f[x]]
<1>1. g \in Surjection(DOMAIN f, T)
  BY DEF Surjection
<1> HIDE DEF g, T
<1> QED
  BY <1>1, FS_Surjection DEF T

(* Finitely many finite sets have finitely many elements.                  *)
LEMMA FiniteUnion ==
  ASSUME NEW f, IsFiniteSet(DOMAIN f), \A x \in DOMAIN f : IsFiniteSet(f[x])
  PROVE  IsFiniteSet(UNION {f[x] : x \in DOMAIN f})
<1>1. IsFiniteSet({f[x] : x \in DOMAIN f})
  BY FiniteImage
<1>2. \A S \in {f[x] : x \in DOMAIN f} : IsFiniteSet(S)
  OBVIOUS
<1> QED
  BY <1>1, <1>2, FS_UNION
=============================================================================
