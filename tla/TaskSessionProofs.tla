------------------------- MODULE TaskSessionProofs -------------------------
(***************************************************************************)
(* Proofs about clients of RefactoringTask, for texts and sessions of any  *)
(* size: what is in the context belongs to files that were read, and what  *)
(* save() writes is the text with names replaced.                          *)
(***************************************************************************)
EXTENDS TaskSession, FiniteSetTheorems, SequenceTheorems, DataInduction, TLAPS

(* A replacement as the callbacks make them.                               *)
Item == [path : Path, offset : Nat \ {0}, length : Nat \ {0}, text : Seq(Nat)]
-----------------------------------------------------------------------------
(* The order of texts is strict and total.                                 *)
LEMMA TextIrreflexive ==
  ASSUME NEW s \in Seq(Nat)
  PROVE  ~TextBefore(s, s)
<1>1. Len(s) \in Nat /\ \A i \in 1..Len(s) : s[i] \in Nat
  BY LenProperties, ElementOfSeq
<1> QED
  BY <1>1 DEF TextBefore

(* It can be chained ...                                                   *)
LEMMA TextTransitive ==
  ASSUME NEW s \in Seq(Nat), NEW t \in Seq(Nat), NEW u \in Seq(Nat),
         TextBefore(s, t), TextBefore(t, u)
  PROVE  TextBefore(s, u)
<1>0. /\ Len(s) \in Nat /\ Len(t) \in Nat /\ Len(u) \in Nat
      /\ \A i \in 1..Len(s) : s[i] \in Nat
      /\ \A i \in 1..Len(t) : t[i] \in Nat
      /\ \A i \in 1..Len(u) : u[i] \in Nat
  BY LenProperties, ElementOfSeq
<1>1. PICK i \in 1..Len(t) : /\ \A k \in 1..(i - 1) : k <= Len(s) /\ s[k] = t[k]
                             /\ Len(s) < i \/ s[i] < t[i]
  BY DEF TextBefore
<1>2. PICK j \in 1..Len(u) : /\ \A k \in 1..(j - 1) : k <= Len(t) /\ t[k] = u[k]
                             /\ Len(t) < j \/ t[j] < u[j]
  BY DEF TextBefore
<1>3. CASE i < j
  <2>1. i \in 1..(j - 1) /\ i \in 1..Len(u)
    BY <1>0, <1>3
  <2>2. t[i] = u[i]
    BY <1>2, <2>1
  <2>3. ASSUME NEW k \in 1..(i - 1) PROVE k <= Len(s) /\ s[k] = u[k]
    <3>1. k \in 1..(j - 1)
      BY <1>0, <1>3
    <3> QED
      BY <1>1, <1>2, <3>1
  <2> QED
    BY <1>1, <2>1, <2>2, <2>3 DEF TextBefore
<1>4. CASE j < i
  <2>1. j \in 1..(i - 1) /\ j \in 1..Len(t)
    BY <1>0, <1>4
  <2>2. s[j] = t[j] /\ t[j] < u[j]
    BY <1>0, <1>1, <1>2, <2>1
  <2>3. ASSUME NEW k \in 1..(j - 1) PROVE k <= Len(s) /\ s[k] = u[k]
    <3>1. k \in 1..(i - 1)
      BY <1>0, <1>4
    <3> QED
      BY <1>1, <1>2, <3>1
  <2>4. s[j] < u[j]
    BY <2>2
  <2> QED
    BY <2>3, <2>4 DEF TextBefore
<1>5. CASE i = j
  <2>1. ASSUME NEW k \in 1..(i - 1) PROVE k <= Len(s) /\ s[k] = u[k]
    BY <1>1, <1>2, <1>5
  <2>2. t[i] < u[i]
    BY <1>0, <1>2, <1>5
  <2>3. Len(s) < i \/ s[i] < u[i]
    <3>1. CASE Len(s) < i
      BY <3>1
    <3>2. CASE ~(Len(s) < i)
      <4>1. i \in 1..Len(s)
        BY <1>0, <3>2
      <4>2. s[i] \in Nat /\ t[i] \in Nat /\ u[i] \in Nat
        BY <1>0, <1>5, <4>1
      <4>3. s[i] < t[i]
        BY <1>1, <3>2
      <4> QED
        BY <2>2, <4>2, <4>3
    <3> QED
      BY <3>1, <3>2
  <2> QED
    BY <1>5, <2>1, <2>3 DEF TextBefore
<1> QED
  BY <1>0, <1>3, <1>4, <1>5

(* ... and tells any two texts apart.                                      *)
LEMMA TextTotal ==
  ASSUME NEW s \in Seq(Nat), NEW t \in Seq(Nat), s # t
  PROVE  TextBefore(s, t) \/ TextBefore(t, s)
<1> DEFINE D == {i \in 1..Len(s) : i <= Len(t) /\ s[i] # t[i]}
<1>0. /\ Len(s) \in Nat /\ Len(t) \in Nat
      /\ \A i \in 1..Len(s) : s[i] \in Nat
      /\ \A i \in 1..Len(t) : t[i] \in Nat
  BY LenProperties, ElementOfSeq
<1>1. CASE D # {}
  <2>1. D \in SUBSET Nat
    BY <1>0
  <2> HIDE DEF D
  <2>2. PICK d \in D : \A m \in D : d <= m
    BY <1>1, <2>1, LeastExists
  <2> USE DEF D
  <2>3. d \in 1..Len(s) /\ d \in 1..Len(t) /\ s[d] # t[d]
    BY <1>0, <2>2
  <2>4. ASSUME NEW k \in 1..(d - 1) PROVE k <= Len(s) /\ k <= Len(t) /\ s[k] = t[k]
    <3>1. k \in 1..Len(s) /\ k <= Len(t) /\ ~(d <= k)
      BY <1>0, <2>3
    <3> QED
      BY <1>0, <2>2, <3>1
  <2>5. s[d] < t[d] \/ t[d] < s[d]
    BY <1>0, <2>3
  <2> QED
    BY <2>3, <2>4, <2>5 DEF TextBefore
<1>2. CASE D = {}
  <2>1. \A i \in 1..Len(s) : i <= Len(t) => s[i] = t[i]
    BY <1>2
  <2>2. Len(s) # Len(t)
    <3> SUFFICES ASSUME Len(s) = Len(t) PROVE FALSE
      OBVIOUS
    <3>1. \A i \in 1..Len(s) : s[i] = t[i]
      BY <1>0, <2>1
    <3> QED
      BY <3>1, SeqEqual
  <2>3. CASE Len(s) < Len(t)
    <3> DEFINE i == Len(s) + 1
    <3>1. i \in 1..Len(t) /\ Len(s) < i /\ i - 1 = Len(s)
      BY <1>0, <2>3
    <3>2. \A k \in 1..(i - 1) : k <= Len(s) /\ s[k] = t[k]
      BY <1>0, <2>1, <2>3
    <3> HIDE DEF i
    <3> QED
      BY <3>1, <3>2 DEF TextBefore
  <2>4. CASE Len(t) < Len(s)
    <3> DEFINE i == Len(t) + 1
    <3>1. i \in 1..Len(s) /\ Len(t) < i /\ i - 1 = Len(t)
      BY <1>0, <2>4
    <3>2. \A k \in 1..(i - 1) : k <= Len(t) /\ t[k] = s[k]
      BY <1>0, <2>1, <2>4
    <3> HIDE DEF i
    <3> QED
      BY <3>1, <3>2 DEF TextBefore
  <2> QED
    BY <1>0, <2>2, <2>3, <2>4
<1> QED
  BY <1>1, <1>2

(* So is the order of replacements, with which deduplicate sorts them.     *)
LEMMA BeforeIsOrder ==
  ASSUME NEW a \in Item, NEW b \in Item, NEW c \in Item
  PROVE  /\ ~Before(a, a)
         /\ Before(a, b) /\ Before(b, c) => Before(a, c)
         /\ a # b => Before(a, b) \/ Before(b, a)
<1>0. /\ a.path \in Nat /\ a.offset \in Nat /\ a.length \in Nat /\ a.text \in Seq(Nat)
      /\ b.path \in Nat /\ b.offset \in Nat /\ b.length \in Nat /\ b.text \in Seq(Nat)
      /\ c.path \in Nat /\ c.offset \in Nat /\ c.length \in Nat /\ c.text \in Seq(Nat)
  BY PathsAssumption DEF Item
<1>1. ~Before(a, a)
  BY <1>0, TextIrreflexive DEF Before
<1>2. ASSUME Before(a, b), Before(b, c) PROVE Before(a, c)
  <2>1. TextBefore(a.text, b.text) /\ TextBefore(b.text, c.text) =>
          TextBefore(a.text, c.text)
    BY <1>0, TextTransitive
  <2> QED
    BY <1>0, <1>2, <2>1 DEF Before
<1>3. ASSUME a # b PROVE Before(a, b) \/ Before(b, a)
  <2>1. CASE a.text = b.text
    <3>1. a.path # b.path \/ a.offset # b.offset \/ a.length # b.length
      BY <1>3, <2>1 DEF Item
    <3> QED
      BY <1>0, <3>1 DEF Before
  <2>2. CASE a.text # b.text
    <3>1. TextBefore(a.text, b.text) \/ TextBefore(b.text, a.text)
      BY <1>0, <2>2, TextTotal
    <3> QED
      BY <1>0, <3>1 DEF Before
  <2> QED
    BY <2>1, <2>2
<1> QED
  BY <1>1, <1>2, <1>3

(* The replacement std::sort puts first.                                   *)
FirstOf(rest) == CHOOSE r \in rest : \A q \in rest \ {r} : Before(r, q)

(* A finite set of replacements has one that comes before all others.      *)
LEMMA FirstExists ==
  ASSUME NEW S \in SUBSET Item, IsFiniteSet(S), S # {}
  PROVE  FirstOf(S) \in S /\ \A q \in S \ {FirstOf(S)} : Before(FirstOf(S), q)
<1> DEFINE Has(T) == \E r \in T : \A q \in T \ {r} : Before(r, q)
           P == {n \in Nat : \A T \in SUBSET S : Cardinality(T) = n + 1 => Has(T)}
<1>0. \A T \in SUBSET S : IsFiniteSet(T) /\ Cardinality(T) \in Nat
  BY FS_Subset, FS_CardinalityType
<1>1. 0 \in P
  <2>1. ASSUME NEW T \in SUBSET S, Cardinality(T) = 0 + 1 PROVE Has(T)
    <3>1. IsFiniteSet(T) /\ Cardinality(T) = 1
      BY <1>0, <2>1
    <3>2. PICK x : T = {x}
      BY <3>1, FS_Singleton
    <3> QED
      BY <3>2
  <2> HIDE DEF Has
  <2> QED
    BY <2>1
<1>2. ASSUME NEW n \in P PROVE n + 1 \in P
  <2>1. ASSUME NEW T \in SUBSET S, Cardinality(T) = n + 1 + 1 PROVE Has(T)
    <3>0. n \in Nat
      OBVIOUS
    <3>1. T # {}
      BY <1>0, <2>1, <3>0, FS_EmptySet
    <3>2. PICK x \in T : TRUE
      BY <3>1
    <3>3. T \ {x} \in SUBSET S /\ Cardinality(T \ {x}) = n + 1
      BY <1>0, <2>1, <3>0, <3>2, FS_RemoveElement
    <3>4. Has(T \ {x})
      <4> HIDE DEF Has
      <4> QED
        BY <3>3
    <3>5. PICK m \in T \ {x} : \A q \in (T \ {x}) \ {m} : Before(m, q)
      BY <3>4
    <3>6. x \in Item /\ m \in Item /\ x # m /\ \A q \in T : q \in Item
      BY <3>2, <3>5
    <3>7. CASE Before(m, x)
      <4>1. \A q \in T \ {m} : Before(m, q)
        BY <3>5, <3>7
      <4> QED
        BY <3>5, <4>1
    <3>8. CASE ~Before(m, x)
      <4>1. Before(x, m)
        BY <3>6, <3>8, BeforeIsOrder
      <4>2. \A q \in T \ {x} : Before(x, q)
        BY <3>5, <3>6, <4>1, BeforeIsOrder
      <4> QED
        BY <3>2, <4>2
    <3> QED
      BY <3>7, <3>8
  <2> HIDE DEF Has
  <2> QED
    BY <2>1
<1>3. \A n \in Nat : n \in P
  <2>1. P \in SUBSET Nat
    OBVIOUS
  <2> HIDE DEF P
  <2> QED
    BY <1>1, <1>2, <2>1, InductionOnSet
<1>4. Has(S)
  <2>1. Cardinality(S) \in Nat /\ Cardinality(S) # 0
    BY <1>0, FS_EmptySet
  <2>2. Cardinality(S) - 1 \in Nat /\ Cardinality(S) = (Cardinality(S) - 1) + 1
    BY <2>1
  <2> HIDE DEF Has
  <2> QED
    BY <1>3, <2>2
<1> QED
  BY <1>4 DEF FirstOf

(* The recursive function Sorted is made of.                               *)
IsSort(S, f) ==
  f = [rest \in SUBSET S |->
         IF rest = {} THEN << >> ELSE <<FirstOf(rest)>> \o f[rest \ {FirstOf(rest)}]]

(* Its equations can be solved for every finite set.                       *)
LEMMA SortExists ==
  ASSUME NEW S \in SUBSET Item, IsFiniteSet(S)
  PROVE  \E f : IsSort(S, f)
<1> DEFINE Small(n) == {T \in SUBSET S : Cardinality(T) <= n}
           Val(f, T) == IF T = {} THEN << >>
                        ELSE <<FirstOf(T)>> \o f[T \ {FirstOf(T)}]
           Solves(n, f) == f = [T \in Small(n) |-> Val(f, T)]
           P == {n \in Nat : \E f : Solves(n, f)}
<1>0. \A T \in SUBSET S : IsFiniteSet(T) /\ Cardinality(T) \in Nat
                          /\ Cardinality(T) <= Cardinality(S)
  BY FS_Subset, FS_CardinalityType
<1>1. 0 \in P
  <2> DEFINE g == [T \in Small(0) |-> << >>]
  <2>1. \A T \in Small(0) : T = {}
    BY <1>0, FS_EmptySet
  <2>2. g = [T \in Small(0) |-> Val(g, T)]
    BY <2>1
  <2> HIDE DEF g
  <2> QED
    BY <2>2
<1>2. ASSUME NEW n \in P PROVE n + 1 \in P
  <2>0. n \in Nat
    OBVIOUS
  <2>1. PICK g : Solves(n, g)
    OBVIOUS
  <2> DEFINE h == [T \in Small(n + 1) |-> Val(g, T)]
  <2>2. ASSUME NEW T \in Small(n + 1), T # {}
        PROVE  T \ {FirstOf(T)} \in Small(n) /\ T \ {FirstOf(T)} \in Small(n + 1)
    <3>1. FirstOf(T) \in T
      BY <1>0, <2>2, FirstExists
    <3>2. Cardinality(T \ {FirstOf(T)}) = Cardinality(T) - 1
      BY <1>0, <3>1, FS_RemoveElement
    <3>3. Cardinality(T) \in Nat /\ Cardinality(T) <= n + 1
      BY <1>0
    <3>4. Cardinality(T \ {FirstOf(T)}) <= n /\ Cardinality(T \ {FirstOf(T)}) <= n + 1
      BY <2>0, <3>2, <3>3
    <3> QED
      BY <3>4
  <2>3. ASSUME NEW T \in Small(n) PROVE T \in Small(n + 1) /\ h[T] = g[T]
    <3>1. T \in Small(n + 1)
      BY <1>0, <2>0
    <3>2. h[T] = Val(g, T)
      BY <3>1
    <3>3. g[T] = Val(g, T)
      BY <2>1
    <3> QED
      BY <3>1, <3>2, <3>3
  <2>4. ASSUME NEW T \in Small(n + 1) PROVE h[T] = Val(h, T)
    <3>1. CASE T = {}
      BY <3>1
    <3>2. CASE T # {}
      <4>1. h[T \ {FirstOf(T)}] = g[T \ {FirstOf(T)}]
        BY <2>2, <2>3, <3>2
      <4>2. h[T] = Val(g, T)
        OBVIOUS
      <4> HIDE DEF h
      <4> QED
        BY <3>2, <4>1, <4>2
    <3> QED
      BY <3>1, <3>2
  <2>5. h = [T \in Small(n + 1) |-> h[T]]
    OBVIOUS
  <2> HIDE DEF h
  <2>6. Solves(n + 1, h)
    BY <2>4, <2>5
  <2> HIDE DEF Solves
  <2> QED
    BY <2>0, <2>6
<1>3. \A n \in Nat : n \in P
  <2>1. P \in SUBSET Nat
    OBVIOUS
  <2> HIDE DEF P
  <2> QED
    BY <1>1, <1>2, <2>1, InductionOnSet
<1>4. PICK f : Solves(Cardinality(S), f)
  <2>1. Cardinality(S) \in P
    BY <1>0, <1>3
  <2> HIDE DEF Solves
  <2> QED
    BY <2>1
<1>5. Small(Cardinality(S)) = SUBSET S
  BY <1>0
<1> HIDE DEF Small
<1> QED
  BY <1>4, <1>5 DEF IsSort

(* What std::sort makes of a set of replacements.                          *)
LEMMA SortedIs ==
  ASSUME NEW S \in SUBSET Item, IsFiniteSet(S)
  PROVE  /\ Sorted(S) \in Seq(S)
         /\ \A r \in S : \E i \in 1..Len(Sorted(S)) : Sorted(S)[i] = r
         /\ \A i, j \in 1..Len(Sorted(S)) :
              i < j => Before(Sorted(S)[i], Sorted(S)[j])
<1> DEFINE f == CHOOSE g : IsSort(S, g)
           Good(T) == /\ f[T] \in Seq(T)
                      /\ \A r \in T : \E i \in 1..Len(f[T]) : f[T][i] = r
                      /\ \A i, j \in 1..Len(f[T]) : i < j => Before(f[T][i], f[T][j])
           P == {n \in Nat : \A T \in SUBSET S : Cardinality(T) = n => Good(T)}
<1>0. \A T \in SUBSET S : IsFiniteSet(T) /\ Cardinality(T) \in Nat
  BY FS_Subset, FS_CardinalityType
<1>1. IsSort(S, f)
  BY SortExists
<1>2. Sorted(S) = f[S]
  BY DEF Sorted, IsSort, FirstOf
<1> HIDE DEF f
<1>3. \A T \in SUBSET S :
        f[T] = IF T = {} THEN << >> ELSE <<FirstOf(T)>> \o f[T \ {FirstOf(T)}]
  BY <1>1 DEF IsSort
<1>4. 0 \in P
  <2>1. ASSUME NEW T \in SUBSET S, Cardinality(T) = 0 PROVE Good(T)
    <3>1. T = {} /\ f[T] = << >>
      BY <1>0, <1>3, <2>1, FS_EmptySet
    <3> QED
      BY <3>1
  <2> HIDE DEF Good
  <2> QED
    BY <2>1
<1>5. ASSUME NEW n \in P PROVE n + 1 \in P
  <2>1. ASSUME NEW T \in SUBSET S, Cardinality(T) = n + 1 PROVE Good(T)
    <3> DEFINE m == FirstOf(T)
               U == T \ {m}
               s == f[U]
               t == <<m>> \o s
    <3>0. n \in Nat
      OBVIOUS
    <3>1. T # {}
      BY <1>0, <2>1, <3>0, FS_EmptySet
    <3>2. m \in T /\ \A q \in U : Before(m, q)
      BY <1>0, <3>1, FirstExists
    <3>3. U \in SUBSET S /\ Cardinality(U) = n
      BY <1>0, <2>1, <3>0, <3>2, FS_RemoveElement
    <3>4. Good(U)
      <4> HIDE DEF Good, U
      <4> QED
        BY <3>3
    <3>5. /\ s \in Seq(U) /\ \A r \in U : \E i \in 1..Len(s) : s[i] = r
          /\ \A i, j \in 1..Len(s) : i < j => Before(s[i], s[j])
      BY <3>4
    <3>6. f[T] = t
      BY <1>3, <3>1
    <3>7. /\ Len(s) \in Nat
          /\ \A i \in 1..Len(s) : s[i] \in U
      BY <3>5, LenProperties, ElementOfSeq
    <3>8. /\ s \in Seq(T) /\ <<m>> \in Seq(T) /\ Len(<<m>>) = 1 /\ <<m>>[1] = m
      <4>1. U \subseteq T
        OBVIOUS
      <4>2. s \in Seq(T)
        <5> HIDE DEF U, s
        <5> QED
          BY <3>5, <4>1, SeqMonotonic
      <4> QED
        BY <3>2, <4>2
    <3> HIDE DEF s, m
    <3>9. /\ t \in Seq(T) /\ Len(t) = 1 + Len(s)
          /\ \A i \in 1..(1 + Len(s)) : t[i] = IF i <= 1 THEN <<m>>[i] ELSE s[i - 1]
      BY <3>8, ConcatProperties
    <3> HIDE DEF t, U
    <3>10. t[1] = m
      BY <3>7, <3>8, <3>9
    <3>11. \A i \in 2..(1 + Len(s)) : i - 1 \in 1..Len(s) /\ t[i] = s[i - 1]
      BY <3>7, <3>9
    <3>12. ASSUME NEW r \in T PROVE \E i \in 1..Len(t) : t[i] = r
      <4>1. CASE r = m
        <5>1. 1 \in 1..Len(t)
          BY <3>7, <3>9
        <5> QED
          BY <3>10, <4>1, <5>1
      <4>2. CASE r # m
        <5>1. r \in U
          BY <4>2 DEF U
        <5>2. PICK i \in 1..Len(s) : s[i] = r
          BY <3>5, <5>1
        <5>3. i + 1 \in 2..(1 + Len(s)) /\ i + 1 \in 1..Len(t) /\ i + 1 - 1 = i
          BY <3>7, <3>9
        <5> QED
          BY <3>11, <5>2, <5>3
      <4> QED
        BY <4>1, <4>2
    <3>13. ASSUME NEW i \in 1..Len(t), NEW j \in 1..Len(t), i < j
           PROVE  Before(t[i], t[j])
      <4>1. j \in 2..(1 + Len(s)) /\ (i = 1 \/ i \in 2..(1 + Len(s)))
        BY <3>7, <3>9, <3>13
      <4>2. t[j] = s[j - 1] /\ j - 1 \in 1..Len(s)
        BY <3>11, <4>1
      <4>3. CASE i = 1
        <5>1. t[j] \in U
          BY <3>7, <4>2
        <5> QED
          BY <3>2, <3>10, <4>3, <5>1
      <4>4. CASE i \in 2..(1 + Len(s))
        <5>1. t[i] = s[i - 1] /\ i - 1 \in 1..Len(s) /\ i - 1 < j - 1
          BY <3>11, <3>13, <4>1, <4>4
        <5> QED
          BY <3>5, <4>2, <5>1
      <4> QED
        BY <4>1, <4>3, <4>4
    <3> QED
      BY <3>6, <3>9, <3>12, <3>13
  <2> HIDE DEF Good
  <2> QED
    BY <2>1
<1>6. \A n \in Nat : n \in P
  <2>1. P \in SUBSET Nat
    OBVIOUS
  <2> HIDE DEF P
  <2> QED
    BY <1>4, <1>5, <2>1, InductionOnSet
<1>7. Good(S)
  <2>1. Cardinality(S) \in P
    BY <1>0, <1>6
  <2> HIDE DEF Good
  <2> QED
    BY <2>1
<1> QED
  BY <1>2, <1>7
-----------------------------------------------------------------------------
(* The greatest and the least of two numbers.                              *)
LEMMA MaxMinOfTwo ==
  ASSUME NEW a \in Int, NEW b \in Int
  PROVE  /\ Max({a, b}) = IF a >= b THEN a ELSE b
         /\ Min({a, b}) = IF a <= b THEN a ELSE b
<1> DEFINE big == IF a >= b THEN a ELSE b
           small == IF a <= b THEN a ELSE b
<1>1. \A x \in {a, b} : (\A y \in {a, b} : x >= y) <=> x = big
  OBVIOUS
<1>2. \A x \in {a, b} : (\A y \in {a, b} : x <= y) <=> x = small
  OBVIOUS
<1>3. big \in {a, b} /\ small \in {a, b}
  OBVIOUS
<1> HIDE DEF big, small
<1>4. Max({a, b}) = big
  BY <1>1, <1>3 DEF Max
<1>5. Min({a, b}) = small
  BY <1>2, <1>3 DEF Min
<1> QED
  BY <1>4, <1>5 DEF big, small

(* By how much each replacement so far moves the text behind an offset.    *)
Delta == Nat \X Int

(* How an offset moves from one of them to the next.                       *)
IsMoved(offset, deltas, after) ==
  /\ after[0] = offset
  /\ \A n \in 1..Len(deltas) :
       after[n] = after[n - 1] + (IF deltas[n][1] < offset THEN deltas[n][2] ELSE 0)

(* There is one way for it to move.                                        *)
LEMMA MovedAgrees ==
  ASSUME NEW offset \in Nat, NEW short \in Seq(Delta), NEW long \in Seq(Delta),
         Len(short) <= Len(long), \A i \in 1..Len(short) : short[i] = long[i],
         NEW f, NEW g, IsMoved(offset, short, f), IsMoved(offset, long, g)
  PROVE  f[Len(short)] = g[Len(short)]
<1> DEFINE P == {k \in Nat : k <= Len(short) => f[k] = g[k]}
<1>0. Len(short) \in Nat /\ Len(long) \in Nat
  BY LenProperties
<1>1. P \in SUBSET Nat
  OBVIOUS
<1>2. 0 \in P
  BY DEF IsMoved
<1>3. ASSUME NEW k \in P PROVE k + 1 \in P
  <2> SUFFICES ASSUME k + 1 <= Len(short) PROVE f[k + 1] = g[k + 1]
    OBVIOUS
  <2>1. k \in Nat /\ k + 1 \in 1..Len(short) /\ k + 1 \in 1..Len(long) /\ (k + 1) - 1 = k
    BY <1>0
  <2>2. f[k] = g[k]
    BY <1>0, <2>1
  <2>3. f[k + 1] = f[k] + (IF short[k + 1][1] < offset THEN short[k + 1][2] ELSE 0)
    BY <2>1 DEF IsMoved
  <2>4. g[k + 1] = g[k] + (IF long[k + 1][1] < offset THEN long[k + 1][2] ELSE 0)
    BY <2>1 DEF IsMoved
  <2> QED
    BY <2>1, <2>2, <2>3, <2>4
<1> HIDE DEF P
<1>4. \A n \in Nat : n \in P
  BY <1>1, <1>2, <1>3, InductionOnSet
<1> QED
  BY <1>0, <1>4 DEF P

(* And it is the one that Moved computes.                                  *)
LEMMA MovedIs ==
  ASSUME NEW offset \in Nat, NEW deltas \in Seq(Delta)
  PROVE  \E after \in [0..Len(deltas) -> Int] :
           /\ IsMoved(offset, deltas, after)
           /\ Moved(offset, deltas) = after[Len(deltas)]
<1> DEFINE Solves(f) ==
             f = [n \in 0..Len(deltas) |->
                    IF n = 0 THEN offset
                    ELSE f[n - 1] + (IF deltas[n][1] < offset THEN deltas[n][2] ELSE 0)]
           step == [n \in 1..Len(deltas) |-> [x \in Int |->
                      x + (IF deltas[n][1] < offset THEN deltas[n][2] ELSE 0)]]
<1>0. Len(deltas) \in Nat /\ \A n \in 1..Len(deltas) : deltas[n] \in Delta
  BY LenProperties, ElementOfSeq
<1>1. step \in [1..Len(deltas) -> [Int -> Int]]
  <2>1. ASSUME NEW n \in 1..Len(deltas), NEW x \in Int
        PROVE  x + (IF deltas[n][1] < offset THEN deltas[n][2] ELSE 0) \in Int
    <3>1. deltas[n][2] \in Int
      BY <1>0 DEF Delta
    <3> QED
      BY <3>1
  <2> QED
    BY <2>1
<1>2. \A n \in 1..Len(deltas), x \in Int :
        step[n][x] = x + (IF deltas[n][1] < offset THEN deltas[n][2] ELSE 0)
  OBVIOUS
<1> HIDE DEF step
<1>3. PICK f \in [0..Len(deltas) -> Int] :
        f[0] = offset /\ \A i \in 1..Len(deltas) : f[i] = step[i][f[i - 1]]
  <2> DEFINE X == Int
             N == Len(deltas)
             start == offset
  <2>1. start \in X /\ N \in Nat /\ step \in [1..N -> [X -> X]]
    BY <1>0, <1>1
  <2> HIDE DEF X, N, start
  <2>2. \E f \in [0..N -> X] :
          IsIteration(f, start, N, step)
    BY <2>1, IterationExists
  <2> QED
    BY <2>2 DEF X, N, start, IsIteration
<1>4. ASSUME NEW i \in 0..Len(deltas)
      PROVE  f[i] = IF i = 0 THEN offset
                    ELSE f[i - 1] + (IF deltas[i][1] < offset THEN deltas[i][2] ELSE 0)
  <2>1. CASE i = 0
    BY <1>3, <2>1
  <2>2. CASE i # 0
    <3>1. i \in 1..Len(deltas) /\ i - 1 \in 0..Len(deltas)
      BY <1>0, <2>2
    <3>2. f[i - 1] \in Int
      BY <3>1
    <3> QED
      BY <1>2, <1>3, <2>2, <3>1, <3>2
  <2> QED
    BY <2>1, <2>2
<1>5. Solves(f)
  BY <1>3, <1>4
<1> DEFINE g == CHOOSE h : Solves(h)
<1>6. Solves(g)
  <2> HIDE DEF Solves
  <2> QED
    BY <1>5
<1>7. Moved(offset, deltas) = g[Len(deltas)]
  BY DEF Moved
<1> HIDE DEF g
<1>8. IsMoved(offset, deltas, g)
  <2>1. ASSUME NEW n \in 0..Len(deltas)
        PROVE  g[n] = IF n = 0 THEN offset
                      ELSE g[n - 1] + (IF deltas[n][1] < offset THEN deltas[n][2] ELSE 0)
    BY <1>6
  <2>2. 0 \in 0..Len(deltas) /\ \A n \in 1..Len(deltas) : n \in 0..Len(deltas) /\ n # 0
    BY <1>0
  <2> QED
    BY <2>1, <2>2 DEF IsMoved
<1>9. IsMoved(offset, deltas, f)
  <2>1. ASSUME NEW n \in 1..Len(deltas)
        PROVE  f[n] = f[n - 1] + (IF deltas[n][1] < offset THEN deltas[n][2] ELSE 0)
    BY <1>0, <1>4
  <2> QED
    BY <1>3, <2>1 DEF IsMoved
<1>10. g[Len(deltas)] = f[Len(deltas)]
  BY <1>0, <1>8, <1>9, MovedAgrees
<1> QED
  BY <1>7, <1>9, <1>10

(* At first an offset is where it was, and every replacement in front of   *)
(* it moves it further.                                                    *)
LEMMA MovedAppend ==
  ASSUME NEW offset \in Nat, NEW deltas \in Seq(Delta), NEW delta \in Delta
  PROVE  /\ Moved(offset, deltas) \in Int
         /\ Moved(offset, << >>) = offset
         /\ Moved(offset, Append(deltas, delta))
              = Moved(offset, deltas) + (IF delta[1] < offset THEN delta[2] ELSE 0)
<1> DEFINE more == Append(deltas, delta)
<1>1. /\ more \in Seq(Delta) /\ Len(more) = Len(deltas) + 1 /\ more[Len(deltas) + 1] = delta
      /\ Len(deltas) \in Nat /\ \A i \in 1..Len(deltas) : deltas[i] = more[i]
  BY AppendProperties, LenProperties
<1> HIDE DEF more
<1>2. PICK f \in [0..Len(deltas) -> Int] :
        IsMoved(offset, deltas, f) /\ Moved(offset, deltas) = f[Len(deltas)]
  BY MovedIs
<1>3. PICK g \in [0..Len(more) -> Int] :
        IsMoved(offset, more, g) /\ Moved(offset, more) = g[Len(more)]
  BY <1>1, MovedIs
<1>4. f[Len(deltas)] = g[Len(deltas)]
  BY <1>1, <1>2, <1>3, MovedAgrees
<1>5. Moved(offset, deltas) \in Int
  BY <1>1, <1>2
<1>6. g[Len(more)] = g[Len(deltas)] + (IF delta[1] < offset THEN delta[2] ELSE 0)
  <2>1. /\ Len(more) \in 1..Len(more) /\ Len(more) - 1 = Len(deltas)
        /\ more[Len(more)] = delta
    BY <1>1
  <2>2. g[Len(more)] = g[Len(more) - 1]
                         + (IF more[Len(more)][1] < offset THEN more[Len(more)][2] ELSE 0)
    BY <1>3, <2>1 DEF IsMoved
  <2> QED
    BY <2>1, <2>2
<1>7. Moved(offset, << >>) = offset
  <2>1. << >> \in Seq(Delta) /\ Len(<< >>) = 0
    OBVIOUS
  <2> DEFINE none == << >>
  <2> HIDE DEF none
  <2>2. PICK h \in [0..Len(none) -> Int] :
          IsMoved(offset, none, h) /\ Moved(offset, none) = h[Len(none)]
    BY <2>1, MovedIs DEF none
  <2> QED
    BY <2>1, <2>2 DEF IsMoved, none
<1> QED
  BY <1>2, <1>3, <1>4, <1>5, <1>6, <1>7 DEF more
-----------------------------------------------------------------------------
(* What the rewriter keeps of a file.                                      *)
Buffer == [text : Seq(Nat), deltas : Seq(Delta)]

(* Whatever is replaced, it keeps a text and what moved in it.             *)
LEMMA ReplaceTextTyped ==
  ASSUME NEW b \in Buffer, NEW r \in Item
  PROVE  ReplaceText(b, r) \in Buffer
<1> DEFINE at == Max({1, Min({Moved(r.offset, b.deltas), Len(b.text) + 1})})
           front == SubSeq(b.text, 1, at - 1)
           back == SubSeq(b.text, at + r.length, Len(b.text))
           delta == <<r.offset, Len(r.text) - r.length>>
<1>0. /\ b.text \in Seq(Nat) /\ b.deltas \in Seq(Delta) /\ Len(b.text) \in Nat
      /\ r.offset \in Nat /\ r.length \in Nat \ {0} /\ r.text \in Seq(Nat)
      /\ Len(r.text) \in Nat
  BY LenProperties DEF Buffer, Item
<1>1. delta \in Delta
  BY <1>0 DEF Delta
<1>2. Moved(r.offset, b.deltas) \in Int
  BY <1>0, <1>1, MovedAppend
<1>3. at \in 1..(Len(b.text) + 1)
  <2> DEFINE small == Min({Moved(r.offset, b.deltas), Len(b.text) + 1})
  <2>1. small \in Int /\ small <= Len(b.text) + 1
    <3> DEFINE m == Moved(r.offset, b.deltas)
               l == Len(b.text) + 1
    <3>1. m \in Int /\ l \in Int
      BY <1>0, <1>2
    <3> HIDE DEF m, l
    <3>2. Min({m, l}) = IF m <= l THEN m ELSE l
      BY <3>1, MaxMinOfTwo
    <3> QED
      BY <3>1, <3>2 DEF m, l
  <2> HIDE DEF small
  <2>2. Max({1, small}) \in 1..(Len(b.text) + 1)
    BY <1>0, <2>1, MaxMinOfTwo
  <2> QED
    BY <2>2 DEF small
<1> HIDE DEF at
<1>4. front \in Seq(Nat)
  BY <1>0, <1>3, SubSeqProperties
<1>5. back \in Seq(Nat)
  BY <1>0, <1>3, SubSeqProperties
<1>6. front \o r.text \o back \in Seq(Nat)
  BY <1>0, <1>4, <1>5, ConcatProperties
<1>7. Append(b.deltas, delta) \in Seq(Delta)
  BY <1>0, <1>1, AppendProperties
<1>8. ReplaceText(b, r) = [text |-> front \o r.text \o back,
                           deltas |-> Append(b.deltas, delta)]
  BY DEF ReplaceText, at
<1> HIDE DEF front, back, delta
<1> QED
  BY <1>6, <1>7, <1>8 DEF Buffer

(* The rewriter takes the replacements one by one.                         *)
IsRewriting(text, replacements, b) ==
  /\ b \in [0..Len(replacements) -> Buffer]
  /\ b[0] = [text |-> text, deltas |-> << >>]
  /\ \A n \in 1..Len(replacements) : b[n] = ReplaceText(b[n - 1], replacements[n])

(* This is what Rewritten computes.                                        *)
LEMMA RewrittenIs ==
  ASSUME NEW text \in Seq(Nat), NEW replacements \in Seq(Item)
  PROVE  \E b : /\ IsRewriting(text, replacements, b)
                /\ Rewritten(text, replacements) = b[Len(replacements)].text
<1> DEFINE N == Len(replacements)
           start == [text |-> text, deltas |-> << >>]
           Solves(f) == f = [n \in 0..N |->
                               IF n = 0 THEN start
                               ELSE ReplaceText(f[n - 1], replacements[n])]
           step == [n \in 1..N |-> [b \in Buffer |-> ReplaceText(b, replacements[n])]]
<1>0. N \in Nat /\ \A n \in 1..N : replacements[n] \in Item
  BY LenProperties, ElementOfSeq
<1>1. step \in [1..N -> [Buffer -> Buffer]]
  BY <1>0, ReplaceTextTyped
<1>2. \A n \in 1..N, b \in Buffer : step[n][b] = ReplaceText(b, replacements[n])
  OBVIOUS
<1>3. start \in Buffer
  BY DEF Buffer
<1>4. PICK f \in [0..N -> Buffer] :
        f[0] = start /\ \A i \in 1..N : f[i] = step[i][f[i - 1]]
  <2> DEFINE X == Buffer
  <2> HIDE DEF step, N, start, X
  <2>1. start \in X /\ N \in Nat /\ step \in [1..N -> [X -> X]]
    BY <1>0, <1>1, <1>3 DEF X
  <2>2. \E f \in [0..N -> X] : IsIteration(f, start, N, step)
    BY <2>1, IterationExists
  <2> QED
    BY <2>2 DEF X, IsIteration
<1> HIDE DEF step, N
<1>5. ASSUME NEW i \in 0..N
      PROVE  f[i] = IF i = 0 THEN start ELSE ReplaceText(f[i - 1], replacements[i])
  <2>1. CASE i = 0
    BY <1>4, <2>1
  <2>2. CASE i # 0
    <3>1. i \in 1..N /\ i - 1 \in 0..N
      BY <1>0, <2>2
    <3>2. f[i - 1] \in Buffer
      BY <3>1
    <3>3. f[i] = ReplaceText(f[i - 1], replacements[i])
      BY <1>2, <1>4, <3>1, <3>2
    <3> QED
      BY <2>2, <3>3
  <2> QED
    BY <2>1, <2>2
<1>6. Solves(f)
  BY <1>4, <1>5
<1> DEFINE g == CHOOSE h : Solves(h)
<1>7. Solves(g)
  <2> HIDE DEF Solves
  <2> QED
    BY <1>6
<1>8. Rewritten(text, replacements) = g[N].text
  BY DEF Rewritten, N
<1> HIDE DEF g
<1>9. \A n \in 0..N :
        g[n] = IF n = 0 THEN start ELSE ReplaceText(g[n - 1], replacements[n])
  BY <1>7
<1> DEFINE P == {k \in Nat : k <= N => g[k] = f[k]}
<1>10. \A n \in Nat : n \in P
  <2>1. P \in SUBSET Nat
    OBVIOUS
  <2>2. 0 \in P
    <3>1. 0 \in 0..N
      BY <1>0
    <3> QED
      BY <1>5, <1>9, <3>1
  <2>3. ASSUME NEW k \in P PROVE k + 1 \in P
    <3> SUFFICES ASSUME k + 1 <= N PROVE g[k + 1] = f[k + 1]
      OBVIOUS
    <3>1. k \in Nat /\ k + 1 \in 0..N /\ k + 1 # 0 /\ (k + 1) - 1 = k
      OBVIOUS
    <3>2. g[k] = f[k]
      BY <1>0, <3>1
    <3> QED
      BY <1>5, <1>9, <3>1, <3>2
  <2> HIDE DEF P
  <2> QED
    BY <2>1, <2>2, <2>3, InductionOnSet
<1>11. g[N] = f[N]
  BY <1>0, <1>10
<1>12. IsRewriting(text, replacements, f)
  <2>1. ASSUME NEW n \in 1..N PROVE f[n] = ReplaceText(f[n - 1], replacements[n])
    BY <1>0, <1>5
  <2> QED
    BY <1>4, <2>1 DEF IsRewriting, N
<1> QED
  BY <1>8, <1>11, <1>12 DEF N

(* What is written is a text.                                              *)
LEMMA RewrittenTyped ==
  ASSUME NEW text \in Seq(Nat), NEW replacements \in Seq(Item)
  PROVE  Rewritten(text, replacements) \in Seq(Nat)
<1>1. PICK b : /\ IsRewriting(text, replacements, b)
               /\ Rewritten(text, replacements) = b[Len(replacements)].text
  BY RewrittenIs
<1>2. Len(replacements) \in 0..Len(replacements)
  BY LenProperties
<1>3. b[Len(replacements)] \in Buffer
  BY <1>1, <1>2 DEF IsRewriting
<1> QED
  BY <1>1, <1>3 DEF Buffer
-----------------------------------------------------------------------------
(* A file that was opened has a name, and the name leads to it.            *)
LEMMA NameLeadsToFile ==
  ASSUME NEW paths \in Seq(Path), NEW f, NEW k \in 1..Len(paths), FileOf[paths[k]] = f
  PROVE  NameOf(f, paths) \in Path /\ FileOf[NameOf(f, paths)] = f
<1> DEFINE S == {i \in DOMAIN paths : FileOf[paths[i]] = f}
<1>1. Len(paths) \in Nat /\ DOMAIN paths = 1..Len(paths)
  BY LenProperties
<1>2. S \in SUBSET Nat /\ S # {} /\ \A i \in S : i <= Len(paths)
  BY <1>1
<1>3. \A i \in S : i \in 1..Len(paths) /\ FileOf[paths[i]] = f
  BY <1>1
<1> HIDE DEF S
<1>4. \E n \in S : \A m \in S : n >= m
  BY <1>1, <1>2, GreatestExists
<1>5. Max(S) \in S
  BY <1>4 DEF Max
<1>6. NameOf(f, paths) = paths[Max(S)]
  BY DEF NameOf, S
<1> QED
  BY <1>3, <1>5, <1>6, ElementOfSeq

(* Replacements of one action are of one kind ...                          *)
IsFrom(q, r, text) ==
  /\ q \in Item /\ FileOf[q.path] \in DOMAIN text
  /\ q.text = r.new /\ q.length = Len(r.old)
  /\ q.offset \in Places(text[FileOf[q.path]], r.old)

(* ... and there are finitely many in finitely many files ...              *)
LEMMA FoundByIs ==
  ASSUME NEW r \in Refactoring, NEW text, NEW names,
         IsFiniteSet(DOMAIN text),
         \A f \in DOMAIN text : /\ text[f] \in Seq(Nat)
                                /\ names[f] \in Path /\ FileOf[names[f]] = f
  PROVE  /\ IsFiniteSet(FoundBy(r, names, text))
         /\ \A q \in FoundBy(r, names, text) : IsFrom(q, r, text)
<1> DEFINE Made(f, p) ==
             [path |-> names[f], offset |-> p, length |-> Len(r.old), text |-> r.new]
           G(f) == [p \in Places(text[f], r.old) |-> Made(f, p)]
           S == [f \in DOMAIN text |-> {Made(f, p) : p \in Places(text[f], r.old)}]
<1>0. /\ r.old \in Seq(Nat) /\ r.new \in Seq(Nat) /\ Len(r.old) \in Nat \ {0}
  <2>1. r.old \in Seq(Nat) /\ r.new \in Seq(Nat) /\ r.old # << >>
    BY DEF Refactoring
  <2> QED
    BY <2>1, EmptySeq, LenProperties
<1>1. FoundBy(r, names, text) = UNION {S[f] : f \in DOMAIN S}
  BY DEF FoundBy
<1>2. ASSUME NEW f \in DOMAIN text, NEW p \in Places(text[f], r.old)
      PROVE  IsFrom(Made(f, p), r, text) /\ p \in 1..Len(text[f])
  <2>1. Len(text[f]) \in Nat
    BY LenProperties
  <2>2. p \in 1..(Len(text[f]) - Len(r.old) + 1)
    BY DEF Places
  <2>3. p \in Nat \ {0} /\ p \in 1..Len(text[f])
    BY <1>0, <2>1, <2>2
  <2>4. Made(f, p) \in Item
    BY <1>0, <2>3 DEF Item
  <2> QED
    BY <1>0, <2>3, <2>4 DEF IsFrom
<1>3. ASSUME NEW f \in DOMAIN text PROVE IsFiniteSet(S[f])
  <2>1. Len(text[f]) \in Nat
    BY LenProperties
  <2>2. IsFiniteSet(1..Len(text[f]))
    BY <2>1, FS_Interval
  <2>3. Places(text[f], r.old) \in SUBSET (1..Len(text[f]))
    BY <1>2
  <2>4. IsFiniteSet(Places(text[f], r.old))
    BY <2>2, <2>3, FS_Subset
  <2> DEFINE h == G(f)
  <2>5. DOMAIN h = Places(text[f], r.old)
    OBVIOUS
  <2>6. S[f] = {h[p] : p \in DOMAIN h}
    OBVIOUS
  <2> HIDE DEF h, S
  <2> QED
    BY <2>4, <2>5, <2>6, FiniteImage
<1>4. IsFiniteSet(UNION {S[f] : f \in DOMAIN S})
  <2>1. DOMAIN S = DOMAIN text
    OBVIOUS
  <2> HIDE DEF S
  <2> QED
    BY <1>3, <2>1, FiniteUnion
<1>5. ASSUME NEW q \in UNION {S[f] : f \in DOMAIN S} PROVE IsFrom(q, r, text)
  <2>1. PICK f \in DOMAIN text : q \in S[f]
    OBVIOUS
  <2>2. PICK p \in Places(text[f], r.old) : q = Made(f, p)
    BY <2>1
  <2> HIDE DEF S, Made
  <2> QED
    BY <1>2, <2>2
<1> QED
  BY <1>1, <1>4, <1>5

(* ... and what all actions find is a bag of replacements of some of them. *)
LEMMA FoundIs ==
  ASSUME NEW text, NEW names, actions \in Seq(Refactorings),
         IsFiniteSet(DOMAIN text),
         \A f \in DOMAIN text : /\ text[f] \in Seq(Nat)
                                /\ names[f] \in Path /\ FileOf[names[f]] = f
  PROVE  /\ IsABag(Found(names, text)) /\ IsFiniteSet(DOMAIN Found(names, text))
         /\ \A q \in DOMAIN Found(names, text) :
              \E r \in Range(actions) : r \in Refactoring /\ IsFrom(q, r, text)
<1> DEFINE by == [i \in DOMAIN actions |-> FoundBy(actions[i], names, text)]
           D == UNION Range(by)
           at(q) == {i \in DOMAIN by : q \in by[i]}
<1>0. /\ Len(actions) \in Nat /\ DOMAIN actions = 1..Len(actions) /\ DOMAIN by = 1..Len(actions)
      /\ IsFiniteSet(1..Len(actions))
      /\ \A i \in DOMAIN actions : actions[i] \in Refactoring
  <2>1. Len(actions) \in Nat /\ DOMAIN actions = 1..Len(actions)
    BY LenProperties
  <2>2. \A i \in DOMAIN actions : actions[i] \in Refactorings
    BY <2>1, ElementOfSeq
  <2>3. IsFiniteSet(1..Len(actions))
    BY <2>1, FS_Interval
  <2> QED
    BY <2>1, <2>2, <2>3, RefactoringsAssumption
<1>1. \A i \in DOMAIN by : /\ IsFiniteSet(by[i])
                           /\ \A q \in by[i] : IsFrom(q, actions[i], text)
  BY <1>0, FoundByIs
<1>2. Found(names, text) = [q \in D |-> Cardinality(at(q))]
  BY DEF Found
<1>3. IsFiniteSet(D)
  <2>1. D = UNION {by[i] : i \in DOMAIN by}
    BY DEF Range
  <2>2. IsFiniteSet(DOMAIN by) /\ \A i \in DOMAIN by : IsFiniteSet(by[i])
    BY <1>0, <1>1
  <2> HIDE DEF by, D
  <2>3. IsFiniteSet(UNION {by[i] : i \in DOMAIN by})
    BY <2>2, FiniteUnion
  <2> QED
    BY <2>1, <2>3
<1>4. ASSUME NEW q \in D
      PROVE  /\ Cardinality(at(q)) \in Nat /\ Cardinality(at(q)) > 0
             /\ \E r \in Range(actions) : r \in Refactoring /\ IsFrom(q, r, text)
  <2>1. PICK i \in DOMAIN by : q \in by[i]
    BY DEF Range
  <2>2. at(q) \in SUBSET (1..Len(actions)) /\ at(q) # {}
    BY <1>0, <2>1
  <2> HIDE DEF at
  <2>3. IsFiniteSet(at(q))
    BY <1>0, <2>2, FS_Subset
  <2>4. Cardinality(at(q)) \in Nat /\ Cardinality(at(q)) # 0
    BY <2>2, <2>3, FS_CardinalityType, FS_EmptySet
  <2>5. actions[i] \in Range(actions) /\ actions[i] \in Refactoring
    BY <1>0, <2>1 DEF Range
  <2>6. IsFrom(q, actions[i], text)
    BY <1>1, <2>1
  <2> QED
    BY <2>4, <2>5, <2>6
<1> HIDE DEF D, at
<1> QED
  BY <1>2, <1>3, <1>4 DEF IsABag

(* What a run can read is text, the one on the disk unless the file was    *)
(* known with another size.                                                *)
LEMMA ReadingsAre ==
  ASSUME NEW f \in File, disk \in [File -> Seq(Nat)],
         f \in DOMAIN first => first[f] \in Seq(Nat)
  PROVE  /\ Readings(f) \in SUBSET Seq(Nat)
         /\ (f \in DOMAIN first => Len(first[f]) = Len(disk[f])) => Readings(f) = {disk[f]}
<1>1. disk[f] \in Seq(Nat) /\ Len(disk[f]) \in Nat
      /\ \A i \in 1..Len(disk[f]) : disk[f][i] \in Nat
  BY LenProperties, ElementOfSeq
<1>2. CASE f \in DOMAIN first
  <2> DEFINE cut == [i \in DOMAIN first[f] |->
                       IF i <= Len(disk[f]) THEN disk[f][i] ELSE 0]
  <2>1. Len(first[f]) \in Nat /\ DOMAIN first[f] = 1..Len(first[f])
    BY <1>2, LenProperties
  <2>2. \A i \in 1..Len(first[f]) : (IF i <= Len(disk[f]) THEN disk[f][i] ELSE 0) \in Nat
    BY <1>1, <2>1
  <2>3. cut \in Seq(Nat)
    BY <2>1, <2>2, IsASeq
  <2> HIDE DEF cut
  <2> QED
    BY <1>1, <1>2, <2>3 DEF Readings, cut
<1>3. CASE f \notin DOMAIN first
  BY <1>1, <1>3 DEF Readings
<1> QED
  BY <1>2, <1>3

(* Bags of finitely many replacements remain so.                           *)
LEMMA BagPlus ==
  ASSUME NEW b, NEW c, IsABag(b), IsABag(c), IsFiniteSet(DOMAIN b), IsFiniteSet(DOMAIN c)
  PROVE  /\ IsABag(b (+) c) /\ IsFiniteSet(DOMAIN (b (+) c))
         /\ DOMAIN (b (+) c) = DOMAIN b \cup DOMAIN c
<1>1. DOMAIN (b (+) c) = DOMAIN b \cup DOMAIN c
  BY DEF (+)
<1>2. IsFiniteSet(DOMAIN b \cup DOMAIN c)
  BY FS_Union
<1>3. ASSUME NEW e \in DOMAIN b \cup DOMAIN c
      PROVE  (IF e \in DOMAIN b THEN b[e] ELSE 0) + (IF e \in DOMAIN c THEN c[e] ELSE 0)
                \in {n \in Nat : n > 0}
  <2>1. e \in DOMAIN b => b[e] \in Nat /\ b[e] > 0
    BY DEF IsABag
  <2>2. e \in DOMAIN c => c[e] \in Nat /\ c[e] > 0
    BY DEF IsABag
  <2> QED
    BY <2>1, <2>2
<1>4. IsABag(b (+) c)
  BY <1>1, <1>3 DEF IsABag, (+)
<1> QED
  BY <1>1, <1>2, <1>4

(* So does a bag that one replacement is taken from.                       *)
LEMMA BagMinusOne ==
  ASSUME NEW b, IsABag(b), IsFiniteSet(DOMAIN b), NEW r
  PROVE  /\ IsABag(b (-) SetToBag({r})) /\ IsFiniteSet(DOMAIN (b (-) SetToBag({r})))
         /\ DOMAIN (b (-) SetToBag({r})) \subseteq DOMAIN b
<1> DEFINE c == [e \in DOMAIN b |-> IF e \in {r} THEN b[e] - 1 ELSE b[e]]
           left == [e \in {d \in DOMAIN c : c[d] > 0} |-> c[e]]
<1>1. b (-) SetToBag({r}) = left
  BY DEF (-), SetToBag
<1>2. \A e \in DOMAIN b : b[e] \in Nat /\ b[e] > 0
  BY DEF IsABag
<1>3. \A e \in DOMAIN c : c[e] \in Nat
  BY <1>2
<1>4. DOMAIN left \in SUBSET DOMAIN b
  OBVIOUS
<1>5. IsFiniteSet(DOMAIN left)
  BY <1>4, FS_Subset
<1>6. IsABag(left)
  BY <1>3 DEF IsABag
<1> QED
  BY <1>1, <1>4, <1>5, <1>6
-----------------------------------------------------------------------------
(* A part of a text, and the whole of it put together again.               *)
LEMMA PartIs ==
  ASSUME NEW X, NEW s \in Seq(X), NEW i \in 1..(Len(s) + 1), NEW j \in 0..Len(s), i <= j + 1
  PROVE  /\ SubSeq(s, i, j) \in Seq(X) /\ Len(SubSeq(s, i, j)) = j + 1 - i
         /\ \A k \in 1..(j + 1 - i) : SubSeq(s, i, j)[k] = s[i + k - 1]
<1>1. Len(s) \in Nat
  BY LenProperties
<1>2. SubSeq(s, i, j) \in Seq(X)
  BY <1>1, SubSeqProperties
<1>3. Len(SubSeq(s, i, j)) = j + 1 - i
  <2>1. Len(SubSeq(s, i, j)) = IF i <= j THEN j - i + 1 ELSE 0
    BY <1>1, SubSeqProperties
  <2> QED
    BY <1>1, <2>1
<1>4. ASSUME NEW k \in 1..(j + 1 - i) PROVE SubSeq(s, i, j)[k] = s[i + k - 1]
  <2>1. i <= j /\ k \in 1..(j - i + 1)
    BY <1>1
  <2> QED
    BY <1>1, <2>1, SubSeqProperties
<1> QED
  BY <1>2, <1>3, <1>4

(* It does not matter which parts are put together first.                  *)
LEMMA JoinOfThree ==
  ASSUME NEW a \in Seq(Nat), NEW b \in Seq(Nat), NEW c \in Seq(Nat)
  PROVE  (a \o b) \o c = a \o (b \o c)
<1> DEFINE X == Nat
<1>1. a \in Seq(X) /\ b \in Seq(X) /\ c \in Seq(X)
  OBVIOUS
<1> HIDE DEF X
<1> QED
  BY <1>1, ConcatAssociative

(* A text put together of two is taken apart again.                        *)
LEMMA PartsOfJoin ==
  ASSUME NEW a \in Seq(Nat), NEW b \in Seq(Nat)
  PROVE  /\ a \o b \in Seq(Nat) /\ Len(a \o b) = Len(a) + Len(b)
         /\ SubSeq(a \o b, 1, Len(a)) = a
         /\ SubSeq(a \o b, Len(a) + 1, Len(a) + Len(b)) = b
<1>0. Len(a) \in Nat /\ Len(b) \in Nat
  BY LenProperties
<1>1. a \o b \in Seq(Nat) /\ Len(a \o b) = Len(a) + Len(b)
  BY ConcatProperties
<1>2. SubSeq(a \o b, 1, Len(a)) = a
  <2>1. CASE Len(a) = 0
    <3>1. a = << >>
      BY <2>1, EmptySeq
    <3>2. SubSeq(a \o b, 1, 0) = << >>
      BY SubSeqEmpty
    <3> QED
      BY <2>1, <3>1, <3>2
  <2>2. CASE Len(a) # 0
    <3>1. 1 \in 1..Len(a) /\ Len(a) \in 1..Len(a)
      BY <1>0, <2>2
    <3>2. SubSeq(a \o b, 1, Len(a)) = SubSeq(a, 1, Len(a))
      BY <3>1, SubSeqOfConcat1
    <3> QED
      BY <3>2, SubSeqFull
  <2> QED
    BY <2>1, <2>2
<1>3. SubSeq(a \o b, Len(a) + 1, Len(a) + Len(b)) = b
  <2> DEFINE m == Len(a) + 1
             n == Len(a) + Len(b)
  <2>1. CASE Len(b) = 0
    <3>1. b = << >>
      BY <2>1, EmptySeq
    <3>2. n < m /\ m \in Int /\ n \in Int
      BY <1>0, <2>1
    <3> HIDE DEF m, n
    <3>3. SubSeq(a \o b, m, n) = << >>
      BY <3>2, SubSeqEmpty
    <3> QED
      BY <3>1, <3>3 DEF m, n
  <2>2. CASE Len(b) # 0
    <3>1. /\ m \in (Len(a) + 1)..(Len(a) + Len(b)) /\ n \in (Len(a) + 1)..(Len(a) + Len(b))
          /\ m - Len(a) = 1 /\ n - Len(a) = Len(b)
      BY <1>0, <2>2
    <3> HIDE DEF m, n
    <3>2. SubSeq(a \o b, m, n) = SubSeq(b, m - Len(a), n - Len(a))
      BY <3>1, SubSeqOfConcat2
    <3>3. SubSeq(b, 1, Len(b)) = b
      BY SubSeqFull
    <3> QED
      BY <3>1, <3>2, <3>3 DEF m, n
  <2> QED
    BY <2>1, <2>2
<1> QED
  BY <1>1, <1>2, <1>3

(* What follows a place, up to another place and from there on.            *)
LEMMA RestSplit ==
  ASSUME NEW T \in Seq(Nat), NEW c \in 1..(Len(T) + 1), NEW o \in c..(Len(T) + 1)
  PROVE  /\ SubSeq(T, c, Len(T)) = SubSeq(T, c, o - 1) \o SubSeq(T, o, Len(T))
         /\ SubSeq(T, c, Len(T)) \in Seq(Nat)
         /\ SubSeq(T, c, o - 1) \in Seq(Nat) /\ Len(SubSeq(T, c, o - 1)) = o - c
         /\ SubSeq(T, o, Len(T)) \in Seq(Nat) /\ Len(SubSeq(T, o, Len(T))) = Len(T) + 1 - o
<1> DEFINE k == o - 1
<1>0. Len(T) \in Nat
  BY LenProperties
<1>1. /\ k \in (c - 1)..Len(T) /\ Len(T) \in k..Len(T) /\ k + 1 = o
      /\ k \in 0..Len(T) /\ c <= k + 1 /\ k + 1 - c = o - c
      /\ o \in 1..(Len(T) + 1) /\ Len(T) \in 0..Len(T)
      /\ o <= Len(T) + 1 /\ c <= Len(T) + 1
  BY <1>0
<1> HIDE DEF k
<1>2. SubSeq(T, c, k) \o SubSeq(T, k + 1, Len(T)) = SubSeq(T, c, Len(T))
  BY <1>1, ConcatAdjacentSubSeq
<1>3. SubSeq(T, c, k) \in Seq(Nat) /\ Len(SubSeq(T, c, k)) = k + 1 - c
  BY <1>1, PartIs
<1>4. SubSeq(T, o, Len(T)) \in Seq(Nat) /\ Len(SubSeq(T, o, Len(T))) = Len(T) + 1 - o
  BY <1>1, PartIs
<1>5. SubSeq(T, c, Len(T)) \in Seq(Nat)
  BY <1>1, PartIs
<1> QED
  BY <1>1, <1>2, <1>3, <1>4, <1>5 DEF k

(* A text of which a part is done is cut at a place that is not done.      *)
LEMMA CutRest ==
  ASSUME NEW done \in Seq(Nat), NEW T \in Seq(Nat),
         NEW c \in 1..(Len(T) + 1), NEW o \in c..(Len(T) + 1),
         NEW text, text = done \o SubSeq(T, c, Len(T))
  PROVE  /\ Len(text) = Len(done) + Len(T) + 1 - c
         /\ SubSeq(text, 1, Len(done) + o - c) = done \o SubSeq(T, c, o - 1)
         /\ SubSeq(text, Len(done) + o - c + 1, Len(text)) = SubSeq(T, o, Len(T))
<1> DEFINE gap == SubSeq(T, c, o - 1)
           back == SubSeq(T, o, Len(T))
           front == done \o gap
<1>0. Len(T) \in Nat /\ Len(done) \in Nat
  BY LenProperties
<1>1. /\ SubSeq(T, c, Len(T)) = gap \o back
      /\ gap \in Seq(Nat) /\ Len(gap) = o - c
      /\ back \in Seq(Nat) /\ Len(back) = Len(T) + 1 - o
  BY RestSplit
<1> HIDE DEF gap, back
<1>2. front \in Seq(Nat) /\ Len(front) = Len(done) + (o - c)
  BY <1>1, PartsOfJoin
<1>3. text = front \o back
  <2>1. (done \o gap) \o back = done \o (gap \o back)
    BY <1>1, JoinOfThree
  <2> QED
    BY <1>1, <2>1
<1> HIDE DEF front
<1>4. /\ Len(text) = Len(front) + Len(back)
      /\ SubSeq(text, 1, Len(front)) = front
      /\ SubSeq(text, Len(front) + 1, Len(front) + Len(back)) = back
  <2>1. /\ Len(front \o back) = Len(front) + Len(back)
        /\ SubSeq(front \o back, 1, Len(front)) = front
        /\ SubSeq(front \o back, Len(front) + 1, Len(front) + Len(back)) = back
    BY <1>1, <1>2, PartsOfJoin
  <2> QED
    BY <1>3, <2>1
<1>5. /\ Len(front) = Len(done) + o - c /\ Len(front) + 1 = Len(done) + o - c + 1
      /\ Len(front) + Len(back) = Len(done) + Len(T) + 1 - c
  BY <1>0, <1>1, <1>2
<1> QED
  BY <1>4, <1>5 DEF front, gap, back

(* Text replaced by itself.                                                *)
LEMMA ReplacedByItself ==
  ASSUME NEW T \in Seq(Nat), NEW o \in 1..Len(T), NEW l \in Nat, o + l - 1 <= Len(T)
  PROVE  SubSeq(T, 1, o - 1) \o SubSeq(T, o, o + l - 1) \o SubSeq(T, o + l, Len(T)) = T
<1> DEFINE a == SubSeq(T, 1, o - 1)
           b == SubSeq(T, o, o + l - 1)
           d == SubSeq(T, o + l, Len(T))
           e == o + l
<1>0. Len(T) \in Nat
  BY LenProperties
<1>1. /\ 1 \in 1..(Len(T) + 1) /\ o \in 1..(Len(T) + 1)
      /\ e \in o..(Len(T) + 1) /\ e - 1 = o + l - 1
  BY <1>0
<1>2. SubSeq(T, 1, Len(T)) = a \o SubSeq(T, o, Len(T)) /\ a \in Seq(Nat)
  BY <1>1, RestSplit
<1>3. SubSeq(T, o, Len(T)) = b \o d /\ b \in Seq(Nat) /\ d \in Seq(Nat)
  <2> HIDE DEF e
  <2>1. /\ SubSeq(T, o, Len(T)) = SubSeq(T, o, e - 1) \o SubSeq(T, e, Len(T))
        /\ SubSeq(T, o, e - 1) \in Seq(Nat) /\ SubSeq(T, e, Len(T)) \in Seq(Nat)
    BY <1>1, RestSplit
  <2> QED
    BY <1>1, <2>1 DEF e
<1> HIDE DEF a, b, d
<1>4. (a \o b) \o d = a \o (b \o d)
  BY <1>2, <1>3, JoinOfThree
<1>5. SubSeq(T, 1, Len(T)) = T
  BY SubSeqFull
<1> QED
  BY <1>2, <1>3, <1>4, <1>5 DEF a, b, d
-----------------------------------------------------------------------------
(* A place in a text that is to be renamed, and that of a replacement.     *)
Place == [offset : Nat \ {0}, length : Nat \ {0}, text : Seq(Nat)]

PlaceOf(r) == [offset |-> r.offset, length |-> r.length, text |-> r.text]

(* Places of which none starts where another one does, all in the text.    *)
ArePlaces(M, T) ==
  /\ M \in SUBSET Place
  /\ \A m \in M : m.offset + m.length <= Len(T) + 1
  /\ \A m, q \in M : m.offset = q.offset => m = q

(* What becomes of a text from each of its positions on.                   *)
IsRenamedFrom(f, T, M) ==
  /\ f \in [1..(Len(T) + 1) -> Seq(Nat)]
  /\ f[Len(T) + 1] = << >>
  /\ \A m \in M : f[m.offset] = m.text \o f[m.offset + m.length]
  /\ \A p \in 1..Len(T) : (\A m \in M : m.offset # p) => f[p] = <<T[p]>> \o f[p + 1]

(* This is what Renamed computes.                                          *)
LEMMA RenamedIs ==
  ASSUME NEW T \in Seq(Nat), NEW M, ArePlaces(M, T)
  PROVE  \E f : IsRenamedFrom(f, T, M) /\ Renamed(T, M) = f[1]
<1> DEFINE L == Len(T)
           At(p) == CHOOSE r \in M : r.offset = p
           Val(f, p) == IF p > L THEN << >>
                        ELSE IF \E r \in M : r.offset = p
                             THEN At(p).text \o f[p + At(p).length]
                             ELSE <<T[p]>> \o f[p + 1]
           Tail1(n) == {p \in 1..(L + 1) : p + n > L}
           Solves(n, f) == f \in [Tail1(n) -> Seq(Nat)] /\ \A p \in Tail1(n) : f[p] = Val(f, p)
           P == {n \in Nat : \E f : Solves(n, f)}
<1>0. L \in Nat /\ \A p \in 1..L : T[p] \in Nat
  BY LenProperties, ElementOfSeq
<1> HIDE DEF L
<1>1. ASSUME NEW m \in M
      PROVE  /\ At(m.offset) = m /\ m \in Place /\ m.offset \in 1..L /\ m.length \in Nat \ {0}
             /\ m.text \in Seq(Nat) /\ m.offset + m.length <= L + 1
  <2>1. m \in Place /\ m.offset + m.length <= L + 1
    BY DEF ArePlaces, L
  <2>2. m.offset \in Nat \ {0} /\ m.length \in Nat \ {0} /\ m.text \in Seq(Nat)
    BY <2>1 DEF Place
  <2>3. At(m.offset) = m
    BY DEF ArePlaces
  <2> QED
    BY <1>0, <2>1, <2>2, <2>3
<1>2. 0 \in P
  <2> DEFINE g == [p \in Tail1(0) |-> << >>]
  <2>1. \A p \in Tail1(0) : p > L
    BY <1>0
  <2>2. Solves(0, g)
    BY <2>1
  <2> HIDE DEF Solves
  <2> QED
    BY <2>2
<1>3. ASSUME NEW n \in P PROVE n + 1 \in P
  <2>0. n \in Nat
    OBVIOUS
  <2>1. PICK g : Solves(n, g)
    <3> HIDE DEF Solves
    <3> QED
      OBVIOUS
  <2> DEFINE h == [p \in Tail1(n + 1) |-> IF p \in Tail1(n) THEN g[p] ELSE Val(g, p)]
  <2>2. \A p \in Tail1(n) : p \in Tail1(n + 1) /\ h[p] = g[p] /\ g[p] \in Seq(Nat)
    BY <1>0, <2>0, <2>1
  <2>3. ASSUME NEW p \in Tail1(n + 1), p <= L
        PROVE  /\ p \in 1..L /\ p + 1 \in Tail1(n)
               /\ \A m \in M : m.offset = p => p + m.length \in Tail1(n)
    <3>1. p \in 1..L
      BY <1>0, <2>3
    <3>2. p + 1 \in Tail1(n)
      BY <1>0, <2>0, <2>3
    <3>3. ASSUME NEW m \in M, m.offset = p PROVE p + m.length \in Tail1(n)
      <4>1. m.length \in Nat \ {0} /\ p + m.length <= L + 1
        BY <1>1, <3>3
      <4> QED
        BY <1>0, <2>0, <2>3, <4>1
    <3> QED
      BY <3>1, <3>2, <3>3
  <2> HIDE DEF Tail1
  <2>4. ASSUME NEW p \in Tail1(n + 1) PROVE Val(h, p) = Val(g, p) /\ Val(g, p) \in Seq(Nat)
    <3>0. p \in 1..(L + 1)
      BY DEF Tail1
    <3>1. CASE p > L
      BY <3>1
    <3>2. CASE ~(p > L) /\ \E r \in M : r.offset = p
      <4>1. PICK m \in M : m.offset = p
        BY <3>2
      <4>2. At(p) = m /\ m.text \in Seq(Nat)
        BY <1>1, <4>1
      <4>3. p + m.length \in Tail1(n)
        BY <1>0, <2>3, <3>0, <3>2, <4>1
      <4>4. /\ h[p + m.length] = g[p + m.length] /\ g[p + m.length] \in Seq(Nat)
        BY <2>2, <4>3
      <4> HIDE DEF h, At
      <4>5. Val(h, p) = m.text \o h[p + m.length] /\ Val(g, p) = m.text \o g[p + m.length]
        BY <3>2, <4>2
      <4>6. m.text \o g[p + m.length] \in Seq(Nat)
        BY <4>2, <4>4, ConcatProperties
      <4> QED
        BY <4>4, <4>5, <4>6
    <3>3. CASE ~(p > L) /\ ~\E r \in M : r.offset = p
      <4>1. p \in 1..L /\ p + 1 \in Tail1(n)
        BY <1>0, <2>3, <3>0, <3>3
      <4>2. h[p + 1] = g[p + 1] /\ g[p + 1] \in Seq(Nat)
        BY <2>2, <4>1
      <4> HIDE DEF h
      <4>3. Val(h, p) = <<T[p]>> \o h[p + 1] /\ Val(g, p) = <<T[p]>> \o g[p + 1]
        BY <3>3
      <4>4. <<T[p]>> \in Seq(Nat)
        BY <1>0, <4>1
      <4>5. <<T[p]>> \o g[p + 1] \in Seq(Nat)
        BY <4>2, <4>4, ConcatProperties
      <4> QED
        BY <4>2, <4>3, <4>5
    <3> QED
      BY <3>1, <3>2, <3>3
  <2>5. ASSUME NEW p \in Tail1(n + 1) PROVE h[p] = Val(h, p) /\ h[p] \in Seq(Nat)
    <3>1. CASE p \in Tail1(n)
      <4>1. g[p] = Val(g, p) /\ h[p] = g[p]
        BY <2>1, <2>2, <3>1
      <4> HIDE DEF h, Val
      <4> QED
        BY <2>4, <4>1
    <3>2. CASE p \notin Tail1(n)
      <4>1. h[p] = Val(g, p)
        BY <3>2
      <4> HIDE DEF h, Val
      <4> QED
        BY <2>4, <4>1
    <3> QED
      BY <3>1, <3>2
  <2>6. h \in [Tail1(n + 1) -> Seq(Nat)]
    <3>1. h = [p \in Tail1(n + 1) |-> h[p]]
      OBVIOUS
    <3> HIDE DEF h
    <3> QED
      BY <2>5, <3>1
  <2> HIDE DEF h, Val
  <2>7. Solves(n + 1, h)
    BY <2>5, <2>6
  <2> HIDE DEF Solves
  <2> QED
    BY <2>0, <2>7
<1>4. \A n \in Nat : n \in P
  <2>1. P \in SUBSET Nat
    OBVIOUS
  <2> HIDE DEF P
  <2> QED
    BY <1>2, <1>3, <2>1, InductionOnSet
<1>5. PICK f : f \in [1..(L + 1) -> Seq(Nat)] /\ \A p \in 1..(L + 1) : f[p] = Val(f, p)
  <2>1. L + 1 \in P
    <3>1. L + 1 \in Nat
      BY <1>0
    <3> HIDE DEF P
    <3> QED
      BY <1>4, <3>1
  <2>2. PICK f : Solves(L + 1, f)
    <3> HIDE DEF Solves
    <3> QED
      BY <2>1
  <2>3. Tail1(L + 1) = 1..(L + 1)
    BY <1>0
  <2> HIDE DEF Tail1, Val
  <2> QED
    BY <2>2, <2>3
<1> DEFINE IsF(g) == g = [p \in 1..(L + 1) |-> Val(g, p)]
           r == CHOOSE g : IsF(g)
<1>6. IsF(f)
  <2> HIDE DEF Val
  <2> QED
    BY <1>5
<1>7. IsF(r)
  <2> HIDE DEF IsF
  <2> QED
    BY <1>6
<1>8. Renamed(T, M) = r[1]
  BY DEF Renamed, L
<1> HIDE DEF r
<1>9. \A p \in 1..(L + 1) : r[p] = Val(r, p)
  <2> HIDE DEF Val
  <2> QED
    BY <1>7
<1> DEFINE Q == {k \in Nat : \A p \in 1..(L + 1) : p + k > L => r[p] = f[p]}
<1>10. \A n \in Nat : n \in Q
  <2>1. Q \in SUBSET Nat
    OBVIOUS
  <2>2. 0 \in Q
    <3> SUFFICES ASSUME NEW p \in 1..(L + 1), p + 0 > L PROVE r[p] = f[p]
      OBVIOUS
    <3>1. p > L
      BY <1>0
    <3> QED
      BY <1>5, <1>9, <3>1
  <2>3. ASSUME NEW k \in Q PROVE k + 1 \in Q
    <3> SUFFICES ASSUME NEW p \in 1..(L + 1), p + (k + 1) > L PROVE r[p] = f[p]
      OBVIOUS
    <3>0. k \in Nat /\ \A q \in 1..(L + 1) : q + k > L => r[q] = f[q]
      OBVIOUS
    <3>1. CASE p > L
      BY <1>5, <1>9, <3>1
    <3>2. CASE ~(p > L) /\ \E m \in M : m.offset = p
      <4>1. PICK m \in M : m.offset = p
        BY <3>2
      <4>2. /\ At(p) = m /\ m.length \in Nat \ {0} /\ p + m.length <= L + 1
        BY <1>1, <4>1
      <4>3. p + m.length \in 1..(L + 1) /\ (p + m.length) + k > L
        BY <1>0, <3>0, <4>2
      <4>4. r[p + m.length] = f[p + m.length]
        BY <3>0, <4>3
      <4> HIDE DEF At, Q
      <4>5. r[p] = m.text \o r[p + m.length] /\ f[p] = m.text \o f[p + m.length]
        BY <1>5, <1>9, <3>2, <4>2
      <4> QED
        BY <4>4, <4>5
    <3>3. CASE ~(p > L) /\ ~\E m \in M : m.offset = p
      <4>1. p + 1 \in 1..(L + 1) /\ (p + 1) + k > L
        BY <1>0, <3>0, <3>3
      <4>2. r[p + 1] = f[p + 1]
        BY <3>0, <4>1
      <4> HIDE DEF Q
      <4>3. r[p] = <<T[p]>> \o r[p + 1] /\ f[p] = <<T[p]>> \o f[p + 1]
        BY <1>5, <1>9, <3>3
      <4> QED
        BY <4>2, <4>3
    <3> QED
      BY <3>1, <3>2, <3>3
  <2> HIDE DEF Q
  <2> QED
    BY <2>1, <2>2, <2>3, InductionOnSet
<1>11. r[1] = f[1]
  <2>1. 1 \in 1..(L + 1) /\ 1 + L > L
    BY <1>0
  <2>2. L \in Q
    <3> HIDE DEF Q
    <3> QED
      BY <1>0, <1>10
  <2> QED
    BY <2>1, <2>2
<1>12. ASSUME NEW m \in M PROVE f[m.offset] = m.text \o f[m.offset + m.length]
  <2>1. At(m.offset) = m /\ m.offset \in 1..(L + 1) /\ ~(m.offset > L)
    BY <1>0, <1>1
  <2> HIDE DEF At
  <2> QED
    BY <1>5, <2>1
<1>13. ASSUME NEW p \in 1..L, \A m \in M : m.offset # p PROVE f[p] = <<T[p]>> \o f[p + 1]
  <2>1. p \in 1..(L + 1) /\ ~(p > L)
    BY <1>0
  <2> QED
    BY <1>5, <1>13, <2>1
<1>14. f[L + 1] = << >>
  <2>1. L + 1 \in 1..(L + 1) /\ L + 1 > L
    BY <1>0
  <2> QED
    BY <1>5, <2>1
<1>15. IsRenamedFrom(f, T, M)
  BY <1>5, <1>12, <1>13, <1>14 DEF IsRenamedFrom, L
<1> QED
  BY <1>8, <1>11, <1>15
-----------------------------------------------------------------------------
(* Where nothing is to be renamed the text stays.                          *)
LEMMA RenamedGap ==
  ASSUME NEW T \in Seq(Nat), NEW M, NEW f, IsRenamedFrom(f, T, M),
         NEW c \in 1..(Len(T) + 1), NEW o \in c..(Len(T) + 1),
         \A m \in M : ~(c <= m.offset /\ m.offset < o)
  PROVE  f[c] = SubSeq(T, c, o - 1) \o f[o]
<1> DEFINE L == Len(T)
           Gap(p) == f[p] = SubSeq(T, p, o - 1) \o f[o]
           Q == {k \in Nat : \A p \in c..o : p + k = o => Gap(p)}
<1>0. L \in Nat /\ \A p \in 1..L : T[p] \in Nat
  BY LenProperties, ElementOfSeq
<1> HIDE DEF L
<1>1. /\ c \in 1..(L + 1) /\ o \in c..(L + 1)
      /\ f \in [1..(L + 1) -> Seq(Nat)]
      /\ \A p \in 1..L : (\A m \in M : m.offset # p) => f[p] = <<T[p]>> \o f[p + 1]
  BY DEF IsRenamedFrom, L
<1>2. f[o] \in Seq(Nat)
  BY <1>0, <1>1
<1>3. 0 \in Q
  <2> SUFFICES ASSUME NEW p \in c..o, p + 0 = o PROVE Gap(p)
    OBVIOUS
  <2>1. p = o
    BY <1>0, <1>1
  <2>2. SubSeq(T, o, o - 1) = << >>
    <3> DEFINE k == o - 1
    <3>1. k \in Int /\ o \in Int /\ k < o
      BY <1>0, <1>1
    <3> HIDE DEF k
    <3> QED
      BY <3>1, SubSeqEmpty DEF k
  <2>3. << >> \o f[o] = f[o]
    BY <1>2, ConcatEmptySeq
  <2> QED
    BY <2>1, <2>2, <2>3
<1>4. ASSUME NEW k \in Q PROVE k + 1 \in Q
  <2> SUFFICES ASSUME NEW p \in c..o, p + (k + 1) = o PROVE Gap(p)
    <3> HIDE DEF Gap
    <3> QED
      OBVIOUS
  <2>1. k \in Nat /\ p + 1 \in c..o /\ (p + 1) + k = o /\ p < o
    BY <1>0, <1>1
  <2>2. f[p + 1] = SubSeq(T, p + 1, o - 1) \o f[o]
    BY <2>1
  <2>3. p \in 1..L /\ p \in c..(o - 1) /\ o - 1 \in p..L
    BY <1>0, <1>1, <2>1
  <2>4. \A m \in M : m.offset # p
    BY <2>3
  <2>5. f[p] = <<T[p]>> \o f[p + 1]
    BY <1>1, <2>3, <2>4
  <2> DEFINE e == o - 1
             rest == SubSeq(T, p + 1, e)
  <2>6. SubSeq(T, p, e) = <<T[p]>> \o rest
    <3>1. p \in 1..Len(T) /\ e \in p..Len(T)
      BY <2>3 DEF L
    <3> HIDE DEF e
    <3> QED
      BY <3>1, SubSeqRecursiveFirst
  <2>7. rest \in Seq(Nat)
    <3> DEFINE i == p + 1
    <3>1. e \in 0..Len(T) /\ i \in 1..(Len(T) + 1) /\ i <= e + 1
      BY <1>0, <2>3 DEF L
    <3> HIDE DEF e, i
    <3>2. SubSeq(T, i, e) \in Seq(Nat)
      BY <3>1, PartIs
    <3> QED
      BY <3>2 DEF i
  <2>8. <<T[p]>> \in Seq(Nat)
    BY <1>0, <2>3
  <2> HIDE DEF rest
  <2>9. (<<T[p]>> \o rest) \o f[o] = <<T[p]>> \o (rest \o f[o])
    BY <1>2, <2>7, <2>8, JoinOfThree
  <2> QED
    BY <2>2, <2>5, <2>6, <2>9 DEF rest
<1>5. \A n \in Nat : n \in Q
  <2>1. Q \in SUBSET Nat
    OBVIOUS
  <2> HIDE DEF Q
  <2> QED
    BY <1>3, <1>4, <2>1, InductionOnSet
<1>6. o - c \in Nat /\ c \in c..o /\ c + (o - c) = o
  BY <1>0, <1>1
<1>7. o - c \in Q
  <2> HIDE DEF Q
  <2> QED
    BY <1>5, <1>6
<1> QED
  BY <1>6, <1>7

(* A place behind all that is done is replaced where it is now ...         *)
LEMMA ReplacedBehind ==
  ASSUME NEW T \in Seq(Nat), NEW done \in Seq(Nat), NEW b \in Buffer, NEW r \in Item,
         NEW c \in 1..(Len(T) + 1), r.offset >= c, r.offset + r.length <= Len(T) + 1,
         b.text = done \o SubSeq(T, c, Len(T)),
         Moved(r.offset, b.deltas) = r.offset + (Len(done) - (c - 1))
  PROVE  ReplaceText(b, r) =
           [text |-> ((done \o SubSeq(T, c, r.offset - 1)) \o r.text)
                       \o SubSeq(T, r.offset + r.length, Len(T)),
            deltas |-> Append(b.deltas, <<r.offset, Len(r.text) - r.length>>)]
<1> DEFINE L == Len(T)
           text == b.text
           o == r.offset
           l == r.length
           e == o + l
           moved == Moved(o, b.deltas)
           n == Len(text) + 1
           at == Max({1, Min({moved, n})})
<1>0. /\ L \in Nat /\ Len(done) \in Nat /\ text \in Seq(Nat) /\ Len(text) \in Nat
      /\ o \in Nat \ {0} /\ l \in Nat \ {0} /\ r.text \in Seq(Nat)
  BY LenProperties DEF Buffer, Item
<1>1. /\ o \in c..(L + 1) /\ e \in c..(L + 1) /\ c \in 1..(L + 1)
  BY <1>0
<1>2. /\ Len(text) = Len(done) + L + 1 - c
      /\ SubSeq(text, 1, Len(done) + o - c) = done \o SubSeq(T, c, o - 1)
  <2>1. text = done \o SubSeq(T, c, Len(T)) /\ o \in c..(Len(T) + 1)
    BY <1>1
  <2> HIDE DEF text, o
  <2> QED
    BY <2>1, CutRest
<1>3. SubSeq(text, Len(done) + e - c + 1, Len(text)) = SubSeq(T, e, L)
  <2>1. text = done \o SubSeq(T, c, Len(T)) /\ e \in c..(Len(T) + 1)
    BY <1>1
  <2> HIDE DEF e, text
  <2> QED
    BY <2>1, CutRest
<1>4. moved = Len(done) + o - c + 1
  BY <1>0, <1>1
<1>5. at = Len(done) + o - c + 1
  <2>1. moved \in Int /\ n \in Int /\ moved <= n /\ moved >= 1
    <3> HIDE DEF moved, text, L, o, l
    <3> QED
      BY <1>0, <1>1, <1>2, <1>4
  <2> HIDE DEF moved, n
  <2>2. Min({moved, n}) = moved
    BY <2>1, MaxMinOfTwo
  <2>3. Max({1, moved}) = moved
    BY <2>1, MaxMinOfTwo
  <2> QED
    BY <1>4, <2>2, <2>3
<1>6. ReplaceText(b, r) = [text |-> SubSeq(text, 1, at - 1) \o r.text
                                      \o SubSeq(text, at + l, Len(text)),
                           deltas |-> Append(b.deltas, <<o, Len(r.text) - l>>)]
  BY DEF ReplaceText
<1> HIDE DEF at
<1>7. at - 1 = Len(done) + o - c /\ at + l = Len(done) + e - c + 1
  <2> HIDE DEF o, l
  <2> QED
    BY <1>0, <1>1, <1>5
<1> HIDE DEF text
<1> QED
  BY <1>2, <1>3, <1>6, <1>7

(* ... and one where the text is there already changes nothing.            *)
LEMMA ReplacedAgain ==
  ASSUME NEW b \in Buffer, NEW r \in Item,
         r.offset + r.length <= Len(b.text) + 1,
         Moved(r.offset, b.deltas) = r.offset,
         SubSeq(b.text, r.offset, r.offset + r.length - 1) = r.text
  PROVE  ReplaceText(b, r) =
           [text |-> b.text,
            deltas |-> Append(b.deltas, <<r.offset, Len(r.text) - r.length>>)]
<1> DEFINE text == b.text
           o == r.offset
           l == r.length
           n == Len(text) + 1
           at == Max({1, Min({Moved(o, b.deltas), n})})
<1>0. /\ text \in Seq(Nat) /\ Len(text) \in Nat
      /\ o \in Nat \ {0} /\ l \in Nat \ {0} /\ r.text \in Seq(Nat)
  BY LenProperties DEF Buffer, Item
<1>1. at = o
  <2>1. o \in Int /\ n \in Int /\ o <= n /\ o >= 1
    BY <1>0
  <2> HIDE DEF o, n
  <2>2. Min({o, n}) = o
    BY <2>1, MaxMinOfTwo
  <2>3. Max({1, o}) = o
    BY <2>1, MaxMinOfTwo
  <2>4. Moved(o, b.deltas) = o
    BY DEF o
  <2> QED
    BY <2>2, <2>3, <2>4
<1>2. ReplaceText(b, r) = [text |-> SubSeq(text, 1, at - 1) \o r.text
                                      \o SubSeq(text, at + l, Len(text)),
                           deltas |-> Append(b.deltas, <<o, Len(r.text) - l>>)]
  BY DEF ReplaceText
<1> HIDE DEF at
<1>3. o \in 1..Len(text) /\ l \in Nat /\ o + l - 1 <= Len(text)
  BY <1>0
<1>4. SubSeq(text, 1, o - 1) \o SubSeq(text, o, o + l - 1) \o SubSeq(text, o + l, Len(text)) = text
  <2> HIDE DEF text, o, l
  <2> QED
    BY <1>0, <1>3, ReplacedByItself
<1> QED
  BY <1>1, <1>2, <1>4
-----------------------------------------------------------------------------
(* Replacements for a text of which no two want one place ...              *)
AreApart(R) ==
  \A a, b \in R :
    \/ PlaceOf(a) = PlaceOf(b)
    \/ a.offset + a.length <= b.offset
    \/ b.offset + b.length <= a.offset

KeepLength(R) == \A r \in R : Len(r.text) = r.length

(* ... that are in the text, and differ in more than the path unless they  *)
(* keep its length.                                                        *)
FitText(R, T) ==
  /\ R \in SUBSET Item /\ AreApart(R)
  /\ \A r \in R : r.offset + r.length <= Len(T) + 1
  /\ (\A a, b \in R : a.path = b.path) \/ KeepLength(R)

(* All of them, in their order.                                            *)
InOrder(s, R) ==
  /\ s \in Seq(R)
  /\ \A r \in R : \E i \in 1..Len(s) : s[i] = r
  /\ \A i, j \in 1..Len(s) : i < j => Before(s[i], s[j])

(* The end of the place the rewriter was at.                               *)
Cut(s, n) == IF n = 0 THEN 1 ELSE s[n].offset + s[n].length

(* What it has done so far: the text in front of it, with offsets behind   *)
(* moved by what that text has grown.                                      *)
IsDone(done, n, s, R, T, b, f) ==
  /\ done \in Seq(Nat)
  /\ b[n].text = done \o SubSeq(T, Cut(s, n), Len(T))
  /\ done \o f[Cut(s, n)] = f[1]
  /\ \A o \in Nat : o >= Cut(s, n) =>
       Moved(o, b[n].deltas) = o + (Len(done) - (Cut(s, n) - 1))
  /\ KeepLength(R) =>
       /\ Len(done) = Cut(s, n) - 1
       /\ \A o \in Nat : Moved(o, b[n].deltas) = o
       /\ \A i \in 1..n : /\ Cut(s, i) <= Cut(s, n)
                          /\ SubSeq(done, s[i].offset, Cut(s, i) - 1) = s[i].text

(* It starts with nothing done.                                            *)
LEMMA DoneAtFirst ==
  ASSUME NEW T \in Seq(Nat), NEW R, NEW s \in Seq(Item), NEW b, IsRewriting(T, s, b),
         NEW f, f[1] \in Seq(Nat)
  PROVE  IsDone(<< >>, 0, s, R, T, b, f)
<1>1. b[0].text = T /\ b[0].deltas = << >> /\ Cut(s, 0) = 1 /\ Len(<< >>) = 0
  BY DEF IsRewriting, Cut
<1>2. << >> \o SubSeq(T, 1, Len(T)) = T
  BY SubSeqFull, ConcatEmptySeq
<1>3. << >> \o f[1] = f[1]
  BY ConcatEmptySeq
<1>4. ASSUME NEW o \in Nat PROVE Moved(o, << >>) = o
  <2>1. << >> \in Seq(Delta) /\ <<0, 0>> \in Delta
    BY DEF Delta
  <2> QED
    BY <2>1, MovedAppend
<1>5. \A o \in Nat : o = o + (0 - (1 - 1))
  OBVIOUS
<1> QED
  BY <1>1, <1>2, <1>3, <1>4, <1>5 DEF IsDone

(* What sorted replacements of one place after the other are.              *)
LEMMA NextPlace ==
  ASSUME NEW T \in Seq(Nat), NEW R, FitText(R, T), NEW s, InOrder(s, R),
         NEW n \in Nat, n + 1 \in 1..Len(s)
  PROVE  /\ s[n + 1] \in R /\ s[n + 1] \in Item
         /\ \/ /\ s[n + 1].offset >= Cut(s, n)
               /\ \A r \in R : ~(Cut(s, n) <= r.offset /\ r.offset < s[n + 1].offset)
            \/ /\ n # 0 /\ s[n] \in R /\ KeepLength(R)
               /\ PlaceOf(s[n]) = PlaceOf(s[n + 1])
<1> DEFINE r == s[n + 1]
<1>0. /\ Len(s) \in Nat /\ \A i \in 1..Len(s) : s[i] \in R
      /\ \A i \in R : i \in Item
  BY LenProperties, ElementOfSeq DEF InOrder, FitText
<1>1. \A i \in 1..Len(s) : /\ s[i].offset \in Nat \ {0} /\ s[i].length \in Nat \ {0}
  BY <1>0 DEF Item
<1>2. r \in R /\ r \in Item
  BY <1>0
<1>3. ASSUME NEW i \in 1..Len(s), NEW j \in 1..Len(s), i <= j
      PROVE  s[i].offset <= s[j].offset
  <2>1. CASE i = j
    BY <1>1, <2>1
  <2>2. CASE i < j
    <3>1. Before(s[i], s[j])
      BY <2>2 DEF InOrder
    <3> QED
      BY <1>1, <3>1 DEF Before
  <2> QED
    BY <1>0, <1>3, <2>1, <2>2
<1>4. CASE r.offset >= Cut(s, n)
  <2>1. ASSUME NEW q \in R PROVE ~(Cut(s, n) <= q.offset /\ q.offset < r.offset)
    <3>1. PICK k \in 1..Len(s) : s[k] = q
      BY DEF InOrder
    <3>2. CASE k <= n
      <4>1. n \in 1..Len(s) /\ n # 0
        BY <1>0, <3>2
      <4>2. s[k].offset <= s[n].offset
        BY <1>3, <3>2, <4>1
      <4>3. s[k].offset < Cut(s, n)
        BY <1>1, <4>1, <4>2 DEF Cut
      <4>4. Cut(s, n) \in Nat
        BY <1>1, <4>1 DEF Cut
      <4> QED
        BY <1>1, <3>1, <4>3, <4>4
    <3>3. CASE ~(k <= n)
      <4>1. n + 1 <= k
        BY <1>0, <3>3
      <4>2. r.offset <= s[k].offset
        BY <1>3, <4>1
      <4> QED
        BY <1>1, <3>1, <4>2
    <3> QED
      BY <3>2, <3>3
  <2> QED
    BY <1>2, <1>4, <2>1
<1>5. CASE ~(r.offset >= Cut(s, n))
  <2>1. n # 0
    <3> SUFFICES ASSUME n = 0 PROVE FALSE
      OBVIOUS
    <3>1. Cut(s, n) = 1 /\ r.offset \in Nat \ {0}
      BY <1>1 DEF Cut
    <3> QED
      BY <1>5, <3>1
  <2>2. n \in 1..Len(s) /\ n <= n + 1 /\ n < n + 1 /\ s[n] \in R
    BY <1>0, <2>1
  <2>3. s[n].offset <= r.offset /\ r.offset < s[n].offset + s[n].length
    BY <1>1, <1>3, <1>5, <2>1, <2>2 DEF Cut
  <2>4. PlaceOf(s[n]) = PlaceOf(r)
    <3>1. \/ PlaceOf(s[n]) = PlaceOf(r)
          \/ s[n].offset + s[n].length <= r.offset
          \/ r.offset + r.length <= s[n].offset
      BY <1>2, <2>2 DEF FitText, AreApart
    <3>2. /\ s[n].offset \in Nat /\ s[n].length \in Nat
          /\ r.offset \in Nat /\ r.length \in Nat \ {0}
      BY <1>1, <2>2
    <3> DEFINE so == s[n].offset
               sl == s[n].length
               ro == r.offset
               rl == r.length
    <3>3. /\ so <= ro /\ ro < so + sl
          /\ so \in Nat /\ sl \in Nat /\ ro \in Nat /\ rl \in Nat \ {0}
      BY <2>3, <3>2
    <3> HIDE DEF so, sl, ro, rl
    <3>4. ~(so + sl <= ro) /\ ~(ro + rl <= so)
      BY <3>3
    <3> USE DEF so, sl, ro, rl
    <3> QED
      BY <3>1, <3>4
  <2>5. KeepLength(R)
    <3> SUFFICES ASSUME \A a, q \in R : a.path = q.path PROVE FALSE
      BY DEF FitText
    <3>1. s[n].path = r.path
      BY <1>2, <2>2
    <3>2. Before(s[n], r)
      BY <2>2 DEF InOrder
    <3>3. s[n].offset = r.offset /\ s[n].length = r.length /\ s[n].text = r.text
      BY <2>4 DEF PlaceOf
    <3>4. s[n] \in Item /\ r \in Item
      BY <1>0, <1>2, <2>2
    <3>5. s[n] = r
      <4> DEFINE u == s[n]
      <4> HIDE DEF u, r
      <4>1. u \in Item /\ r \in Item /\ u.path = r.path /\ u.offset = r.offset
            /\ u.length = r.length /\ u.text = r.text
        BY <3>1, <3>3, <3>4 DEF u
      <4>2. /\ u = [path |-> u.path, offset |-> u.offset, length |-> u.length, text |-> u.text]
            /\ r = [path |-> r.path, offset |-> r.offset, length |-> r.length, text |-> r.text]
        BY <4>1 DEF Item
      <4>3. u = r
        BY <4>1, <4>2
      <4> QED
        BY <4>3 DEF u
    <3>6. ~Before(r, r)
      BY <3>4, BeforeIsOrder
    <3> QED
      BY <3>2, <3>5, <3>6
  <2> QED
    BY <1>2, <2>1, <2>2, <2>4, <2>5
<1> QED
  BY <1>4, <1>5
-----------------------------------------------------------------------------
(* What is to be renamed is wanted by a replacement, and what is wanted is *)
(* to be renamed or has the new name already.                              *)
AreWanted(M, R, T) ==
  /\ M \in SUBSET {PlaceOf(r) : r \in R}
  /\ \A r \in R : PlaceOf(r) \in M
                  \/ SubSeq(T, r.offset, r.offset + r.length - 1) = r.text

(* The rewriter never stops behind the end of the text.                    *)
LEMMA CutInText ==
  ASSUME NEW T \in Seq(Nat), NEW R, FitText(R, T), NEW s, InOrder(s, R),
         NEW n \in 0..Len(s)
  PROVE  Cut(s, n) \in 1..(Len(T) + 1)
<1>1. Len(T) \in Nat /\ Len(s) \in Nat
  BY LenProperties DEF InOrder
<1>2. CASE n = 0
  BY <1>1, <1>2 DEF Cut
<1>3. CASE n # 0
  <2>1. s[n] \in R
    BY <1>1, <1>3, ElementOfSeq DEF InOrder
  <2>2. s[n].offset \in Nat \ {0} /\ s[n].length \in Nat \ {0}
    BY <2>1 DEF FitText, Item
  <2>3. s[n].offset + s[n].length <= Len(T) + 1
    BY <2>1 DEF FitText
  <2> QED
    BY <1>1, <1>3, <2>2, <2>3 DEF Cut
<1> QED
  BY <1>2, <1>3

(* What becomes of a text from a place on that a replacement wants.        *)
RenamesAt(f, r) == f[r.offset] = r.text \o f[r.offset + r.length]

(* It is the new name and what becomes of the text behind the place.       *)
LEMMA RenamedAt ==
  ASSUME NEW T \in Seq(Nat), NEW R, FitText(R, T), NEW M, AreWanted(M, R, T),
         NEW f, IsRenamedFrom(f, T, M), NEW r \in R
  PROVE  RenamesAt(f, r)
<1> DEFINE o == r.offset
           e == o + r.length
<1>0. /\ Len(T) \in Nat /\ o \in Nat \ {0} /\ r.length \in Nat \ {0}
      /\ e <= Len(T) + 1
  BY LenProperties DEF FitText, Item
<1>1. CASE PlaceOf(r) \in M
  <2> DEFINE m == PlaceOf(r)
  <2>1. m.offset = o /\ m.length = r.length /\ m.text = r.text
    BY DEF PlaceOf
  <2> HIDE DEF m
  <2>2. m \in M
    BY <1>1 DEF m
  <2>3. f[m.offset] = m.text \o f[m.offset + m.length]
    BY <2>2 DEF IsRenamedFrom
  <2> QED
    BY <2>1, <2>3 DEF RenamesAt
<1>2. CASE PlaceOf(r) \notin M
  <2>0. \A q \in R : PlaceOf(q) \in M
                      \/ SubSeq(T, q.offset, q.offset + q.length - 1) = q.text
    BY DEF AreWanted
  <2>1. SubSeq(T, o, e - 1) = r.text
    <3>1. e - 1 = o + r.length - 1
      BY <1>0
    <3> HIDE DEF o, e
    <3>2. SubSeq(T, o, o + r.length - 1) = r.text
      BY <1>2, <2>0 DEF o
    <3> QED
      BY <3>1, <3>2
  <2>2. ASSUME NEW m \in M, o <= m.offset, m.offset < e PROVE FALSE
    <3>1. PICK q \in R : m = PlaceOf(q)
      BY DEF AreWanted
    <3>2. PlaceOf(q) # PlaceOf(r)
      BY <1>2, <3>1
    <3>3. q.offset + q.length <= r.offset \/ r.offset + r.length <= q.offset
      BY <3>2 DEF FitText, AreApart
    <3>4. q.offset \in Nat /\ q.length \in Nat \ {0} /\ m.offset = q.offset
      BY <3>1 DEF FitText, Item, PlaceOf
    <3> QED
      BY <1>0, <2>2, <3>3, <3>4
  <2>3. o \in 1..(Len(T) + 1) /\ e \in o..(Len(T) + 1)
    BY <1>0
  <2>4. f[o] = SubSeq(T, o, e - 1) \o f[e]
    <3> HIDE DEF o, e
    <3> QED
      BY <2>2, <2>3, RenamedGap
  <2> QED
    BY <2>1, <2>4 DEF RenamesAt
<1> QED
  BY <1>1, <1>2

(* A place behind all that is done ...                                     *)
LEMMA DoneBehind ==
  ASSUME NEW T \in Seq(Nat), NEW R, FitText(R, T), NEW s, InOrder(s, R),
         NEW b, IsRewriting(T, s, b), NEW M, AreWanted(M, R, T),
         NEW f, IsRenamedFrom(f, T, M),
         NEW n \in Nat, n + 1 \in 1..Len(s), NEW done, IsDone(done, n, s, R, T, b, f),
         s[n + 1].offset >= Cut(s, n),
         \A r \in R : ~(Cut(s, n) <= r.offset /\ r.offset < s[n + 1].offset)
  PROVE  IsDone((done \o SubSeq(T, Cut(s, n), s[n + 1].offset - 1)) \o s[n + 1].text,
                n + 1, s, R, T, b, f)
<1> DEFINE r == s[n + 1]
           o == r.offset
           l == r.length
           c == Cut(s, n)
           e == Cut(s, n + 1)
           gap == SubSeq(T, c, o - 1)
           front == done \o gap
           more == front \o r.text
           old == b[n]
           new == b[n + 1]
           L == Len(T)
<1>0. /\ L \in Nat /\ Len(s) \in Nat /\ n \in 0..Len(s) /\ n + 1 \in 0..Len(s)
      /\ n + 1 # 0 /\ (n + 1) - 1 = n
  BY LenProperties DEF InOrder
<1>1. r \in R /\ r \in Item
  BY NextPlace
<1>2. /\ o \in Nat \ {0} /\ l \in Nat \ {0} /\ r.text \in Seq(Nat) /\ Len(r.text) \in Nat
  BY <1>1, LenProperties DEF Item
<1>3. e = o + l /\ c \in 1..(L + 1) /\ e \in 1..(L + 1)
  BY <1>0, CutInText DEF Cut
<1>4. o \in c..(L + 1) /\ e <= L + 1 /\ o >= c
  BY <1>0, <1>2, <1>3
<1>5. /\ done \in Seq(Nat) /\ Len(done) \in Nat
      /\ old.text = done \o SubSeq(T, c, L) /\ done \o f[c] = f[1]
      /\ \A p \in Nat : p >= c => Moved(p, old.deltas) = p + (Len(done) - (c - 1))
      /\ KeepLength(R) =>
           /\ Len(done) = c - 1
           /\ \A p \in Nat : Moved(p, old.deltas) = p
           /\ \A i \in 1..n : /\ Cut(s, i) <= c
                              /\ SubSeq(done, s[i].offset, Cut(s, i) - 1) = s[i].text
  BY LenProperties DEF IsDone
<1>6. old \in Buffer /\ old.deltas \in Seq(Delta) /\ new = ReplaceText(old, r)
  <2>1. old \in Buffer /\ new = ReplaceText(b[(n + 1) - 1], r)
    BY <1>0 DEF IsRewriting
  <2> QED
    BY <1>0, <2>1 DEF Buffer
<1>7. f[c] \in Seq(Nat) /\ f[o] \in Seq(Nat) /\ f[e] \in Seq(Nat)
  <2>1. f \in [1..(L + 1) -> Seq(Nat)] /\ o \in 1..(L + 1)
    BY <1>3, <1>4 DEF IsRenamedFrom
  <2> HIDE DEF c, o, e, L
  <2> QED
    BY <1>3, <2>1
<1>8. /\ \A q \in R : ~(c <= q.offset /\ q.offset < o)
      /\ r.offset + r.length <= Len(T) + 1
  BY <1>3, <1>4
<1>9. gap \in Seq(Nat) /\ Len(gap) = o - c
  <2> HIDE DEF c, o
  <2> QED
    BY <1>3, <1>4, RestSplit
<1>10. f[c] = gap \o f[o]
  <2>1. ASSUME NEW m \in M PROVE ~(c <= m.offset /\ m.offset < o)
    <3>1. PICK q \in R : m = PlaceOf(q)
      BY DEF AreWanted
    <3>2. m.offset = q.offset
      BY <3>1 DEF PlaceOf
    <3> QED
      BY <1>8, <3>2
  <2>2. c \in 1..(Len(T) + 1) /\ o \in c..(Len(T) + 1)
    BY <1>3, <1>4
  <2> HIDE DEF c, o, r, e, l
  <2>3. f[c] = SubSeq(T, c, o - 1) \o f[o]
    BY <2>1, <2>2, RenamedGap
  <2> QED
    BY <2>3
<1>11. f[o] = r.text \o f[e]
  <2>1. \A q \in R : RenamesAt(f, q)
    BY RenamedAt
  <2> QED
    BY <1>1, <1>3, <2>1 DEF RenamesAt
<1>12. new = [text |-> more \o SubSeq(T, e, L),
              deltas |-> Append(old.deltas, <<o, Len(r.text) - l>>)]
  <2>1. Moved(r.offset, old.deltas) = r.offset + (Len(done) - (c - 1))
    BY <1>2, <1>4, <1>5
  <2>2. ReplaceText(old, r) =
           [text |-> ((done \o SubSeq(T, c, r.offset - 1)) \o r.text)
                       \o SubSeq(T, r.offset + r.length, Len(T)),
            deltas |-> Append(old.deltas, <<r.offset, Len(r.text) - r.length>>)]
    <3> HIDE DEF r, old, c
    <3> QED
      BY <1>1, <1>3, <1>4, <1>5, <1>6, <1>8, <2>1, ReplacedBehind
  <2> QED
    BY <1>3, <1>6, <2>2
<1> HIDE DEF r, o, l, c, e, gap, old, new
<1>13. /\ front \in Seq(Nat) /\ Len(front) = Len(done) + (o - c)
  BY <1>5, <1>9, PartsOfJoin
<1>14. /\ more \in Seq(Nat) /\ Len(more) = Len(done) + (o - c) + Len(r.text)
       /\ SubSeq(more, Len(front) + 1, Len(front) + Len(r.text)) = r.text
  <2> HIDE DEF front
  <2> QED
    BY <1>2, <1>13, PartsOfJoin
<1>15. more \o f[e] = f[1]
  <2>1. (done \o gap) \o f[o] = done \o (gap \o f[o])
    BY <1>5, <1>7, <1>9, JoinOfThree
  <2> HIDE DEF front
  <2>2. (front \o r.text) \o f[e] = front \o (r.text \o f[e])
    BY <1>2, <1>7, <1>13, JoinOfThree
  <2> USE DEF front
  <2> QED
    BY <1>5, <1>10, <1>11, <2>1, <2>2
<1>16. new.text = more \o SubSeq(T, e, L) /\ new.deltas = Append(old.deltas, <<o, Len(r.text) - l>>)
  BY <1>12
<1> HIDE DEF more
<1>17. ASSUME NEW p \in Nat
       PROVE  Moved(p, new.deltas)
                = Moved(p, old.deltas) + (IF o < p THEN Len(r.text) - l ELSE 0)
  <2> DEFINE d == <<o, Len(r.text) - l>>
  <2>1. d \in Delta /\ d[1] = o /\ d[2] = Len(r.text) - l
    BY <1>2 DEF Delta
  <2> HIDE DEF d
  <2>2. Moved(p, Append(old.deltas, d))
          = Moved(p, old.deltas) + (IF d[1] < p THEN d[2] ELSE 0)
    BY <1>6, <2>1, MovedAppend
  <2> QED
    BY <1>16, <2>1, <2>2 DEF d
<1>18. ASSUME NEW p \in Nat, p >= e
       PROVE  Moved(p, new.deltas) = p + (Len(more) - (e - 1))
  <2>1. p >= c /\ o < p
    BY <1>2, <1>3, <1>4, <1>18
  <2>2. Moved(p, old.deltas) = p + (Len(done) - (c - 1))
    BY <1>5, <2>1
  <2>3. Moved(p, new.deltas) = p + (Len(done) - (c - 1)) + (Len(r.text) - l)
    BY <1>17, <2>1, <2>2
  <2> DEFINE d == Len(done)
             x == Len(r.text)
             y == Len(more)
  <2>4. /\ d \in Nat /\ x \in Nat /\ c \in Nat /\ o \in Nat /\ l \in Nat
        /\ y = d + (o - c) + x /\ e = o + l
    BY <1>0, <1>2, <1>3, <1>5, <1>14
  <2>5. Moved(p, new.deltas) = p + (d - (c - 1)) + (x - l)
    BY <2>3
  <2> HIDE DEF d, x, y
  <2>6. Moved(p, new.deltas) = p + (y - (e - 1))
    BY <2>4, <2>5
  <2> QED
    BY <2>6 DEF y
<1>19. ASSUME KeepLength(R)
       PROVE  /\ Len(more) = e - 1
              /\ \A p \in Nat : Moved(p, new.deltas) = p
              /\ \A i \in 1..(n + 1) :
                   /\ Cut(s, i) <= e
                   /\ SubSeq(more, s[i].offset, Cut(s, i) - 1) = s[i].text
  <2>1. Len(r.text) = l /\ Len(done) = c - 1
    BY <1>1, <1>5, <1>19 DEF KeepLength, l
  <2>2. Len(more) = e - 1
    BY <1>2, <1>3, <1>14, <2>1
  <2>3. ASSUME NEW p \in Nat PROVE Moved(p, new.deltas) = p
    <3>1. Moved(p, old.deltas) = p
      BY <1>5, <1>19
    <3> QED
      BY <1>2, <1>17, <2>1, <3>1
  <2>4. ASSUME NEW i \in 1..(n + 1)
        PROVE  /\ Cut(s, i) <= e
               /\ SubSeq(more, s[i].offset, Cut(s, i) - 1) = s[i].text
    <3>1. CASE i = n + 1
      <4>1. Len(front) + 1 = o /\ Len(front) + Len(r.text) = e - 1
        BY <1>2, <1>3, <1>13, <2>1
      <4>2. s[i].offset = o /\ s[i].text = r.text /\ Cut(s, i) = e
        BY <3>1 DEF o, r, e
      <4>3. e \in Nat /\ e <= e
        BY <1>0, <1>3
      <4>4. SubSeq(more, o, e - 1) = r.text
        <5> HIDE DEF front
        <5> QED
          BY <1>14, <4>1
      <4> QED
        BY <4>2, <4>3, <4>4
    <3>2. CASE i # n + 1
      <4>1. i \in 1..n /\ i \in 1..Len(s) /\ i # 0
        BY <1>0, <3>2
      <4>2. Cut(s, i) <= c /\ SubSeq(done, s[i].offset, Cut(s, i) - 1) = s[i].text
        BY <1>5, <1>19, <4>1
      <4> DEFINE so == s[i].offset
                 se == Cut(s, i) - 1
                 back == gap \o r.text
      <4>3. so \in 1..Len(done) /\ se \in 1..Len(done) /\ Cut(s, i) <= e
        <5>1. s[i] \in R
          BY <4>1, ElementOfSeq DEF InOrder
        <5>2. s[i].offset \in Nat \ {0} /\ s[i].length \in Nat \ {0}
          BY <5>1 DEF FitText, Item
        <5>3. Cut(s, i) = s[i].offset + s[i].length
          BY <4>1 DEF Cut
        <5> DEFINE i1 == s[i].offset
                   i2 == s[i].length
                   i3 == Cut(s, i)
                   d == Len(done)
        <5>4. /\ i1 \in Nat \ {0} /\ i2 \in Nat \ {0} /\ i3 = i1 + i2 /\ i3 <= c
              /\ d = c - 1 /\ c \in Nat /\ o \in Nat /\ l \in Nat /\ o >= c /\ e = o + l
          BY <1>0, <1>2, <1>3, <1>4, <2>1, <4>2, <5>2, <5>3
        <5> HIDE DEF i1, i2, i3, d
        <5>5. i1 \in 1..d /\ i3 - 1 \in 1..d /\ i3 <= e
          BY <5>4
        <5> QED
          BY <5>5 DEF i1, i3, d
      <4>4. back \in Seq(Nat)
        BY <1>2, <1>9, PartsOfJoin
      <4>5. more = done \o back
        BY <1>2, <1>5, <1>9, JoinOfThree DEF more
      <4> HIDE DEF so, se, back
      <4>6. SubSeq(done \o back, so, se) = SubSeq(done, so, se)
        <5> DEFINE X == Nat
        <5>1. done \in Seq(X) /\ back \in Seq(X)
          BY <1>5, <4>4
        <5> HIDE DEF X
        <5> QED
          BY <4>3, <5>1, SubSeqOfConcat1
      <4> QED
        BY <4>2, <4>3, <4>5, <4>6 DEF so, se
    <3> QED
      BY <3>1, <3>2
  <2> QED
    BY <2>2, <2>3, <2>4
<1>20. IsDone(more, n + 1, s, R, T, b, f)
  BY <1>14, <1>15, <1>16, <1>18, <1>19 DEF IsDone, e, new
<1> QED
  BY <1>20 DEF more, front, gap, c, o, r

(* ... or the place that was done last, by another path.                   *)
LEMMA DoneAgain ==
  ASSUME NEW T \in Seq(Nat), NEW R, FitText(R, T), NEW s, InOrder(s, R),
         NEW b, IsRewriting(T, s, b), NEW f,
         NEW n \in Nat, n + 1 \in 1..Len(s), NEW done, IsDone(done, n, s, R, T, b, f),
         n # 0, KeepLength(R), PlaceOf(s[n]) = PlaceOf(s[n + 1])
  PROVE  IsDone(done, n + 1, s, R, T, b, f)
<1> DEFINE r == s[n + 1]
           o == r.offset
           l == r.length
           c == Cut(s, n)
           old == b[n]
           new == b[n + 1]
           L == Len(T)
<1>0. /\ L \in Nat /\ Len(s) \in Nat /\ n \in 0..Len(s) /\ n \in 1..Len(s) /\ n + 1 # 0
      /\ (n + 1) - 1 = n
  <2>1. L \in Nat /\ Len(s) \in Nat
    BY LenProperties DEF InOrder
  <2> DEFINE N == Len(s)
  <2>2. N \in Nat /\ n + 1 \in 1..N
    BY <2>1
  <2> HIDE DEF N, L
  <2>3. n \in 0..N /\ n \in 1..N /\ n + 1 # 0 /\ (n + 1) - 1 = n
    BY <2>2
  <2> QED
    BY <2>1, <2>3 DEF N
<1>1. r \in R /\ r \in Item
  BY NextPlace
<1>2. /\ o \in Nat \ {0} /\ l \in Nat \ {0} /\ r.text \in Seq(Nat) /\ Len(r.text) = l
  BY <1>1 DEF Item, KeepLength
<1>3. s[n].offset = o /\ s[n].length = l /\ s[n].text = r.text
  BY DEF PlaceOf
<1>4. c = o + l /\ Cut(s, n + 1) = c /\ c \in 1..(L + 1)
  BY <1>0, <1>3, CutInText DEF Cut
<1>5. /\ done \in Seq(Nat) /\ Len(done) = c - 1
      /\ old.text = done \o SubSeq(T, c, L) /\ done \o f[c] = f[1]
      /\ \A p \in Nat : Moved(p, old.deltas) = p
      /\ \A p \in Nat : p >= c => Moved(p, old.deltas) = p + (Len(done) - (c - 1))
      /\ \A i \in 1..n : /\ Cut(s, i) <= c
                         /\ SubSeq(done, s[i].offset, Cut(s, i) - 1) = s[i].text
  BY DEF IsDone
<1>6. old \in Buffer /\ old.deltas \in Seq(Delta) /\ new = ReplaceText(old, r)
  <2>1. old \in Buffer /\ new = ReplaceText(b[(n + 1) - 1], r)
    BY <1>0 DEF IsRewriting
  <2> QED
    BY <1>0, <2>1 DEF Buffer
<1> HIDE DEF r, o, l, c, old, new
<1>7. Len(old.text) = L
  <2>1. c \in 1..(Len(T) + 1) /\ c \in c..(Len(T) + 1)
    BY <1>0, <1>4
  <2> DEFINE text == old.text
  <2>2. text = done \o SubSeq(T, c, Len(T))
    BY <1>5
  <2> HIDE DEF text
  <2>3. Len(text) = Len(done) + Len(T) + 1 - c
    BY <1>5, <2>1, <2>2, CutRest
  <2> DEFINE d == Len(done)
             k == Len(T)
  <2>4. d = c - 1 /\ k \in Nat /\ c \in 1..(k + 1)
    BY <1>0, <1>4, <1>5
  <2>5. Len(text) = d + k + 1 - c
    BY <2>3
  <2> HIDE DEF d, k
  <2>6. Len(text) = k
    BY <2>4, <2>5
  <2> QED
    BY <2>6 DEF text, k
<1>8. SubSeq(old.text, o, o + l - 1) = r.text
  <2> DEFINE back == SubSeq(T, c, L)
             e == o + l - 1
             X == Nat
  <2>1. back \in Seq(X) /\ done \in Seq(X)
    <3>1. c \in 1..(Len(T) + 1) /\ c \in c..(Len(T) + 1)
      BY <1>0, <1>4
    <3> QED
      BY <1>5, <3>1, RestSplit
  <2>2. o \in 1..Len(done) /\ e \in 1..Len(done) /\ e = c - 1
    BY <1>0, <1>2, <1>4, <1>5
  <2>3. old.text = done \o back
    BY <1>5
  <2> HIDE DEF back, e, X
  <2>4. SubSeq(done \o back, o, e) = SubSeq(done, o, e)
    BY <2>1, <2>2, SubSeqOfConcat1
  <2>5. n \in 1..n
    BY <1>0
  <2>6. SubSeq(done, o, e) = r.text
    BY <1>3, <1>5, <2>2, <2>5 DEF c
  <2> QED
    BY <2>3, <2>4, <2>6 DEF e
<1>9. new.text = old.text /\ new.deltas = Append(old.deltas, <<o, 0>>)
  <2>1. o + l <= L + 1 /\ o \in Nat
    BY <1>0, <1>2, <1>4
  <2>2. ReplaceText(old, r) =
           [text |-> old.text,
            deltas |-> Append(old.deltas, <<r.offset, Len(r.text) - r.length>>)]
    <3>1. /\ r.offset + r.length <= Len(old.text) + 1
          /\ Moved(r.offset, old.deltas) = r.offset
          /\ SubSeq(old.text, r.offset, r.offset + r.length - 1) = r.text
      BY <1>5, <1>7, <1>8, <2>1 DEF o, l
    <3> QED
      BY <1>1, <1>6, <3>1, ReplacedAgain
  <2>3. Len(r.text) - r.length = 0
    BY <1>2 DEF l
  <2> QED
    BY <1>6, <2>2, <2>3 DEF o
<1>10. ASSUME NEW p \in Nat PROVE Moved(p, new.deltas) = p
  <2> DEFINE d == <<o, 0>>
  <2>1. d \in Delta /\ d[2] = 0
    BY <1>2 DEF Delta
  <2> HIDE DEF d
  <2>2. Moved(p, Append(old.deltas, d))
          = Moved(p, old.deltas) + (IF d[1] < p THEN d[2] ELSE 0)
    BY <1>6, <2>1, MovedAppend
  <2>3. Moved(p, old.deltas) = p
    BY <1>5
  <2> QED
    BY <1>9, <2>1, <2>2, <2>3 DEF d
<1>11. \A p \in Nat : p >= c => Moved(p, new.deltas) = p + (Len(done) - (c - 1))
  <2>1. Len(done) - (c - 1) = 0
    BY <1>0, <1>4, <1>5
  <2> QED
    BY <1>10, <2>1
<1>12. ASSUME NEW i \in 1..(n + 1)
       PROVE  /\ Cut(s, i) <= c
              /\ SubSeq(done, s[i].offset, Cut(s, i) - 1) = s[i].text
  <2>1. CASE i = n + 1
    <3>1. n \in 1..n /\ c <= c
      BY <1>0, <1>4
    <3>2. SubSeq(done, s[n].offset, Cut(s, n) - 1) = s[n].text
      BY <1>5, <3>1
    <3>3. s[i].offset = o /\ s[i].text = r.text /\ Cut(s, i) = c
      BY <1>4, <2>1 DEF o, r
    <3> QED
      BY <1>3, <3>1, <3>2, <3>3 DEF c
  <2>2. CASE i # n + 1
    <3>1. i \in 1..n
      BY <2>2
    <3> QED
      BY <1>5, <3>1
  <2> QED
    BY <2>1, <2>2
<1>13. b[n + 1].text = done \o SubSeq(T, c, Len(T))
  BY <1>5, <1>9 DEF new
<1> QED
  BY <1>4, <1>5, <1>10, <1>11, <1>12, <1>13 DEF IsDone, new

(* Where no place begins any more, the text stays as it is.                *)
IsUnnamed(f, c, T) == f[c] = SubSeq(T, c, Len(T))

(* So it does behind the last place.                                       *)
LEMMA RenamedRest ==
  ASSUME NEW T \in Seq(Nat), NEW M, NEW f, IsRenamedFrom(f, T, M),
         f[Len(T) + 1] = << >>,
         NEW c \in 1..(Len(T) + 1),
         \A m \in M : m.offset \in Nat /\ m.offset < c
  PROVE  IsUnnamed(f, c, T)
<1> DEFINE o == Len(T) + 1
           rest == SubSeq(T, c, Len(T))
<1>1. Len(T) \in Nat
  BY LenProperties
<1>2. o \in c..(Len(T) + 1) /\ o - 1 = Len(T)
  BY <1>1
<1>3. \A m \in M : ~(c <= m.offset /\ m.offset < o)
  BY <1>1
<1>4. rest \in Seq(Nat)
  BY <1>2, RestSplit
<1>5. f[o] = << >>
  OBVIOUS
<1> HIDE DEF o
<1>6. f[c] = SubSeq(T, c, o - 1) \o f[o]
  BY <1>2, <1>3, RenamedGap
<1>7. f[c] = rest \o << >>
  BY <1>2, <1>5, <1>6
<1> HIDE DEF rest
<1>8. rest \o << >> = rest
  BY <1>4, ConcatEmptySeq
<1> QED
  BY <1>7, <1>8 DEF IsUnnamed, rest

(* What the rewriter does with replacements that are apart from each other *)
(* is to rename, and if no length changes every new name is at its place.  *)
IsExact(written, T, R, M) ==
  /\ written = Renamed(T, M)
  /\ KeepLength(R) =>
       /\ Len(written) = Len(T)
       /\ \A r \in R : SubSeq(written, r.offset, r.offset + r.length - 1) = r.text

(* The rewriter comes to the last replacement and leaves the rest alone.   *)
LEMMA RewritingIsRenaming ==
  ASSUME NEW T \in Seq(Nat), NEW R, FitText(R, T), NEW s, InOrder(s, R),
         NEW M, AreWanted(M, R, T)
  PROVE  IsExact(Rewritten(T, s), T, R, M)
<1> DEFINE N == Len(s)
<1>0. N \in Nat /\ Len(T) \in Nat /\ s \in Seq(Item)
  <2>1. R \subseteq Item /\ s \in Seq(R)
    BY DEF FitText, InOrder
  <2>2. s \in Seq(Item)
    BY <2>1, SeqMonotonic
  <2> QED
    BY <2>2, LenProperties
<1>1. PICK b : IsRewriting(T, s, b) /\ Rewritten(T, s) = b[N].text
  BY <1>0, RewrittenIs
<1>2. ArePlaces(M, T)
  <2>1. \A r \in R : PlaceOf(r) \in Place
    BY DEF FitText, Item, PlaceOf, Place
  <2>2. M \in SUBSET Place
    BY <2>1 DEF AreWanted
  <2>3. ASSUME NEW m \in M PROVE m.offset + m.length <= Len(T) + 1
    <3>1. PICK r \in R : m = PlaceOf(r)
      BY DEF AreWanted
    <3> QED
      BY <3>1 DEF FitText, PlaceOf
  <2>4. ASSUME NEW m \in M, NEW q \in M, m.offset = q.offset PROVE m = q
    <3>1. PICK a \in R : m = PlaceOf(a)
      BY DEF AreWanted
    <3>2. PICK c \in R : q = PlaceOf(c)
      BY DEF AreWanted
    <3>3. /\ a.offset \in Nat /\ a.length \in Nat \ {0} /\ c.length \in Nat \ {0}
          /\ c.offset = a.offset
      BY <2>4, <3>1, <3>2 DEF FitText, Item, PlaceOf
    <3>4. ~(a.offset + a.length <= c.offset) /\ ~(c.offset + c.length <= a.offset)
      BY <3>3
    <3> QED
      BY <3>1, <3>2, <3>4 DEF FitText, AreApart
  <2> QED
    BY <2>2, <2>3, <2>4 DEF ArePlaces
<1>3. PICK f : IsRenamedFrom(f, T, M) /\ Renamed(T, M) = f[1]
  BY <1>2, RenamedIs
<1>4. f \in [1..(Len(T) + 1) -> Seq(Nat)] /\ f[1] \in Seq(Nat) /\ f[Len(T) + 1] = << >>
  <2>1. 1 \in 1..(Len(T) + 1)
    BY <1>0
  <2> QED
    BY <1>3, <2>1 DEF IsRenamedFrom
<1> DEFINE Done(n) == \E done : IsDone(done, n, s, R, T, b, f)
           P == {n \in Nat : n <= N => Done(n)}
<1>5. 0 \in P
  <2>1. IsDone(<< >>, 0, s, R, T, b, f)
    BY <1>0, <1>1, <1>4, DoneAtFirst
  <2> QED
    BY <2>1
<1>6. ASSUME NEW n \in P PROVE n + 1 \in P
  <2> SUFFICES ASSUME n + 1 <= N PROVE Done(n + 1)
    <3> HIDE DEF Done
    <3> QED
      OBVIOUS
  <2>1. n \in Nat /\ n + 1 \in 1..N /\ n <= N
    BY <1>0
  <2>2. PICK done : IsDone(done, n, s, R, T, b, f)
    BY <2>1
  <2>3. \/ /\ s[n + 1].offset >= Cut(s, n)
           /\ \A r \in R : ~(Cut(s, n) <= r.offset /\ r.offset < s[n + 1].offset)
        \/ /\ n # 0 /\ KeepLength(R) /\ PlaceOf(s[n]) = PlaceOf(s[n + 1])
    BY <2>1, NextPlace
  <2>4. CASE /\ s[n + 1].offset >= Cut(s, n)
             /\ \A r \in R : ~(Cut(s, n) <= r.offset /\ r.offset < s[n + 1].offset)
    BY <1>1, <1>3, <2>1, <2>2, <2>4, DoneBehind
  <2>5. CASE n # 0 /\ KeepLength(R) /\ PlaceOf(s[n]) = PlaceOf(s[n + 1])
    BY <1>1, <2>1, <2>2, <2>5, DoneAgain
  <2> QED
    BY <2>3, <2>4, <2>5
<1>7. Done(N)
  <2>1. P \in SUBSET Nat
    OBVIOUS
  <2>2. N \in P
    <3> HIDE DEF P
    <3> QED
      BY <1>0, <1>5, <1>6, <2>1, InductionOnSet
  <2>3. N <= N
    BY <1>0
  <2> HIDE DEF Done
  <2> QED
    BY <2>2, <2>3
<1>8. PICK done : IsDone(done, N, s, R, T, b, f)
  BY <1>7
<1> DEFINE c == Cut(s, N)
           rest == SubSeq(T, c, Len(T))
           written == Rewritten(T, s)
<1>9. c \in 1..(Len(T) + 1)
  <2>1. N \in 0..Len(s)
    BY <1>0
  <2> QED
    BY <2>1, CutInText
<1>10. done \in Seq(Nat) /\ written = done \o rest /\ done \o f[c] = f[1]
  BY <1>1, <1>8 DEF IsDone
<1>11. rest \in Seq(Nat) /\ Len(rest) = Len(T) + 1 - c
  <2>1. c \in c..(Len(T) + 1)
    BY <1>0, <1>9
  <2> HIDE DEF c
  <2> QED
    BY <1>9, <2>1, RestSplit
<1>12. f[c] = rest
  <2>1. ASSUME NEW m \in M PROVE m.offset \in Nat /\ m.offset < c
    <3>1. PICK r \in R : m = PlaceOf(r)
      BY DEF AreWanted
    <3>2. PICK i \in 1..Len(s) : s[i] = r
      BY DEF InOrder
    <3>3. m.offset = s[i].offset /\ m.offset \in Nat /\ r.length \in Nat \ {0}
      BY <3>1, <3>2 DEF PlaceOf, FitText, Item
    <3>4. N # 0 /\ N \in 1..Len(s) /\ s[N] \in Item
      BY <1>0, <3>2, ElementOfSeq
    <3>5. s[i].offset <= s[N].offset
      <4>1. CASE i = N
        BY <3>3, <4>1
      <4>2. CASE i # N
        <5>1. i < N
          BY <1>0, <3>2, <4>2
        <5>2. Before(s[i], s[N])
          BY <3>2, <3>4, <5>1 DEF InOrder
        <5>3. s[i].offset \in Nat /\ s[N].offset \in Nat
          BY <3>3, <3>4 DEF Item
        <5> QED
          BY <5>2, <5>3 DEF Before
      <4> QED
        BY <4>1, <4>2
    <3>6. s[N].offset \in Nat /\ s[N].length \in Nat \ {0} /\ c = s[N].offset + s[N].length
      BY <3>4 DEF Item, Cut
    <3> HIDE DEF c
    <3> QED
      BY <3>3, <3>5, <3>6
  <2>2. \A m \in M : m.offset \in Nat /\ m.offset < c
    BY <2>1
  <2> HIDE DEF c
  <2>3. IsUnnamed(f, c, T)
    BY <1>3, <1>4, <1>9, <2>2, RenamedRest
  <2> QED
    BY <2>3 DEF IsUnnamed
<1>13. written = Renamed(T, M)
  BY <1>3, <1>10, <1>12
<1>14. ASSUME KeepLength(R)
       PROVE  /\ Len(written) = Len(T)
              /\ \A r \in R : SubSeq(written, r.offset, r.offset + r.length - 1) = r.text
  <2> HIDE DEF written, rest, c
  <2>1. Len(done) = c - 1
    BY <1>8, <1>14 DEF IsDone, c
  <2>2. Len(written) = Len(T)
    <3>1. Len(written) = Len(done) + Len(rest)
      BY <1>10, <1>11, PartsOfJoin
    <3> QED
      BY <1>0, <1>9, <1>11, <2>1, <3>1
  <2>3. ASSUME NEW r \in R
        PROVE  SubSeq(written, r.offset, r.offset + r.length - 1) = r.text
    <3>1. PICK i \in 1..Len(s) : s[i] = r
      BY DEF InOrder
    <3> DEFINE o == r.offset
               e == Cut(s, i) - 1
               X == Nat
    <3>2. i \in 1..N /\ i # 0
      BY <1>0, <3>1
    <3>3. Cut(s, i) <= c /\ SubSeq(done, s[i].offset, Cut(s, i) - 1) = s[i].text
      BY <1>8, <1>14, <3>2 DEF IsDone, c
    <3>4. o \in Nat \ {0} /\ r.length \in Nat \ {0} /\ Cut(s, i) = o + r.length
      BY <3>1, <3>2 DEF FitText, Item, Cut
    <3>5. o \in 1..Len(done) /\ e \in 1..Len(done) /\ e = o + r.length - 1
      <4> DEFINE u == Cut(s, i)
                 l == r.length
                 d == Len(done)
      <4>1. /\ u <= c /\ d = c - 1 /\ c \in Nat /\ u = o + l /\ o \in Nat \ {0} /\ l \in Nat \ {0}
        BY <1>0, <1>9, <2>1, <3>3, <3>4
      <4> HIDE DEF u, l, d, o
      <4>2. o \in 1..d /\ u - 1 \in 1..d /\ u - 1 = o + l - 1
        BY <4>1
      <4> QED
        BY <4>2 DEF u, l, d
    <3>6. done \in Seq(X) /\ rest \in Seq(X)
      BY <1>10, <1>11
    <3>7. SubSeq(done, o, e) = r.text
      BY <3>1, <3>3
    <3> HIDE DEF o, e, X
    <3>8. SubSeq(done \o rest, o, e) = SubSeq(done, o, e)
      BY <3>5, <3>6, SubSeqOfConcat1
    <3> QED
      BY <1>10, <3>5, <3>7, <3>8 DEF o
  <2> QED
    BY <2>2, <2>3
<1> QED
  BY <1>13, <1>14 DEF IsExact
-----------------------------------------------------------------------------
(* The file manager gets to know the paths that are new to it.             *)
HasBoth(all, known, paths, X) ==
  all \in Seq(X) /\ Range(all) = Range(known) \cup Range(paths)

(* It knows what it knew and what was opened.                              *)
LEMMA Extended ==
  ASSUME NEW X, NEW known \in Seq(X), NEW paths \in Seq(X)
  PROVE  HasBoth(known \o Kept(paths, X \ Range(known)), known, paths, X)
<1> DEFINE S == X \ Range(known)
           k == Kept(paths, S)
           all == known \o k
           R == X \X X
<1>0. /\ Len(known) \in Nat /\ DOMAIN known = 1..Len(known)
      /\ Len(paths) \in Nat /\ DOMAIN paths = 1..Len(paths)
      /\ \A i \in 1..Len(paths) : paths[i] \in X
  BY LenProperties, ElementOfSeq
<1>1. k \in Seq(X)
  <2>1. k \in Seq(X \cap S) /\ X \cap S \subseteq X
    BY KeptTyped
  <2> HIDE DEF k, S
  <2> QED
    BY <2>1, SeqMonotonic
<1>2. /\ \A i \in 1..Len(paths) : paths[i] \in S => \E j \in 1..Len(k) : k[j] = paths[i]
      /\ \A i \in 1..Len(k) : \E j \in 1..Len(paths) : k[i] = paths[j]
  <2>1. IsChain(paths, R)
    BY <1>0 DEF IsChain
  <2> HIDE DEF S, R
  <2>2. HasThose(k, paths, S)
    BY <2>1, KeptKeeps
  <2> QED
    BY <2>2 DEF HasThose
<1>3. Len(k) \in Nat /\ DOMAIN k = 1..Len(k)
  BY <1>1, LenProperties
<1> HIDE DEF k
<1>4. /\ all \in Seq(X) /\ Len(all) = Len(known) + Len(k)
      /\ \A i \in 1..(Len(known) + Len(k)) :
           all[i] = IF i <= Len(known) THEN known[i] ELSE k[i - Len(known)]
  BY <1>1, ConcatProperties
<1>5. DOMAIN all = 1..(Len(known) + Len(k))
  BY <1>4, LenProperties
<1> DEFINE n == Len(known)
           m == Len(k)
<1> HIDE DEF all, n, m
<1>6. n \in Nat /\ m \in Nat /\ DOMAIN known = 1..n /\ DOMAIN k = 1..m
      /\ DOMAIN all = 1..(n + m)
      /\ \A i \in 1..(n + m) : all[i] = IF i <= n THEN known[i] ELSE k[i - n]
  BY <1>0, <1>3, <1>4, <1>5 DEF n, m
<1>7. ASSUME NEW i \in 1..(n + m) PROVE all[i] \in Range(known) \cup Range(paths)
  <2>1. CASE i <= n
    <3>1. i \in 1..n /\ all[i] = known[i]
      BY <1>6, <2>1
    <3> QED
      BY <1>6, <3>1 DEF Range
  <2>2. CASE ~(i <= n)
    <3>1. i - n \in 1..m /\ all[i] = k[i - n]
      BY <1>6, <2>2
    <3>2. PICK j \in 1..Len(paths) : k[i - n] = paths[j]
      BY <1>2, <3>1 DEF m
    <3> QED
      BY <1>0, <3>1, <3>2 DEF Range
  <2> QED
    BY <2>1, <2>2
<1>8. ASSUME NEW i \in 1..n PROVE known[i] \in Range(all)
  <2>1. i \in 1..(n + m) /\ all[i] = known[i]
    BY <1>6
  <2> QED
    BY <1>6, <2>1 DEF Range
<1>9. ASSUME NEW i \in 1..Len(paths), paths[i] \notin Range(known)
      PROVE  paths[i] \in Range(all)
  <2>1. paths[i] \in S
    BY <1>0, <1>9
  <2>2. PICK j \in 1..m : k[j] = paths[i]
    BY <1>2, <2>1 DEF m
  <2>3. j + n \in 1..(n + m) /\ ~(j + n <= n) /\ (j + n) - n = j
    BY <1>6, <2>2
  <2>4. all[j + n] = k[j]
    BY <1>6, <2>3
  <2> QED
    BY <1>6, <2>2, <2>3, <2>4 DEF Range
<1>10. Range(known) \subseteq Range(all)
  BY <1>6, <1>8 DEF Range
<1>11. Range(all) = Range(known) \cup Range(paths)
  <2>1. Range(all) \subseteq Range(known) \cup Range(paths)
    BY <1>6, <1>7 DEF Range
  <2>2. Range(paths) \subseteq Range(all)
    <3>1. \A i \in 1..Len(paths) : paths[i] \in Range(all)
      BY <1>9, <1>10
    <3> QED
      BY <1>0, <3>1 DEF Range
  <2> QED
    BY <1>10, <2>1, <2>2
<1> QED
  BY <1>4, <1>11 DEF all, k, HasBoth

(* Every place that an action finds becomes a replacement.                 *)
LEMMA FoundHolds ==
  ASSUME NEW text, NEW names, NEW r \in Range(actions),
         NEW f \in DOMAIN text, NEW p \in Places(text[f], r.old)
  PROVE  [path |-> names[f], offset |-> p, length |-> Len(r.old), text |-> r.new]
           \in DOMAIN Found(names, text)
<1> DEFINE by == [i \in DOMAIN actions |-> FoundBy(actions[i], names, text)]
           q == [path |-> names[f], offset |-> p, length |-> Len(r.old), text |-> r.new]
<1>1. PICK i \in DOMAIN actions : actions[i] = r
  BY DEF Range
<1>2. q \in FoundBy(r, names, text)
  BY DEF FoundBy
<1>3. q \in UNION Range(by)
  BY <1>1, <1>2 DEF Range
<1> QED
  BY <1>3 DEF Found
-----------------------------------------------------------------------------
(* What a task knows about the files, and what it has collected.           *)
Known ==
  /\ disk \in [File -> Seq(Nat)]
  /\ opened \in Seq(Path)
  /\ DOMAIN first = {FileOf[p] : p \in Range(opened)}
  /\ \A f \in DOMAIN first : first[f] \in Seq(Nat)
  /\ actions \in Seq(Refactorings)

Collection ==
  /\ IsABag(context) /\ IsFiniteSet(DOMAIN context)
  /\ DOMAIN context \subseteq Item
  /\ \A r \in DOMAIN context : FileOf[r.path] \in DOMAIN first

Progress ==
  /\ unit \in 0..Len(Units)
  /\ whole \in BOOLEAN /\ saved \in BOOLEAN
  /\ covered \subseteq (DOMAIN first) \X Range(actions)
  /\ changed \subseteq DOMAIN first
  /\ runs \in 0..MaxRuns /\ saves \in 0..MaxSaves /\ disturbances \in 0..MaxDisturbances

SessionInv == Known /\ Collection /\ Progress

(* The files of a unit.                                                    *)
FilesOf(u) == {FileOf[p] : p \in Range(Units[u])}

(* They are finitely many of the files there are.                          *)
LEMMA FilesOfUnit ==
  ASSUME NEW u \in 1..Len(Units)
  PROVE  /\ Units[u] \in Seq(Path) /\ Range(Units[u]) \subseteq Path
         /\ IsFiniteSet(FilesOf(u)) /\ FilesOf(u) \subseteq File
<1> DEFINE paths == Units[u]
           g == [i \in 1..Len(paths) |-> FileOf[paths[i]]]
<1>1. paths \in Seq(Path)
  BY UnitsAssumption, ElementOfSeq
<1>2. /\ Len(paths) \in Nat /\ DOMAIN paths = 1..Len(paths)
      /\ \A i \in 1..Len(paths) : paths[i] \in Path
  BY <1>1, LenProperties, ElementOfSeq
<1>3. IsFiniteSet(DOMAIN g)
  BY <1>2, FS_Interval
<1>4. {g[x] : x \in DOMAIN g} = FilesOf(u)
  BY <1>2 DEF FilesOf, Range
<1>5. Range(paths) \subseteq Path
  BY <1>2 DEF Range
<1>6. IsFiniteSet({g[x] : x \in DOMAIN g})
  <2> HIDE DEF g
  <2> QED
    BY <1>3, FiniteImage
<1> QED
  BY <1>1, <1>4, <1>5, <1>6, PathsAssumption DEF FilesOf

(* What a unit adds to the context: replacements for its files, and if     *)
(* nothing fails one for every place of an old name.                       *)
Adds(text, old, new) ==
  /\ DOMAIN text = FilesOf(unit)
  /\ \A f \in FilesOf(unit) : text[f] \in Readings(f)
  /\ old \subseteq new
  /\ \A q \in new \ old : \E r \in Range(actions) : r \in Refactoring /\ IsFrom(q, r, text)

AddsAll(text, new) ==
  \A f \in FilesOf(unit) : \A r \in Range(actions) : \A p \in Places(text[f], r.old) :
    \E q \in new : /\ FileOf[q.path] = f
                   /\ PlaceOf(q) = [offset |-> p, length |-> Len(r.old), text |-> r.new]

(* Some of what was found is a bag as well.                                *)
LEMMA PartOfBag ==
  ASSUME NEW b, IsABag(b), IsFiniteSet(DOMAIN b), NEW D \in SUBSET DOMAIN b
  PROVE  LET part == [r \in D |-> b[r]]
         IN  IsABag(part) /\ IsFiniteSet(DOMAIN part) /\ DOMAIN part = D
<1>1. IsFiniteSet(D)
  BY FS_Subset
<1> QED
  BY <1>1 DEF IsABag

(* What a unit does to what is known and what was collected.               *)
LEMMA ParseAdds ==
  SessionInv /\ ParseUnit =>
    /\ unit \in 1..Len(Units)
    /\ opened' \in Seq(Path) /\ Range(opened') = Range(opened) \cup Range(Units[unit])
    /\ first' = [f \in DOMAIN first \cup FilesOf(unit) |->
                   IF f \in DOMAIN first THEN first[f] ELSE disk[f]]
    /\ IsABag(context') /\ IsFiniteSet(DOMAIN context')
    /\ \E text : /\ Adds(text, DOMAIN context, DOMAIN context')
                 /\ whole' => AddsAll(text, DOMAIN context')
<1> SUFFICES ASSUME SessionInv, ParseUnit
             PROVE  /\ unit \in 1..Len(Units)
                    /\ opened' \in Seq(Path)
                    /\ Range(opened') = Range(opened) \cup Range(Units[unit])
                    /\ first' = [f \in DOMAIN first \cup FilesOf(unit) |->
                                   IF f \in DOMAIN first THEN first[f] ELSE disk[f]]
                    /\ IsABag(context') /\ IsFiniteSet(DOMAIN context')
                    /\ \E text : /\ Adds(text, DOMAIN context, DOMAIN context')
                                 /\ whole' => AddsAll(text, DOMAIN context')
  OBVIOUS
<1> DEFINE paths == Units[unit]
           files == FilesOf(unit)
           all == opened \o Kept(paths, Path \ Range(opened))
           names == [f \in files |-> NameOf(f, opened')]
<1>1. unit \in 1..Len(Units)
  <2>1. Len(Units) \in Nat
    BY UnitsAssumption, LenProperties
  <2> QED
    BY <2>1 DEF SessionInv, Progress, ParseUnit
<1>2. /\ paths \in Seq(Path) /\ IsFiniteSet(files) /\ files \subseteq File
      /\ files = {FileOf[p] : p \in Range(paths)}
  BY <1>1, FilesOfUnit DEF FilesOf
<1>3. all \in Seq(Path) /\ Range(all) = Range(opened) \cup Range(paths)
  <2>1. opened \in Seq(Path)
    BY DEF SessionInv, Known
  <2> HIDE DEF paths
  <2>2. HasBoth(all, opened, paths, Path)
    BY <1>2, <2>1, Extended
  <2> QED
    BY <2>2 DEF HasBoth
<1>4. opened' = all
  BY DEF ParseUnit
<1>5. first' = [f \in DOMAIN first \cup files |->
                  IF f \in DOMAIN first THEN first[f] ELSE disk[f]]
  BY <1>2 DEF ParseUnit
<1> HIDE DEF all
<1>6. ASSUME NEW f \in files PROVE names[f] \in Path /\ FileOf[names[f]] = f
  <2>1. PICK p \in Range(all) : FileOf[p] = f
    BY <1>2, <1>3
  <2>2. PICK k \in 1..Len(all) : FileOf[all[k]] = f
    BY <1>3, <2>1, LenProperties DEF Range
  <2>3. NameOf(f, all) \in Path /\ FileOf[NameOf(f, all)] = f
    BY <1>3, <2>2, NameLeadsToFile
  <2> QED
    BY <1>4, <2>3
<1>7. PICK text : /\ DOMAIN text = files /\ \A f \in files : text[f] \in Readings(f)
                  /\ \/ context' = context (+) Found(names, text)
                     \/ /\ whole' = FALSE
                        /\ \E D \in SUBSET DOMAIN Found(names, text) :
                             context' = context (+) [r \in D |-> Found(names, text)[r]]
  <2> DEFINE Seen(text, seen) == {r \in BagToSet(Found(names, text)) :
                                    r.offset <= seen[FileOf[r.path]]}
  <2>1. PICK text \in [files -> UNION {Readings(f) : f \in files}] :
          /\ \A f \in files : text[f] \in Readings(f)
          /\ \/ context' = context (+) Found(names, text)
             \/ /\ whole' = FALSE
                /\ \E seen : context' = context (+)
                               [r \in Seen(text, seen) |-> Found(names, text)[r]]
    BY DEF ParseUnit, FilesOf
  <2>2. \A seen : Seen(text, seen) \in SUBSET DOMAIN Found(names, text)
    BY DEF BagToSet
  <2> HIDE DEF Seen, names
  <2> QED
    BY <2>1, <2>2
<1> DEFINE found == Found(names, text)
<1>8. /\ IsABag(found) /\ IsFiniteSet(DOMAIN found)
      /\ \A q \in DOMAIN found :
           \E r \in Range(actions) : r \in Refactoring /\ IsFrom(q, r, text)
  <2>1. ASSUME NEW f \in DOMAIN text PROVE text[f] \in Seq(Nat)
    <3>1. f \in files /\ f \in File /\ text[f] \in Readings(f)
      BY <1>2, <1>7
    <3>2. disk \in [File -> Seq(Nat)] /\ (f \in DOMAIN first => first[f] \in Seq(Nat))
      BY DEF SessionInv, Known
    <3>3. Readings(f) \in SUBSET Seq(Nat)
      BY <3>1, <3>2, ReadingsAre
    <3> QED
      BY <3>1, <3>3
  <2>2. \A f \in DOMAIN text : /\ text[f] \in Seq(Nat)
                               /\ names[f] \in Path /\ FileOf[names[f]] = f
    BY <1>6, <1>7, <2>1
  <2>3. IsFiniteSet(DOMAIN text) /\ actions \in Seq(Refactorings)
    BY <1>2, <1>7 DEF SessionInv, Known
  <2> HIDE DEF names
  <2> QED
    BY <2>2, <2>3, FoundIs
<1>9. IsABag(context) /\ IsFiniteSet(DOMAIN context)
  BY DEF SessionInv, Collection
<1>10. CASE context' = context (+) found
  <2> HIDE DEF found
  <2>1. /\ IsABag(context (+) found) /\ IsFiniteSet(DOMAIN (context (+) found))
        /\ DOMAIN (context (+) found) = DOMAIN context \cup DOMAIN found
    BY <1>8, <1>9, BagPlus
  <2>2. /\ IsABag(context') /\ IsFiniteSet(DOMAIN context')
        /\ DOMAIN context' = DOMAIN context \cup DOMAIN found
    BY <1>10, <2>1
  <2>3. Adds(text, DOMAIN context, DOMAIN context')
    BY <1>7, <1>8, <2>2 DEF Adds
  <2>4. ASSUME NEW f \in files, NEW r \in Range(actions), NEW p \in Places(text[f], r.old)
        PROVE  \E q \in DOMAIN context' :
                 /\ FileOf[q.path] = f
                 /\ PlaceOf(q) = [offset |-> p, length |-> Len(r.old), text |-> r.new]
    <3> DEFINE q == [path |-> names[f], offset |-> p, length |-> Len(r.old), text |-> r.new]
    <3>1. f \in DOMAIN text
      BY <1>7
    <3>2. q \in DOMAIN found
      <4> HIDE DEF names
      <4> QED
        BY <3>1, FoundHolds DEF found
    <3>3. FileOf[q.path] = f
      BY <1>6
    <3>4. PlaceOf(q) = [offset |-> p, length |-> Len(r.old), text |-> r.new]
      BY DEF PlaceOf
    <3> HIDE DEF q
    <3> QED
      BY <2>2, <3>2, <3>3, <3>4
  <2>5. AddsAll(text, DOMAIN context')
    BY <2>4 DEF AddsAll
  <2> QED
    BY <1>1, <1>3, <1>4, <1>5, <2>2, <2>3, <2>5
<1>11. CASE /\ whole' = FALSE
            /\ \E D \in SUBSET DOMAIN found :
                 context' = context (+) [r \in D |-> found[r]]
  <2>1. PICK D \in SUBSET DOMAIN found : context' = context (+) [r \in D |-> found[r]]
    BY <1>11
  <2> DEFINE part == [r \in D |-> found[r]]
  <2> HIDE DEF found
  <2>2. IsABag(part) /\ IsFiniteSet(DOMAIN part) /\ DOMAIN part = D
    BY <1>8, PartOfBag
  <2> HIDE DEF part
  <2>3. /\ IsABag(context (+) part) /\ IsFiniteSet(DOMAIN (context (+) part))
        /\ DOMAIN (context (+) part) = DOMAIN context \cup DOMAIN part
    BY <1>9, <2>2, BagPlus
  <2>4. context' = context (+) part
    BY <2>1 DEF part
  <2>5. /\ IsABag(context') /\ IsFiniteSet(DOMAIN context')
        /\ DOMAIN context' = DOMAIN context \cup D
    BY <2>2, <2>3, <2>4
  <2>6. Adds(text, DOMAIN context, DOMAIN context')
    BY <1>7, <1>8, <2>5 DEF Adds
  <2> QED
    BY <1>1, <1>3, <1>4, <1>5, <1>11, <2>5, <2>6
<1> QED
  BY <1>7, <1>10, <1>11
-----------------------------------------------------------------------------
(* What save() applies to a file: all that was collected for it, in order. *)
LEMMA OrderedFor ==
  ASSUME Collection, NEW f
  PROVE  For(f) \in SUBSET Item /\ InOrder(Kept(Deduplicate(context), For(f)), For(f))
<1> DEFINE S == DOMAIN context
           F == For(f)
           s == Sorted(S)
           k == Kept(s, F)
           R == {w \in Item \X Item : Before(w[1], w[2])}
<1>1. S \in SUBSET Item /\ IsFiniteSet(S)
  BY DEF Collection
<1>2. F \in SUBSET S /\ Deduplicate(context) = s
  BY DEF For, Deduplicate, BagToSet
<1> HIDE DEF S, F
<1>3. /\ s \in Seq(S)
      /\ \A r \in S : \E i \in 1..Len(s) : s[i] = r
      /\ \A i, j \in 1..Len(s) : i < j => Before(s[i], s[j])
  BY <1>1, SortedIs
<1> HIDE DEF s
<1>4. \A i \in 1..Len(s) : s[i] \in Item
  BY <1>1, <1>3, ElementOfSeq
<1>5. IsChain(s, R)
  BY <1>3, <1>4 DEF IsChain
<1>6. HasThose(k, s, F) /\ IsChain(k, R)
  <2> HIDE DEF R
  <2> QED
    BY <1>3, <1>5, KeptKeeps
<1>7. k \in Seq(F)
  <2>1. k \in Seq(S \cap F)
    BY <1>3, KeptTyped
  <2>2. S \cap F = F
    BY <1>2
  <2> QED
    BY <2>1, <2>2
<1> HIDE DEF k
<1>8. ASSUME NEW r \in F PROVE \E i \in 1..Len(k) : k[i] = r
  <2>1. PICK i \in 1..Len(s) : s[i] = r
    BY <1>2, <1>3
  <2> QED
    BY <1>6, <2>1 DEF HasThose
<1>9. ASSUME NEW i \in 1..Len(k), NEW j \in 1..Len(k), i < j PROVE Before(k[i], k[j])
  BY <1>6, <1>9 DEF IsChain
<1>10. InOrder(k, F)
  BY <1>7, <1>8, <1>9 DEF InOrder
<1> QED
  BY <1>1, <1>2, <1>10 DEF k, F

(* What save() makes of a file.                                            *)
Saves(f, text, unwritten) ==
  /\ f \in File
  /\ IF For(f) # {} /\ f \notin unwritten
     THEN /\ text[f] \in Readings(f)
          /\ disk'[f] = Rewritten(text[f], Kept(Deduplicate(context), For(f)))
          /\ f \in changed' <=> f \in changed \/ ~Sound(f) \/ ~KeepsLength(f)
     ELSE disk'[f] = disk[f] /\ (f \in changed' <=> f \in changed)

(* save() deals with each file by itself.                                  *)
LEMMA SaveDoes ==
  Save => \E text, unwritten :
            /\ disk' = [f \in File |-> disk'[f]]
            /\ \A f \in File : Saves(f, text, unwritten)
            /\ changed' \subseteq changed \cup {f \in File : For(f) # {}}
            /\ saved' \in BOOLEAN
            /\ saved' => unwritten = {}
<1> SUFFICES ASSUME Save
             PROVE  \E text, unwritten :
                      /\ disk' = [f \in File |-> disk'[f]]
                      /\ \A f \in File : Saves(f, text, unwritten)
                      /\ changed' \subseteq changed \cup {f \in File : For(f) # {}}
                      /\ saved' \in BOOLEAN
                      /\ saved' => unwritten = {}
  OBVIOUS
<1> DEFINE rewritten == {f \in File : For(f) # {}}
           replacements == Deduplicate(context)
<1>1. PICK text \in [rewritten -> UNION {Readings(f) : f \in rewritten}],
           unwritten \in SUBSET rewritten :
           /\ \A f \in rewritten : text[f] \in Readings(f)
           /\ disk' = [f \in File |->
                IF f \in rewritten \ unwritten
                THEN Rewritten(text[f], Kept(replacements, For(f)))
                ELSE disk[f]]
           /\ saved' = (unwritten = {})
           /\ changed' = changed \cup
                {f \in rewritten \ unwritten : ~Sound(f) \/ ~KeepsLength(f)}
  BY DEF Save
<1>2. ASSUME NEW f \in File PROVE Saves(f, text, unwritten)
  <2> HIDE DEF replacements
  <2>1. disk'[f] = IF f \in rewritten \ unwritten
                   THEN Rewritten(text[f], Kept(replacements, For(f)))
                   ELSE disk[f]
    BY <1>1
  <2>2. f \in changed' <=>
          f \in changed \/ (f \in rewritten \ unwritten /\ (~Sound(f) \/ ~KeepsLength(f)))
    BY <1>1
  <2>3. f \in rewritten => text[f] \in Readings(f)
    BY <1>1
  <2>4. f \in rewritten <=> For(f) # {}
    OBVIOUS
  <2> HIDE DEF rewritten
  <2> QED
    BY <2>1, <2>2, <2>3, <2>4 DEF Saves, replacements
<1>3. disk' = [f \in File |-> disk'[f]]
  BY <1>1
<1>4. changed' \subseteq changed \cup rewritten
  BY <1>1
<1> QED
  BY <1>1, <1>2, <1>3, <1>4

(* What it writes is text.                                                 *)
LEMMA SavesText ==
  SessionInv /\ Save => disk' \in [File -> Seq(Nat)]
<1> SUFFICES ASSUME SessionInv, Save PROVE disk' \in [File -> Seq(Nat)]
  OBVIOUS
<1>1. PICK text, unwritten : /\ disk' = [f \in File |-> disk'[f]]
                             /\ \A f \in File : Saves(f, text, unwritten)
  BY SaveDoes
<1>2. ASSUME NEW f \in File PROVE disk'[f] \in Seq(Nat)
  <2> DEFINE k == Kept(Deduplicate(context), For(f))
  <2>1. disk[f] \in Seq(Nat) /\ Readings(f) \in SUBSET Seq(Nat)
    <3>1. disk \in [File -> Seq(Nat)] /\ (f \in DOMAIN first => first[f] \in Seq(Nat))
      BY DEF SessionInv, Known
    <3> QED
      BY <3>1, ReadingsAre
  <2>2. k \in Seq(Item)
    <3>1. Collection
      BY DEF SessionInv
    <3>2. For(f) \in SUBSET Item /\ InOrder(k, For(f))
      BY <3>1, OrderedFor
    <3>3. For(f) \subseteq Item /\ k \in Seq(For(f))
      BY <3>2 DEF InOrder
    <3> HIDE DEF k
    <3> QED
      BY <3>3, SeqMonotonic
  <2>3. CASE For(f) # {} /\ f \notin unwritten
    <3>1. text[f] \in Seq(Nat) /\ disk'[f] = Rewritten(text[f], k)
      BY <1>1, <2>1, <2>3 DEF Saves
    <3> HIDE DEF k
    <3>2. Rewritten(text[f], k) \in Seq(Nat)
      BY <2>2, <3>1, RewrittenTyped
    <3> QED
      BY <3>1, <3>2
  <2>4. CASE ~(For(f) # {} /\ f \notin unwritten)
    BY <1>1, <2>1, <2>4 DEF Saves
  <2> QED
    BY <2>3, <2>4
<1> QED
  BY <1>1, <1>2
-----------------------------------------------------------------------------
(* Adding to a sequence keeps what is in it.                               *)
LEMMA RangeAppend ==
  ASSUME NEW X, NEW s \in Seq(X), NEW x \in X
  PROVE  Append(s, x) \in Seq(X) /\ Range(s) \subseteq Range(Append(s, x))
<1> DEFINE t == Append(s, x)
<1>1. /\ t \in Seq(X) /\ Len(t) = Len(s) + 1 /\ Len(s) \in Nat
      /\ \A i \in 1..Len(s) : t[i] = s[i]
  BY AppendProperties, LenProperties
<1>2. DOMAIN s = 1..Len(s) /\ DOMAIN t = 1..Len(t)
  BY <1>1, LenProperties
<1> HIDE DEF t
<1>3. \A i \in DOMAIN s : i \in DOMAIN t /\ t[i] = s[i]
  BY <1>1, <1>2
<1>4. Range(s) \subseteq Range(t)
  BY <1>3 DEF Range
<1> QED
  BY <1>1, <1>4 DEF t

(* An edited file is text.                                                 *)
LEMMA EditsText ==
  ASSUME NEW d \in Seq(Nat), d # << >>,
         NEW text \in {<< 0 >> \o d, Tail(d), Append(Tail(d), 0)}
  PROVE  text \in Seq(Nat)
<1>1. Tail(d) \in Seq(Nat)
  BY HeadTailProperties
<1>2. Append(Tail(d), 0) \in Seq(Nat)
  BY <1>1, AppendProperties
<1>3. << 0 >> \o d \in Seq(Nat)
  <2>1. << 0 >> \in Seq(Nat)
    OBVIOUS
  <2> QED
    BY <2>1, ConcatProperties
<1> QED
  BY <1>1, <1>2, <1>3

(* A new task has collected nothing.                                       *)
LEMMA SessionStarts == Init => SessionInv
<1> SUFFICES ASSUME Init PROVE SessionInv
  OBVIOUS
<1>1. Known
  <2>1. disk \in [File -> Seq(Nat)]
    BY ContentsAssumption DEF Init
  <2>2. opened \in Seq(Path) /\ actions \in Seq(Refactorings)
    BY DEF Init
  <2>3. DOMAIN first = {} /\ Range(opened) = {}
    BY DEF Init, Range
  <2> QED
    BY <2>1, <2>2, <2>3 DEF Known
<1>2. Collection
  <2>1. DOMAIN context = {} /\ context = [e \in {} |-> 1]
    BY DEF Init, EmptyBag, SetToBag
  <2>2. IsABag(context)
    BY <2>1 DEF IsABag
  <2>3. IsFiniteSet(DOMAIN context)
    BY <2>1, FS_EmptySet
  <2> QED
    BY <2>1, <2>2, <2>3 DEF Collection
<1>3. Progress
  <2>1. Len(Units) \in Nat
    BY UnitsAssumption, LenProperties
  <2> QED
    BY <2>1, BoundsAssumption DEF Init, Progress
<1> QED
  BY <1>1, <1>2, <1>3 DEF SessionInv

(* run() goes on to a unit, and what a whole run has covered is in files   *)
(* that are known.                                                         *)
LEMMA NextUnitGoesOn ==
  SessionInv /\ unit # 0 /\ NextUnit =>
    /\ unit' \in 0..Len(Units)
    /\ covered' \subseteq covered \cup ((DOMAIN first') \X Range(actions))
<1>1. Len(Units) \in Nat
  BY UnitsAssumption, LenProperties
<1> QED
  BY <1>1 DEF SessionInv, Progress, NextUnit

(* There is room for what is counted.                                      *)
LEMMA DisturbCounts ==
  SessionInv /\ Disturb => disturbances' \in 0..MaxDisturbances
  BY BoundsAssumption DEF SessionInv, Progress, Disturb

(* Every step keeps to what a task is made of.                             *)
LEMMA SessionStep == SessionInv /\ [Next]_vars => SessionInv'
<1> SUFFICES ASSUME SessionInv, [Next]_vars PROVE SessionInv'
  OBVIOUS
<1>0. Len(Units) \in Nat /\ Len(Units) # 0
  <2>1. Len(Units) \in Nat \ {0}
    BY UnitsAssumption, EmptySeq
  <2> QED
    BY <2>1
<1> USE DEF SessionInv
<1>1. CASE AddRefactoring
  <2>1. PICK r \in Refactorings : actions' = Append(actions, r)
    BY <1>1 DEF AddRefactoring
  <2>2. actions' \in Seq(Refactorings) /\ Range(actions) \subseteq Range(actions')
    <3>1. actions \in Seq(Refactorings)
      BY DEF Known
    <3> QED
      BY <2>1, <3>1, RangeAppend
  <2>3. Known'
    BY <1>1, <2>2 DEF AddRefactoring, tool, Known
  <2>4. Collection'
    BY <1>1 DEF AddRefactoring, tool, Collection
  <2>5. Progress'
    BY <1>1, <2>2 DEF AddRefactoring, tool, Progress
  <2> QED
    BY <2>3, <2>4, <2>5
<1>2. CASE StartRun
  <2>1. Known'
    BY <1>2 DEF StartRun, tool, Known
  <2>2. Collection'
    BY <1>2 DEF StartRun, tool, Collection
  <2>3. Progress'
    BY <1>0, <1>2, BoundsAssumption DEF StartRun, tool, Progress
  <2> QED
    BY <2>1, <2>2, <2>3
<1>3. CASE SkipUnit
  <2>1. Known'
    BY <1>3 DEF SkipUnit, tool, Known
  <2>2. Collection'
    BY <1>3 DEF SkipUnit, tool, Collection
  <2>3. Progress'
    <3>1. /\ unit' \in 0..Len(Units)
          /\ covered' \subseteq covered \cup ((DOMAIN first') \X Range(actions))
          /\ disturbances' \in 0..MaxDisturbances
      BY <1>3, NextUnitGoesOn, DisturbCounts DEF SkipUnit
    <3> QED
      BY <1>3, <3>1 DEF SkipUnit, tool, Progress
  <2> QED
    BY <2>1, <2>2, <2>3
<1>4. CASE ParseUnit
  <2>1. /\ unit \in 1..Len(Units)
        /\ opened' \in Seq(Path) /\ Range(opened') = Range(opened) \cup Range(Units[unit])
        /\ first' = [f \in DOMAIN first \cup FilesOf(unit) |->
                       IF f \in DOMAIN first THEN first[f] ELSE disk[f]]
        /\ IsABag(context') /\ IsFiniteSet(DOMAIN context')
        /\ \E text : Adds(text, DOMAIN context, DOMAIN context')
    BY <1>4, ParseAdds
  <2>2. DOMAIN first' = DOMAIN first \cup FilesOf(unit)
    BY <2>1
  <2>3. Known'
    <3>1. DOMAIN first' = {FileOf[p] : p \in Range(opened')}
      BY <2>1, <2>2 DEF Known, FilesOf
    <3>2. \A f \in DOMAIN first' : first'[f] \in Seq(Nat)
      <4>1. FilesOf(unit) \subseteq File
        BY <2>1, FilesOfUnit
      <4> QED
        BY <2>1, <4>1 DEF Known
    <3> QED
      BY <1>4, <2>1, <3>1, <3>2 DEF ParseUnit, Known
  <2>4. Collection'
    <3>1. PICK text : Adds(text, DOMAIN context, DOMAIN context')
      BY <2>1
    <3>2. ASSUME NEW q \in DOMAIN context'
          PROVE  q \in Item /\ FileOf[q.path] \in DOMAIN first'
      <4>1. CASE q \in DOMAIN context
        BY <2>2, <4>1 DEF Collection
      <4>2. CASE q \notin DOMAIN context
        <5>1. PICK r \in Range(actions) : r \in Refactoring /\ IsFrom(q, r, text)
          BY <3>1, <4>2 DEF Adds
        <5>2. q \in Item /\ FileOf[q.path] \in DOMAIN text
          BY <5>1 DEF IsFrom
        <5> QED
          BY <2>2, <3>1, <5>2 DEF Adds
      <4> QED
        BY <4>1, <4>2
    <3> QED
      BY <2>1, <3>2 DEF Collection
  <2>5. Progress'
    <3>1. /\ unit' \in 0..Len(Units)
          /\ covered' \subseteq covered \cup ((DOMAIN first') \X Range(actions))
      BY <1>4, NextUnitGoesOn DEF ParseUnit
    <3>2. whole' \in BOOLEAN /\ disturbances' \in 0..MaxDisturbances
      <4>1. \/ UNCHANGED <<whole, disturbances>>
            \/ whole' = FALSE /\ Disturb
        BY <1>4 DEF ParseUnit
      <4> QED
        BY <4>1, DisturbCounts DEF Progress
    <3>3. UNCHANGED <<actions, saved, changed, runs, saves>>
      BY <1>4 DEF ParseUnit
    <3> QED
      BY <2>2, <3>1, <3>2, <3>3 DEF Progress
  <2> QED
    BY <2>3, <2>4, <2>5
<1>5. CASE Save
  <2>1. UNCHANGED <<opened, first, actions, context, unit, whole, runs>>
    BY <1>5 DEF Save, tool
  <2>2. disk' \in [File -> Seq(Nat)]
    BY <1>5, SavesText
  <2>3. Known'
    BY <2>1, <2>2 DEF Known
  <2>4. Collection'
    BY <2>1 DEF Collection
  <2>5. Progress'
    <3>1. saved' \in BOOLEAN /\ changed' \subseteq changed \cup {f \in File : For(f) # {}}
      BY <1>5, SaveDoes
    <3>2. \A f \in File : For(f) # {} => f \in DOMAIN first
      BY DEF For, BagToSet, Collection
    <3>3. covered' \subseteq covered /\ saves < MaxSaves /\ saves' = saves + 1
      BY <1>5 DEF Save
    <3>4. disturbances' \in 0..MaxDisturbances
      <4>1. UNCHANGED disturbances \/ Disturb
        BY <1>5 DEF Save
      <4> QED
        BY <4>1, DisturbCounts DEF Progress
    <3>5. saves' \in 0..MaxSaves
      BY <3>3, BoundsAssumption DEF Progress
    <3>6. changed' \subseteq DOMAIN first
      BY <3>1, <3>2 DEF Progress
    <3> QED
      BY <2>1, <3>1, <3>3, <3>4, <3>5, <3>6 DEF Progress
  <2> QED
    BY <2>3, <2>4, <2>5
<1>6. CASE DropGroup
  <2>1. UNCHANGED <<disk, opened, first, actions, unit, whole, saved, changed, runs, saves>>
    BY <1>6 DEF DropGroup, tool
  <2>2. Known'
    BY <2>1 DEF Known
  <2>3. Collection'
    <3>1. PICK r : context' = context (-) SetToBag({r})
      BY <1>6 DEF DropGroup
    <3>2. /\ IsABag(context (-) SetToBag({r}))
          /\ IsFiniteSet(DOMAIN (context (-) SetToBag({r})))
          /\ DOMAIN (context (-) SetToBag({r})) \subseteq DOMAIN context
      BY BagMinusOne DEF Collection
    <3>3. /\ IsABag(context') /\ IsFiniteSet(DOMAIN context')
          /\ DOMAIN context' \subseteq DOMAIN context
      BY <3>1, <3>2
    <3> QED
      BY <2>1, <3>3 DEF Collection
  <2>4. Progress'
    <3>1. covered' = {} /\ disturbances' \in 0..MaxDisturbances
      BY <1>6, DisturbCounts DEF DropGroup
    <3> QED
      BY <2>1, <3>1 DEF Progress
  <2> QED
    BY <2>2, <2>3, <2>4
<1>7. CASE Edit
  <2>1. UNCHANGED <<opened, first, actions, context, unit, whole, saved, covered, runs, saves>>
    BY <1>7 DEF Edit, tool
  <2>2. PICK f \in File :
          /\ disk[f] # << >>
          /\ \E text \in {<<0>> \o disk[f], Tail(disk[f]), Append(Tail(disk[f]), 0)} :
               disk' = [disk EXCEPT ![f] = text]
          /\ changed' = changed \cup ({f} \cap DOMAIN first)
    BY <1>7 DEF Edit
  <2>3. Known'
    <3>1. PICK text \in {<<0>> \o disk[f], Tail(disk[f]), Append(Tail(disk[f]), 0)} :
            disk' = [disk EXCEPT ![f] = text]
      BY <2>2
    <3>2. disk \in [File -> Seq(Nat)]
      BY DEF Known
    <3>3. text \in Seq(Nat)
      <4>1. disk[f] \in Seq(Nat)
        BY <3>2
      <4> QED
        BY <2>2, <4>1, EditsText
    <3>4. disk' \in [File -> Seq(Nat)]
      BY <3>1, <3>2, <3>3
    <3> QED
      BY <2>1, <3>4 DEF Known
  <2>4. Collection'
    BY <2>1 DEF Collection
  <2>5. Progress'
    <3>1. disturbances' \in 0..MaxDisturbances
      BY <1>7, DisturbCounts DEF Edit
    <3> QED
      BY <2>1, <2>2, <3>1 DEF Progress
  <2> QED
    BY <2>3, <2>4, <2>5
<1>8. CASE UNCHANGED vars
  <2>1. UNCHANGED <<disk, opened, first, actions, context, unit, whole, saved, covered,
                    changed, runs, saves, disturbances>>
    BY <1>8 DEF vars
  <2> QED
    BY <2>1 DEF Known, Collection, Progress
<1> QED
  BY <1>1, <1>2, <1>3, <1>4, <1>5, <1>6, <1>7, <1>8 DEF Next

(* Whatever a client does and in whatever order: the context holds only    *)
(* replacements for files that a run has read, files stay text, and no     *)
(* counter leaves its bounds.                                              *)
THEOREM SessionIsTyped == Spec => []TypeOK
<1>1. Spec => []SessionInv
  BY SessionStarts, SessionStep, PTL DEF Spec
<1>2. SessionInv => TypeOK
  <2> SUFFICES ASSUME SessionInv PROVE TypeOK
    OBVIOUS
  <2>1. DOMAIN disk = File /\ \A f \in File : disk[f] \in Seq(Nat)
    BY DEF SessionInv, Known
  <2>2. \A r \in BagToSet(context) : FileOf[r.path] \in DOMAIN first /\ context[r] > 0
    BY DEF SessionInv, Collection, BagToSet, IsABag
  <2> QED
    BY <2>1, <2>2 DEF SessionInv, Known, Progress, TypeOK
<1> QED
  BY <1>1, <1>2, PTL
-----------------------------------------------------------------------------
(* A text in which nothing is to be renamed.                               *)
LEMMA RenamedNothing ==
  ASSUME NEW T \in Seq(Nat)
  PROVE  Renamed(T, {}) = T
<1> DEFINE M == {}
           L == Len(T)
<1>1. Len(T) \in Nat /\ 1 \in 1..(Len(T) + 1)
  BY LenProperties
<1>2. ArePlaces(M, T)
  BY DEF ArePlaces
<1>3. PICK f : IsRenamedFrom(f, T, M) /\ Renamed(T, M) = f[1]
  BY <1>2, RenamedIs
<1>4. f[Len(T) + 1] = << >>
  BY <1>3 DEF IsRenamedFrom
<1>5. \A m \in M : m.offset \in Nat /\ m.offset < 1
  OBVIOUS
<1>6. IsUnnamed(f, 1, T)
  <2> HIDE DEF M
  <2> QED
    BY <1>1, <1>3, <1>4, <1>5, RenamedRest
<1>7. SubSeq(T, 1, Len(T)) = T
  BY SubSeqFull
<1> QED
  BY <1>3, <1>6, <1>7 DEF IsUnnamed

(* The old name of a refactoring is where a replacement is to put its new  *)
(* name ...                                                                *)
Renames(T, r, names) ==
  \E x \in names : /\ x.new = r.text /\ Len(x.old) = r.length
                   /\ x.old = SubSeq(T, r.offset, r.offset + r.length - 1)

(* ... or the new name is there already.                                   *)
Fits(T, r, names) ==
  \/ SubSeq(T, r.offset, r.offset + r.length - 1) = r.text
  \/ Renames(T, r, names)

(* A text that has the length it was read with, and names in their places. *)
InPlace(T, length, R, names) ==
  /\ Len(T) = length
  /\ \A r \in R : r.offset + r.length <= Len(T) + 1 /\ Fits(T, r, names)

(* There is a replacement for every place of an old name.                  *)
Collected(T, R, x) ==
  \A p \in Places(T, x.old) :
    \E r \in R : PlaceOf(r) = [offset |-> p, length |-> Len(x.old), text |-> x.new]

(* The places save() is to rename in a text.                               *)
Wanted(T, R, names) == {PlaceOf(r) : r \in {q \in R : Renames(T, q, names)}}

(* They are places of old names, and all that were collected.              *)
LEMMA WantedAre ==
  ASSUME NEW T \in Seq(Nat), NEW R \in SUBSET Item, NEW names \in SUBSET Refactoring,
         NEW length, InPlace(T, length, R, names)
  PROVE  /\ AreWanted(Wanted(T, R, names), R, T)
         /\ Wanted(T, R, names) \subseteq Renamings(T, names)
         /\ \A x \in names : Collected(T, R, x) =>
              Renamings(T, {x}) \subseteq Wanted(T, R, names)
<1> DEFINE M == Wanted(T, R, names)
<1>1. AreWanted(M, R, T)
  <2>1. M \in SUBSET {PlaceOf(r) : r \in R}
    BY DEF Wanted
  <2>2. ASSUME NEW r \in R
        PROVE  PlaceOf(r) \in M \/ SubSeq(T, r.offset, r.offset + r.length - 1) = r.text
    <3>1. Fits(T, r, names)
      BY DEF InPlace
    <3> QED
      BY <3>1 DEF Fits, Wanted
  <2> HIDE DEF M
  <2> QED
    BY <2>1, <2>2 DEF AreWanted
<1>2. ASSUME NEW m \in M PROVE m \in Renamings(T, names)
  <2>1. PICK r \in R : Renames(T, r, names) /\ m = PlaceOf(r)
    BY DEF Wanted
  <2>2. PICK x \in names : /\ x.new = r.text /\ Len(x.old) = r.length
                           /\ x.old = SubSeq(T, r.offset, r.offset + r.length - 1)
    BY <2>1 DEF Renames
  <2> DEFINE o == r.offset
             l == r.length
             L == Len(T)
  <2>3. o \in Nat \ {0} /\ l \in Nat \ {0} /\ L \in Nat /\ o + l <= L + 1
    BY LenProperties DEF Item, InPlace
  <2>4. m = [offset |-> o, length |-> Len(x.old), text |-> x.new]
    BY <2>1, <2>2 DEF PlaceOf
  <2>5. SubSeq(T, o, o + l - 1) = x.old /\ Len(x.old) = l
    BY <2>2
  <2> HIDE DEF o, l, L
  <2>6. o \in 1..(L - l + 1)
    BY <2>3
  <2>7. o \in Places(T, x.old)
    BY <2>5, <2>6 DEF Places, L
  <2> DEFINE places(y) == {[offset |-> p, length |-> Len(y.old), text |-> y.new] :
                             p \in Places(T, y.old)}
  <2>8. m \in places(x)
    BY <2>4, <2>7
  <2>9. Renamings(T, names) = UNION {places(y) : y \in names}
    BY DEF Renamings
  <2> HIDE DEF places
  <2> QED
    BY <2>8, <2>9
<1>3. ASSUME NEW x \in names, Collected(T, R, x), NEW m \in Renamings(T, {x})
      PROVE  m \in M
  <2>1. PICK p \in Places(T, x.old) :
          m = [offset |-> p, length |-> Len(x.old), text |-> x.new]
    BY DEF Renamings
  <2>2. PICK r \in R : PlaceOf(r) = [offset |-> p, length |-> Len(x.old), text |-> x.new]
    BY <1>3 DEF Collected
  <2>3. r.offset = p /\ r.length = Len(x.old) /\ r.text = x.new
    BY <2>2 DEF PlaceOf
  <2>4. SubSeq(T, p, p + Len(x.old) - 1) = x.old
    BY DEF Places
  <2>5. Renames(T, r, names)
    BY <2>3, <2>4 DEF Renames
  <2> QED
    BY <2>1, <2>2, <2>5 DEF Wanted
<1> QED
  BY <1>1, <1>2, <1>3
-----------------------------------------------------------------------------
(* Replacements stay where they belong, and those of a refactoring that is *)
(* covered are complete.                                                   *)
FitsInv ==
  \A f \in DOMAIN first : f \notin changed =>
    InPlace(disk[f], Len(first[f]), For(f), Range(actions))

CoveredInv ==
  \A f \in DOMAIN first : f \notin changed =>
    \A x \in Range(actions) : <<f, x>> \in covered => Collected(disk[f], For(f), x)

(* So are those of the units that a run has done without a failure.        *)
RunInv ==
  unit # 0 /\ whole =>
    \A j \in 1..(unit - 1) : \A f \in FilesOf(j) :
      /\ f \in DOMAIN first
      /\ f \notin changed =>
           \A x \in Range(actions) : Collected(disk[f], For(f), x)

FilesInv == \A f \in DOMAIN first : \E j \in 1..Len(Units) : f \in FilesOf(j)

PlacesInv == SessionInv /\ FitsInv /\ CoveredInv /\ RunInv /\ FilesInv

(* What a client may add are refactorings.                                 *)
LEMMA ActionsAre ==
  ASSUME SessionInv
  PROVE  Range(actions) \in SUBSET Refactoring
<1>1. actions \in Seq(Refactorings)
  BY DEF SessionInv, Known
<1>2. \A i \in DOMAIN actions : actions[i] \in Refactorings
  BY <1>1, LenProperties, ElementOfSeq
<1> QED
  BY <1>2, RefactoringsAssumption DEF Range

(* A file that is known is one there is, and holds text.                   *)
LEMMA KnownIsFile ==
  ASSUME SessionInv, NEW f \in DOMAIN first
  PROVE  f \in File /\ disk[f] \in Seq(Nat) /\ first[f] \in Seq(Nat)
<1>1. opened \in Seq(Path)
  BY DEF SessionInv, Known
<1>2. Range(opened) \subseteq Path
  BY <1>1, LenProperties, ElementOfSeq DEF Range
<1>3. f \in File
  <2>1. DOMAIN first = {FileOf[p] : p \in Range(opened)}
    BY DEF SessionInv, Known
  <2>2. PICK p \in Range(opened) : f = FileOf[p]
    BY <2>1
  <2> QED
    BY <1>2, <2>2, PathsAssumption
<1> QED
  BY <1>3 DEF SessionInv, Known

(* What save() writes into a sound file is its text, renamed.              *)
WritesExactly(f, written) ==
  \E M \in SUBSET Renamings(disk[f], Range(actions)) :
    /\ IsExact(written, disk[f], For(f), M)
    /\ \A x \in Range(actions) : Collected(disk[f], For(f), x) =>
         Renamings(disk[f], {x}) \subseteq M

(* So it is for every file whose replacements do not contradict each other.*)
LEMMA SoundIsRenamed ==
  ASSUME SessionInv, FitsInv, NEW f \in DOMAIN first, Sound(f), NEW text \in Readings(f)
  PROVE  WritesExactly(f, Rewritten(text, Kept(Deduplicate(context), For(f))))
<1> DEFINE T == disk[f]
           R == For(f)
           names == Range(actions)
           s == Kept(Deduplicate(context), R)
           M == Wanted(T, R, names)
           length == Len(first[f])
<1>1. T \in Seq(Nat) /\ names \in SUBSET Refactoring /\ f \in File
  BY ActionsAre, KnownIsFile
<1>2. InPlace(T, length, R, names)
  BY DEF FitsInv, Sound
<1>3. R \in SUBSET Item /\ InOrder(s, R)
  BY OrderedFor DEF SessionInv
<1>4. text = T
  <2>1. disk \in [File -> Seq(Nat)] /\ first[f] \in Seq(Nat)
    BY KnownIsFile DEF SessionInv, Known
  <2>2. Len(first[f]) = Len(disk[f])
    BY <1>2 DEF InPlace
  <2>3. Readings(f) = {disk[f]}
    BY <1>1, <2>1, <2>2, ReadingsAre
  <2> QED
    BY <2>3
<1>5. (\A a, b \in R : a.path = b.path) \/ KeepLength(R)
  BY DEF Sound, OneName, KeepsLength, KeepLength
<1>6. AreApart(R)
  <2>1. \A a, b \in R :
          \/ <<a.offset, a.length, a.text>> = <<b.offset, b.length, b.text>>
          \/ a.offset + a.length <= b.offset
          \/ b.offset + b.length <= a.offset
    BY DEF Sound, Agree
  <2> HIDE DEF R
  <2> QED
    BY <2>1 DEF AreApart, PlaceOf
<1> HIDE DEF T, R, names, s, M, length
<1>7. FitText(R, T)
  BY <1>2, <1>3, <1>5, <1>6 DEF FitText, InPlace
<1>8. /\ AreWanted(M, R, T)
      /\ M \subseteq Renamings(T, names)
      /\ \A x \in names : Collected(T, R, x) => Renamings(T, {x}) \subseteq M
  BY <1>1, <1>2, <1>3, WantedAre DEF M
<1>9. IsExact(Rewritten(T, s), T, R, M)
  BY <1>1, <1>3, <1>7, <1>8, RewritingIsRenaming
<1> QED
  BY <1>4, <1>8, <1>9 DEF WritesExactly, T, R, names, s
-----------------------------------------------------------------------------
(* More refactorings, or fewer replacements, do not bring names out of     *)
(* place.                                                                  *)
LEMMA StaysInPlace ==
  ASSUME NEW T, NEW length, NEW R, NEW names, InPlace(T, length, R, names),
         NEW R1 \in SUBSET R, NEW names1, names \subseteq names1
  PROVE  InPlace(T, length, R1, names1)
<1>1. ASSUME NEW r \in R, Fits(T, r, names) PROVE Fits(T, r, names1)
  BY <1>1 DEF Fits, Renames
<1> QED
  BY <1>1 DEF InPlace

(* More replacements do not leave a place out.                             *)
LEMMA StaysCollected ==
  ASSUME NEW T, NEW R, NEW x, Collected(T, R, x), NEW R1, R \subseteq R1
  PROVE  Collected(T, R1, x)
BY DEF Collected

(* A unit that is parsed adds to a file what belongs there.                *)
ParsedWell(f) ==
  /\ InPlace(disk'[f], Len(first'[f]), For(f)', Range(actions)')
  /\ For(f) \subseteq For(f)' /\ disk'[f] = disk[f]
  /\ f \in FilesOf(unit) /\ whole' =>
       \A x \in Range(actions) : Collected(disk'[f], For(f)', x)

(* So does every unit, whether it fails or not.                            *)
LEMMA ParsesWell ==
  ASSUME SessionInv, FitsInv, ParseUnit, NEW f \in DOMAIN first', f \notin changed
  PROVE  ParsedWell(f)
<1> DEFINE T == disk[f]
           R == For(f)
           R1 == {r \in DOMAIN context' : FileOf[r.path] = f}
           names == Range(actions)
<1>1. /\ unit \in 1..Len(Units)
      /\ first' = [g \in DOMAIN first \cup FilesOf(unit) |->
                     IF g \in DOMAIN first THEN first[g] ELSE disk[g]]
      /\ \E text : /\ Adds(text, DOMAIN context, DOMAIN context')
                   /\ whole' => AddsAll(text, DOMAIN context')
  BY ParseAdds
<1>2. disk' = disk /\ actions' = actions
  BY DEF ParseUnit
<1>3. For(f)' = R1 /\ R = {r \in DOMAIN context : FileOf[r.path] = f}
  BY DEF For, BagToSet
<1>4. PICK text : /\ Adds(text, DOMAIN context, DOMAIN context')
                  /\ whole' => AddsAll(text, DOMAIN context')
  BY <1>1
<1>5. f \in File /\ T \in Seq(Nat) /\ names \in SUBSET Refactoring
  <2>1. FilesOf(unit) \subseteq File
    BY <1>1, FilesOfUnit
  <2>2. f \in File
    BY <1>1, <2>1, KnownIsFile
  <2> QED
    BY <2>2, ActionsAre DEF SessionInv, Known
<1>6. Len(first'[f]) = Len(T) /\ (f \in DOMAIN first => Len(first[f]) = Len(T))
  <2>1. f \in DOMAIN first => Len(first[f]) = Len(T)
    BY DEF FitsInv, InPlace
  <2> QED
    BY <1>1, <2>1
<1>7. f \in FilesOf(unit) => text[f] = T
  <2>1. f \in DOMAIN first => first[f] \in Seq(Nat)
    BY KnownIsFile
  <2>2. disk \in [File -> Seq(Nat)]
    BY DEF SessionInv, Known
  <2>3. Readings(f) = {disk[f]}
    BY <1>5, <1>6, <2>1, <2>2, ReadingsAre
  <2> QED
    BY <1>4, <2>3 DEF Adds
<1>8. R \subseteq R1
  BY <1>3, <1>4 DEF Adds
<1>9. ASSUME NEW r \in R1 PROVE r.offset + r.length <= Len(T) + 1 /\ Fits(T, r, names)
  <2>1. CASE r \in DOMAIN context
    <3>1. r \in R
      BY <1>3, <2>1
    <3>2. f \in DOMAIN first
      BY <2>1 DEF SessionInv, Collection
    <3> QED
      BY <3>1, <3>2 DEF FitsInv, InPlace
  <2>2. CASE r \notin DOMAIN context
    <3>1. PICK x \in Range(actions) : x \in Refactoring /\ IsFrom(r, x, text)
      BY <1>4, <2>2 DEF Adds
    <3>2. f \in FilesOf(unit)
      BY <1>4, <3>1 DEF IsFrom, Adds
    <3>3. r.offset \in Places(T, x.old) /\ r.length = Len(x.old) /\ r.text = x.new
      BY <1>7, <3>1, <3>2 DEF IsFrom
    <3> DEFINE o == r.offset
               l == r.length
               L == Len(T)
    <3>4. o \in 1..(L - l + 1) /\ SubSeq(T, o, o + l - 1) = x.old
      BY <3>3 DEF Places
    <3>5. L \in Nat /\ l \in Nat
      <4>1. x.old \in Seq(Nat)
        BY <3>1 DEF Refactoring
      <4> QED
        BY <1>5, <3>3, <4>1, LenProperties
    <3>6. Renames(T, r, names)
      BY <3>3, <3>4 DEF Renames
    <3> HIDE DEF o, l, L
    <3>7. o + l <= L + 1
      BY <3>4, <3>5
    <3> QED
      BY <3>6, <3>7 DEF o, l, L, Fits
  <2> QED
    BY <2>1, <2>2
<1>10. ASSUME f \in FilesOf(unit), whole', NEW x \in names PROVE Collected(T, R1, x)
  <2>1. AddsAll(text, DOMAIN context') /\ text[f] = T
    BY <1>4, <1>7, <1>10
  <2>2. ASSUME NEW p \in Places(T, x.old)
        PROVE  \E r \in R1 : PlaceOf(r) = [offset |-> p, length |-> Len(x.old), text |-> x.new]
    <3>1. PICK q \in DOMAIN context' :
            /\ FileOf[q.path] = f
            /\ PlaceOf(q) = [offset |-> p, length |-> Len(x.old), text |-> x.new]
      BY <1>10, <2>1 DEF AddsAll
    <3> QED
      BY <3>1
  <2> HIDE DEF T, R1
  <2> QED
    BY <2>2 DEF Collected
<1>11. InPlace(T, Len(first'[f]), R1, names)
  BY <1>6, <1>9 DEF InPlace
<1> HIDE DEF T, R, R1, names
<1>12. InPlace(disk'[f], Len(first'[f]), For(f)', Range(actions)')
  BY <1>2, <1>3, <1>11 DEF T, names
<1>13. For(f) \subseteq For(f)' /\ disk'[f] = disk[f]
  BY <1>2, <1>3, <1>8 DEF R
<1>14. ASSUME f \in FilesOf(unit), whole', NEW x \in Range(actions)
       PROVE  Collected(disk'[f], For(f)', x)
  BY <1>2, <1>3, <1>10, <1>14 DEF T, names
<1> QED
  BY <1>12, <1>13, <1>14 DEF ParsedWell

(* save() keeps in place what it does not change otherwise.                *)
LEMMA SavesInPlace ==
  ASSUME SessionInv, FitsInv, Save, NEW f \in DOMAIN first, f \notin changed'
  PROVE  /\ f \notin changed
         /\ InPlace(disk'[f], Len(first[f]), For(f), Range(actions))
<1> DEFINE T == disk[f]
           R == For(f)
           names == Range(actions)
           written == Rewritten(disk[f], Kept(Deduplicate(context), For(f)))
<1>1. PICK text, unwritten : \A g \in File : Saves(g, text, unwritten)
  BY SaveDoes
<1>2. f \in File
  BY KnownIsFile
<1>3. Saves(f, text, unwritten)
  BY <1>1, <1>2
<1>4. f \notin changed
  BY <1>3 DEF Saves
<1>5. InPlace(T, Len(first[f]), R, names)
  BY <1>4 DEF FitsInv
<1>6. CASE For(f) # {} /\ f \notin unwritten
  <2>1. /\ text[f] \in Readings(f)
        /\ disk'[f] = Rewritten(text[f], Kept(Deduplicate(context), For(f)))
        /\ Sound(f) /\ KeepsLength(f)
    BY <1>3, <1>6 DEF Saves
  <2>2. WritesExactly(f, disk'[f])
    BY <2>1, SoundIsRenamed
  <2>3. PICK M : IsExact(disk'[f], T, R, M)
    BY <2>2 DEF WritesExactly
  <2>4. KeepLength(R)
    BY <2>1 DEF KeepsLength, KeepLength
  <2>5. /\ Len(disk'[f]) = Len(T)
        /\ \A r \in R : SubSeq(disk'[f], r.offset, r.offset + r.length - 1) = r.text
    BY <2>3, <2>4 DEF IsExact
  <2> HIDE DEF T, R, names
  <2>6. InPlace(disk'[f], Len(first[f]), R, names)
    BY <1>5, <2>5 DEF InPlace, Fits
  <2> QED
    BY <1>4, <2>6 DEF R, names
<1>7. CASE ~(For(f) # {} /\ f \notin unwritten)
  <2>1. disk'[f] = disk[f]
    BY <1>3, <1>7 DEF Saves
  <2> QED
    BY <1>4, <1>5, <2>1
<1> QED
  BY <1>6, <1>7

(* A new task has nothing that could be out of place ...                   *)
LEMMA PlacesStart == Init => PlacesInv
<1> SUFFICES ASSUME Init PROVE PlacesInv
  OBVIOUS
<1>1. DOMAIN first = {} /\ unit = 0
  BY DEF Init
<1> QED
  BY <1>1, SessionStarts DEF PlacesInv, FitsInv, CoveredInv, RunInv, FilesInv

(* ... and no step brings anything out of place.                           *)
LEMMA PlacesStep == PlacesInv /\ [Next]_vars => PlacesInv'
<1> SUFFICES ASSUME PlacesInv, [Next]_vars PROVE PlacesInv'
  OBVIOUS
<1>0. SessionInv /\ FitsInv /\ CoveredInv /\ RunInv /\ FilesInv /\ SessionInv'
  BY SessionStep DEF PlacesInv
<1>1. CASE AddRefactoring
  <2>1. /\ UNCHANGED <<disk, opened, first, context, unit, covered, changed>> /\ unit = 0
        /\ \E r \in Refactorings : actions' = Append(actions, r)
    BY <1>1 DEF AddRefactoring, tool
  <2>2. Range(actions) \subseteq Range(actions')
    <3>1. actions \in Seq(Refactorings)
      BY <1>0 DEF SessionInv, Known
    <3> QED
      BY <2>1, <3>1, RangeAppend
  <2>3. \A f : For(f)' = For(f)
    BY <2>1 DEF For
  <2>4. FitsInv'
    <3>1. ASSUME NEW f \in DOMAIN first, f \notin changed
          PROVE  InPlace(disk[f], Len(first[f]), For(f), Range(actions'))
      <4>1. InPlace(disk[f], Len(first[f]), For(f), Range(actions))
        BY <1>0, <3>1 DEF FitsInv
      <4> QED
        BY <2>2, <4>1, StaysInPlace
    <3> QED
      BY <2>1, <2>3, <3>1 DEF FitsInv
  <2>5. CoveredInv'
    <3>1. \A c \in covered : c[2] \in Range(actions)
      BY <1>0 DEF SessionInv, Progress
    <3>2. \A f, x : <<f, x>> \in covered => x \in Range(actions)
      BY <3>1
    <3> QED
      BY <1>0, <2>1, <2>3, <3>2 DEF CoveredInv
  <2>6. RunInv' /\ FilesInv'
    BY <1>0, <2>1 DEF RunInv, FilesInv
  <2> QED
    BY <1>0, <2>4, <2>5, <2>6 DEF PlacesInv
<1>2. CASE StartRun
  <2>1. /\ UNCHANGED <<disk, opened, first, actions, context, covered, changed>>
        /\ unit' = 1
    BY <1>2 DEF StartRun, tool
  <2>2. \A f : For(f)' = For(f)
    BY <2>1 DEF For
  <2>3. FitsInv' /\ CoveredInv' /\ FilesInv'
    BY <1>0, <2>1, <2>2 DEF FitsInv, CoveredInv, FilesInv
  <2>4. 1..(unit' - 1) = {}
    BY <2>1
  <2>5. RunInv'
    BY <2>4 DEF RunInv
  <2> QED
    BY <1>0, <2>3, <2>5 DEF PlacesInv
<1>3. CASE SkipUnit
  <2>1. /\ UNCHANGED <<disk, opened, first, actions, context, changed>>
        /\ whole' = FALSE /\ covered' = covered
    BY <1>3 DEF SkipUnit, NextUnit, tool
  <2>2. \A f : For(f)' = For(f)
    BY <2>1 DEF For
  <2>3. FitsInv' /\ CoveredInv' /\ FilesInv' /\ RunInv'
    BY <1>0, <2>1, <2>2 DEF FitsInv, CoveredInv, FilesInv, RunInv
  <2> QED
    BY <1>0, <2>3 DEF PlacesInv
<1>4. CASE ParseUnit
  <2>1. /\ unit \in 1..Len(Units) /\ Len(Units) \in Nat
        /\ DOMAIN first' = DOMAIN first \cup FilesOf(unit)
    BY <1>0, <1>4, ParseAdds, UnitsAssumption, LenProperties
  <2>2. UNCHANGED <<disk, actions, changed>> /\ (whole' => whole)
    <3>1. UNCHANGED <<disk, actions, changed>>
      BY <1>4 DEF ParseUnit
    <3>2. UNCHANGED <<whole, disturbances>> \/ (whole' = FALSE /\ Disturb)
      BY <1>4 DEF ParseUnit
    <3>3. whole \in BOOLEAN
      BY <1>0 DEF SessionInv, Progress
    <3> QED
      BY <3>1, <3>2, <3>3
  <2>3. ASSUME NEW f \in DOMAIN first', f \notin changed PROVE ParsedWell(f)
    BY <1>0, <1>4, <2>3, ParsesWell
  <2>4. FitsInv'
    BY <2>2, <2>3 DEF FitsInv, ParsedWell
  <2>5. FilesInv'
    BY <1>0, <2>1 DEF FilesInv
  <2>6. ASSUME whole', NEW j \in 1..unit, NEW f \in FilesOf(j)
        PROVE  /\ f \in DOMAIN first'
               /\ f \notin changed =>
                    \A x \in Range(actions) : Collected(disk'[f], For(f)', x)
    <3>1. CASE j = unit
      <4>1. f \in DOMAIN first'
        BY <2>1, <3>1
      <4> QED
        BY <2>3, <2>6, <3>1, <4>1 DEF ParsedWell
    <3>2. CASE j # unit
      <4>1. j \in 1..(unit - 1) /\ unit # 0 /\ whole
        BY <2>1, <2>2, <2>6, <3>2
      <4>2. /\ f \in DOMAIN first
            /\ f \notin changed => \A x \in Range(actions) : Collected(disk[f], For(f), x)
        BY <1>0, <4>1 DEF RunInv
      <4>3. ASSUME f \notin changed, NEW x \in Range(actions)
            PROVE  Collected(disk'[f], For(f)', x)
        <5>1. For(f) \subseteq For(f)' /\ disk'[f] = disk[f]
          BY <2>1, <2>3, <4>2, <4>3 DEF ParsedWell
        <5>2. Collected(disk[f], For(f), x)
          BY <4>2, <4>3
        <5>3. Collected(disk[f], For(f)', x)
          BY <5>1, <5>2, StaysCollected
        <5> QED
          BY <5>1, <5>3
      <4> QED
        BY <2>1, <4>2, <4>3
    <3> QED
      BY <3>1, <3>2
  <2>7. /\ unit' = IF unit = Len(Units) THEN 0 ELSE unit + 1
        /\ covered' = IF unit = Len(Units) /\ whole'
                      THEN covered \cup (DOMAIN first') \X Range(actions) ELSE covered
    BY <1>4 DEF ParseUnit, NextUnit
  <2>8. RunInv'
    <3>1. ASSUME unit' # 0, NEW j \in 1..(unit' - 1) PROVE j \in 1..unit
      BY <2>1, <2>7, <3>1
    <3> QED
      BY <2>2, <2>6, <3>1 DEF RunInv
  <2>9. CoveredInv'
    <3> SUFFICES ASSUME NEW f \in DOMAIN first', f \notin changed, NEW x \in Range(actions),
                        <<f, x>> \in covered'
                 PROVE  Collected(disk'[f], For(f)', x)
      BY <2>2 DEF CoveredInv
    <3>1. CASE <<f, x>> \in covered
      <4>1. f \in DOMAIN first
        <5>1. \A c \in covered : c[1] \in DOMAIN first
          BY <1>0 DEF SessionInv, Progress
        <5> QED
          BY <3>1, <5>1
      <4>2. Collected(disk[f], For(f), x)
        BY <1>0, <3>1, <4>1 DEF CoveredInv
      <4>3. For(f) \subseteq For(f)' /\ disk'[f] = disk[f]
        BY <2>3 DEF ParsedWell
      <4>4. Collected(disk[f], For(f)', x)
        BY <4>2, <4>3, StaysCollected
      <4> QED
        BY <4>3, <4>4
    <3>2. CASE <<f, x>> \notin covered
      <4>1. unit = Len(Units) /\ whole'
        BY <2>7, <3>2
      <4>2. PICK j \in 1..Len(Units) : f \in FilesOf(j)
        BY <2>5 DEF FilesInv
      <4> QED
        BY <2>6, <4>1, <4>2
    <3> QED
      BY <3>1, <3>2
  <2> QED
    BY <1>0, <2>4, <2>5, <2>8, <2>9 DEF PlacesInv
<1>5. CASE Save
  <2>1. /\ UNCHANGED <<opened, first, actions, context, unit>> /\ unit = 0
        /\ covered' = {c \in covered : disk'[c[1]] = disk[c[1]]}
    BY <1>5 DEF Save, tool
  <2>2. \A f : For(f)' = For(f)
    BY <2>1 DEF For
  <2>3. ASSUME NEW f \in DOMAIN first, f \notin changed'
        PROVE  /\ f \notin changed
               /\ InPlace(disk'[f], Len(first[f]), For(f), Range(actions))
    BY <1>0, <1>5, <2>3, SavesInPlace
  <2>4. FitsInv'
    BY <2>1, <2>2, <2>3 DEF FitsInv
  <2>5. CoveredInv'
    <3>1. \A f, x : <<f, x>> \in covered' => <<f, x>> \in covered /\ disk'[f] = disk[f]
      BY <2>1
    <3> QED
      BY <1>0, <2>1, <2>2, <2>3, <3>1 DEF CoveredInv
  <2>6. RunInv' /\ FilesInv'
    BY <1>0, <2>1 DEF RunInv, FilesInv
  <2> QED
    BY <1>0, <2>4, <2>5, <2>6 DEF PlacesInv
<1>6. CASE DropGroup
  <2>1. /\ UNCHANGED <<disk, opened, first, actions, unit, changed>> /\ unit = 0
        /\ covered' = {} /\ \E r : context' = context (-) SetToBag({r})
    BY <1>6 DEF DropGroup, tool
  <2>2. DOMAIN context' \subseteq DOMAIN context
    <3>1. PICK r : context' = context (-) SetToBag({r})
      BY <2>1
    <3>2. DOMAIN (context (-) SetToBag({r})) \subseteq DOMAIN context
      BY <1>0, BagMinusOne DEF SessionInv, Collection
    <3> QED
      BY <3>1, <3>2
  <2>3. \A f : For(f)' \subseteq For(f)
    BY <2>2 DEF For, BagToSet
  <2>4. FitsInv'
    <3>1. ASSUME NEW f \in DOMAIN first, f \notin changed
          PROVE  InPlace(disk[f], Len(first[f]), For(f)', Range(actions))
      <4>1. InPlace(disk[f], Len(first[f]), For(f), Range(actions))
        BY <1>0, <3>1 DEF FitsInv
      <4>2. For(f)' \in SUBSET For(f)
        BY <2>3
      <4> QED
        BY <4>1, <4>2, StaysInPlace
    <3> QED
      BY <2>1, <3>1 DEF FitsInv
  <2>5. CoveredInv' /\ RunInv' /\ FilesInv'
    BY <1>0, <2>1 DEF CoveredInv, RunInv, FilesInv
  <2> QED
    BY <1>0, <2>4, <2>5 DEF PlacesInv
<1>7. CASE Edit
  <2>1. UNCHANGED <<opened, first, actions, context, unit, whole, covered>>
    BY <1>7 DEF Edit, tool
  <2>2. PICK g \in File : /\ \E text : disk' = [disk EXCEPT ![g] = text]
                          /\ changed' = changed \cup ({g} \cap DOMAIN first)
    BY <1>7 DEF Edit
  <2>3. \A f : For(f)' = For(f)
    BY <2>1 DEF For
  <2>4. ASSUME NEW f \in DOMAIN first, f \notin changed'
        PROVE  f \notin changed /\ disk'[f] = disk[f]
    <3>1. f \notin changed /\ f # g
      BY <2>2, <2>4
    <3>2. DOMAIN disk = File /\ f \in File
      BY <1>0, KnownIsFile DEF SessionInv, Known
    <3> QED
      BY <2>2, <3>1, <3>2
  <2>5. FitsInv' /\ CoveredInv' /\ FilesInv'
    BY <1>0, <2>1, <2>3, <2>4 DEF FitsInv, CoveredInv, FilesInv
  <2>6. RunInv'
    BY <1>0, <2>1, <2>3, <2>4 DEF RunInv
  <2> QED
    BY <1>0, <2>5, <2>6 DEF PlacesInv
<1>8. CASE UNCHANGED vars
  <2>1. UNCHANGED <<disk, opened, first, actions, context, unit, whole, covered, changed>>
    BY <1>8 DEF vars
  <2>2. \A f : For(f)' = For(f)
    BY <2>1 DEF For
  <2>3. FitsInv' /\ CoveredInv' /\ RunInv' /\ FilesInv'
    BY <1>0, <2>1, <2>2 DEF FitsInv, CoveredInv, RunInv, FilesInv
  <2> QED
    BY <1>0, <2>3 DEF PlacesInv
<1> QED
  BY <1>1, <1>2, <1>3, <1>4, <1>5, <1>6, <1>7, <1>8 DEF Next

(* What save() did to a file that it deals with correctly.                 *)
LEMMA SaveRenames ==
  ASSUME PlacesInv, Save, NEW f \in File, Sound(f)
  PROVE  /\ IsRenaming(f, {})
         /\ f \in DOMAIN first /\ saved' =>
              IsRenaming(f, Renamings(disk[f], {x \in Range(actions) : <<f, x>> \in covered}))
<1> DEFINE X == {x \in Range(actions) : <<f, x>> \in covered}
           T == disk[f]
           all == Renamings(T, Range(actions))
<1>1. PICK text, unwritten : /\ \A g \in File : Saves(g, text, unwritten)
                             /\ saved' => unwritten = {}
  BY SaveDoes
<1>2. Saves(f, text, unwritten)
  BY <1>1
<1>3. \A x \in X : f \in DOMAIN first => Collected(T, For(f), x)
  BY DEF PlacesInv, CoveredInv, Sound
<1>4. ASSUME NEW m \in Renamings(T, X) PROVE \E x \in X : m \in Renamings(T, {x})
  BY DEF Renamings
<1>5. CASE For(f) # {} /\ f \notin unwritten
  <2>1. f \in DOMAIN first
    BY <1>5 DEF PlacesInv, SessionInv, Collection, For, BagToSet
  <2>2. text[f] \in Readings(f)
        /\ disk'[f] = Rewritten(text[f], Kept(Deduplicate(context), For(f)))
    BY <1>2, <1>5 DEF Saves
  <2>3. WritesExactly(f, disk'[f])
    BY <2>1, <2>2, SoundIsRenamed DEF PlacesInv
  <2>4. PICK M \in SUBSET all :
          /\ IsExact(disk'[f], T, For(f), M)
          /\ \A x \in Range(actions) : Collected(T, For(f), x) =>
               Renamings(T, {x}) \subseteq M
    BY <2>3 DEF WritesExactly
  <2>5. disk'[f] = Renamed(T, M)
    BY <2>4 DEF IsExact
  <2>6. Renamings(T, X) \subseteq M
    BY <1>3, <1>4, <2>1, <2>4
  <2>7. {} \cup M = M /\ Renamings(T, X) \cup M = M
    BY <2>6
  <2> HIDE DEF X
  <2> QED
    BY <2>5, <2>7 DEF IsRenaming, X
<1>6. CASE ~(For(f) # {} /\ f \notin unwritten)
  <2>1. disk'[f] = T
    BY <1>2, <1>6 DEF Saves
  <2>2. Renamed(T, {}) = T
    <3>1. T \in Seq(Nat)
      BY DEF PlacesInv, SessionInv, Known
    <3> QED
      BY <3>1, RenamedNothing
  <2>3. ASSUME f \in DOMAIN first, saved' PROVE Renamings(T, X) = {}
    <3>1. For(f) = {}
      BY <1>1, <1>6, <2>3
    <3>2. ASSUME NEW x \in X, NEW m \in Renamings(T, {x}) PROVE FALSE
      <4>1. PICK p \in Places(T, x.old) : TRUE
        BY <3>2 DEF Renamings
      <4>2. Collected(T, {}, x)
        BY <1>3, <2>3, <3>1
      <4> QED
        BY <4>1, <4>2 DEF Collected
    <3> QED
      BY <1>4, <3>2
  <2>4. disk'[f] = Renamed(T, {} \cup {})
    BY <2>1, <2>2
  <2>5. ASSUME NEW places, places = {} PROVE IsRenaming(f, places)
    BY <2>4, <2>5 DEF IsRenaming
  <2> QED
    BY <2>3, <2>5
<1> QED
  BY <1>5, <1>6

(* However often and in whatever order a client adds, runs, saves and      *)
(* drops, with failing units, failing writes and files edited by others:   *)
(* save() does to a file nothing but rename occurrences of old names,      *)
(* unless the file was changed since it was read, two refactorings want    *)
(* one place, or it has two names and a name changes its length.           *)
THEOREM SaveOnlyRenames == Spec => SaveIsExact
<1> DEFINE Exact == saves' # saves => \A f \in File : Sound(f) => IsRenaming(f, {})
<1>1. PlacesInv /\ [Next]_vars => [Exact]_vars
  <2> SUFFICES ASSUME PlacesInv, [Next]_vars, saves' # saves, NEW f \in File, Sound(f)
               PROVE  IsRenaming(f, {})
    OBVIOUS
  <2>1. Save
    BY DEF Next, vars, AddRefactoring, StartRun, SkipUnit, ParseUnit, DropGroup, Edit
  <2> QED
    BY <2>1, SaveRenames
<1>2. Spec => []PlacesInv
  BY PlacesStart, PlacesStep, PTL DEF Spec
<1> QED
  BY <1>1, <1>2, PTL DEF Spec, SaveIsExact

(* After a run in which nothing failed, whatever went wrong before it, a   *)
(* save() that writes everything renames every occurrence that the run was *)
(* to find, also when it repeats a save() that failed.                     *)
THEOREM RetryRenamesAll == Spec => RetryIsComplete
<1> DEFINE Complete ==
      saves' # saves /\ saved' =>
        \A f \in DOMAIN first :
          Sound(f) =>
            IsRenaming(f, Renamings(disk[f], {x \in Range(actions) : <<f, x>> \in covered}))
<1>1. PlacesInv /\ [Next]_vars => [Complete]_vars
  <2> SUFFICES ASSUME PlacesInv, [Next]_vars, saves' # saves, saved',
                      NEW f \in DOMAIN first, Sound(f)
               PROVE  IsRenaming(f, Renamings(disk[f],
                                      {x \in Range(actions) : <<f, x>> \in covered}))
    OBVIOUS
  <2>1. Save
    BY DEF Next, vars, AddRefactoring, StartRun, SkipUnit, ParseUnit, DropGroup, Edit
  <2>2. f \in File
    BY KnownIsFile DEF PlacesInv
  <2> QED
    BY <2>1, <2>2, SaveRenames
<1>2. Spec => []PlacesInv
  BY PlacesStart, PlacesStep, PTL DEF Spec
<1> QED
  BY <1>1, <1>2, PTL DEF Spec, RetryIsComplete
=============================================================================
