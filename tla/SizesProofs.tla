---------------------------- MODULE SizesProofs ----------------------------
(***************************************************************************)
(* What the folds of module Sizes compute, for sequences of any length.    *)
(*                                                                         *)
(* A fold is defined by a function on the sets of indices, which is only   *)
(* said to be chosen: that there is one, and what it is at 1..k, is shown  *)
(* by induction on k.  FoldExists is the first half, for any operation on  *)
(* integers; ElementsFold and TotalFold are the second.                    *)
(***************************************************************************)
EXTENDS Sizes, TLAPS, WellFoundedInduction, SequenceTheorems

\* A set that has 0, and with each number up to m the next one, has them
\* all: the smallest number that it has not would be a contradiction.
LEMMA Induction ==
  ASSUME NEW S, NEW m \in Nat, 0 \in S,
         \A k \in 1..m : k - 1 \in S => k \in S
  PROVE  \A k \in 0..m : k \in S
<1>. DEFINE T == {k \in 0..m : k \notin S}
<1>. SUFFICES ASSUME T # {}
              PROVE  FALSE
  OBVIOUS
<1>1. IsWellFoundedOn(OpToRel(<, Nat), Nat)
  BY NatLessThanWellFounded, Zenon
<1>2. T \subseteq Nat
  OBVIOUS
<1>3. PICK k \in T : \A j \in T : ~(<<j, k>> \in OpToRel(<, Nat))
  BY <1>1, <1>2, WFMin, Zenon
<1>4. k \in 1..m /\ k - 1 \in Nat /\ k \in Nat /\ k - 1 < k
  OBVIOUS
<1>5. ~(k - 1 \in T)
  BY <1>3, <1>4, Zenon DEF OpToRel
<1>. QED
  BY <1>4, <1>5

LEMMA LargestOf ==
  ASSUME NEW S, NEW m \in S, \A x \in S : x \in Int /\ x <= m
  PROVE  Max(S) = m
<1>1. \E x \in S : \A y \in S : x >= y
  OBVIOUS
<1>. QED
  BY <1>1 DEF Max

\* The last of some indices, and the indices before it.
LEMMA LastIndex ==
  ASSUME NEW n \in Nat, NEW t \in SUBSET (1..n), t # {}
  PROVE  /\ Max(t) \in t /\ Max(t) \in 1..n
         /\ t \ {Max(t)} \in SUBSET (1..n)
<1>. DEFINE S == {k \in 0..n : \/ \A x \in t : x > k
                               \/ \E m \in t : \A x \in t : x <= k => x <= m}
<1>1. 0 \in S
  OBVIOUS
<1>2. ASSUME NEW k \in 1..n, k - 1 \in S
      PROVE  k \in S
  <2>1. CASE k \in t
    BY <2>1
  <2>2. CASE k \notin t
    BY <1>2, <2>2
  <2>. QED
    BY <2>1, <2>2
<1>3. n \in S
  <2>. HIDE DEF S
  <2>1. \A k \in 0..n : k \in S
    BY <1>1, <1>2, Induction
  <2>. QED
    BY <2>1
<1>4. \/ \A x \in t : x > n
      \/ \E m \in t : \A x \in t : x <= n => x <= m
  BY <1>3
<1>5. \A x \in t : x \in Int /\ x <= n /\ ~(x > n)
  OBVIOUS
<1>. HIDE DEF S
<1>6. PICK m \in t : \A x \in t : x \in Int /\ x <= m
  BY <1>4, <1>5
<1>7. Max(t) = m
  BY <1>6, LargestOf
<1>. QED
  BY <1>7

LEMMA FirstIndices ==
  ASSUME NEW n \in Nat, NEW k \in 1..n
  PROVE  /\ 1..k \in SUBSET (1..n) /\ 1..k # {}
         /\ Max(1..k) = k
         /\ (1..k) \ {k} = 1..(k - 1)
<1>1. k \in 1..k /\ (\A x \in 1..k : x \in Int /\ x <= k) /\ 1..k \in SUBSET (1..n)
  OBVIOUS
<1>2. Max(1..k) = k
  BY <1>1, LargestOf
<1>3. \A x : x \in (1..k) \ {k} <=> x \in 1..(k - 1)
  OBVIOUS
<1>4. (1..k) \ {k} = 1..(k - 1)
  BY <1>3, Zenon
<1>. QED
  BY <1>1, <1>2, <1>4

\* For any op there is a function on the sets of indices as FoldLeft has it.
LEMMA FoldExists ==
  ASSUME NEW op \in [Int \X Int -> Int], NEW base \in Int, NEW s \in Seq(Int)
  PROVE  \E f \in [SUBSET (1..Len(s)) -> Int] :
           \A t \in SUBSET (1..Len(s)) :
             f[t] = IF t = {} THEN base ELSE op[<<f[t \ {Max(t)}], s[Max(t)]>>]
<1>. DEFINE Folds(f, k) ==
       /\ f \in [SUBSET (1..k) -> Int]
       /\ \A t \in SUBSET (1..k) :
            f[t] = IF t = {} THEN base ELSE op[<<f[t \ {Max(t)}], s[Max(t)]>>]
<1>. DEFINE S == {k \in 0..Len(s) : \E f : Folds(f, k)}
<1>1. 0 \in S
  <2>1. Folds([t \in SUBSET (1..0) |-> base], 0)
    <3>. DEFINE g == [t \in SUBSET (1..0) |-> base]
    <3>1. \A t \in SUBSET (1..0) : t = {}
      OBVIOUS
    <3>2. g \in [SUBSET (1..0) -> Int] /\ \A t \in SUBSET (1..0) : g[t] = base
      OBVIOUS
    <3>. HIDE DEF g
    <3>3. Folds(g, 0)
      BY <3>1, <3>2
    <3>. QED
      BY <3>3 DEF g
  <2>2. \E f : Folds(f, 0)
    <3>. HIDE DEF Folds
    <3>. QED
      BY <2>1
  <2>. HIDE DEF Folds
  <2>. QED
    BY <2>2
<1>2. ASSUME NEW k \in 1..Len(s), k - 1 \in S
      PROVE  k \in S
  <2>1. PICK f : Folds(f, k - 1)
    BY <1>2
  <2>2. \A t \in SUBSET (1..k) : k \notin t => t \in SUBSET (1..(k - 1))
    OBVIOUS
  <2>3. \A t \in SUBSET (1..k) : t \ {k} \in SUBSET (1..(k - 1))
    OBVIOUS
  <2>4. ASSUME NEW t \in SUBSET (1..k), k \in t
        PROVE  Max(t) = k
    <3>1. \A x \in t : x \in Int /\ x <= k
      OBVIOUS
    <3>. QED
      BY <2>4, <3>1, LargestOf, Zenon
  <2>. DEFINE g == [t \in SUBSET (1..k) |->
                      IF k \in t THEN op[<<f[t \ {k}], s[k]>>] ELSE f[t]]
  <2>6. s[k] \in Int
    OBVIOUS
  <2>7. g \in [SUBSET (1..k) -> Int]
    <3>1. ASSUME NEW t \in SUBSET (1..k)
          PROVE  (IF k \in t THEN op[<<f[t \ {k}], s[k]>>] ELSE f[t]) \in Int
      BY <2>1, <2>2, <2>3, <2>6
    <3>. QED
      BY <3>1
  <2>8. ASSUME NEW t \in SUBSET (1..k)
        PROVE  g[t] = IF t = {} THEN base ELSE op[<<g[t \ {Max(t)}], s[Max(t)]>>]
    <3>1. CASE k \in t
      <4>1. t \ {k} \in SUBSET (1..k) /\ k \notin t \ {k}
        OBVIOUS
      <4>2. g[t \ {k}] = f[t \ {k}]
        BY <4>1
      <4>. QED
        BY <3>1, <2>4, <4>2
    <3>2. CASE k \notin t /\ t # {}
      <4>1. t \in SUBSET (1..(k - 1)) /\ k - 1 \in Nat
        BY <2>2, <3>2
      <4>2. PICK m : m = Max(t)
        OBVIOUS
      <4>3. t \ {m} \in SUBSET (1..(k - 1))
        BY <4>1, <4>2, <3>2, LastIndex
      <4>4. t \ {m} \in SUBSET (1..k) /\ k \notin t \ {m}
        BY <4>3
      <4>5. g[t \ {m}] = f[t \ {m}] /\ g[t] = f[t]
        BY <4>4, <3>2
      <4>. QED
        BY <2>1, <4>1, <4>2, <4>5, <3>2
    <3>3. CASE t = {}
      <4>1. g[t] = f[t] /\ t \in SUBSET (1..(k - 1))
        BY <3>3
      <4>. QED
        BY <2>1, <4>1, <3>3
    <3>. QED
      BY <3>1, <3>2, <3>3
  <2>9. Folds(g, k)
    <3>. HIDE DEF g
    <3>. QED
      BY <2>7, <2>8
  <2>10. \E h : Folds(h, k)
    <3>. HIDE DEF Folds, g
    <3>. QED
      BY <2>9
  <2>. HIDE DEF Folds, g
  <2>. QED
    BY <2>10
<1>3. Len(s) \in S
  <2>. HIDE DEF S
  <2>1. Len(s) \in Nat
    OBVIOUS
  <2>2. \A k \in 0..Len(s) : k \in S
    BY <1>1, <1>2, <2>1, Induction
  <2>. QED
    BY <2>1, <2>2
<1>. QED
  BY <1>3

-----------------------------------------------------------------------------
\* The products of the first k dimensions, and the number of elements.
LEMMA ElementsFold ==
  ASSUME NEW s \in Seq(Int)
  PROVE  \E h \in [0..Len(s) -> Int] :
           /\ h[0] = 1
           /\ \A k \in 1..Len(s) : h[k] = h[k - 1] * s[k]
           /\ Elements(s) = h[Len(s)]
<1>. DEFINE Is(f) == f = [t \in SUBSET DOMAIN s |->
                           IF t = {} THEN 1 ELSE f[t \ {Max(t)}] * s[Max(t)]]
            F == CHOOSE f : Is(f)
<1>1. Elements(s) = F[DOMAIN s]
  BY Zenon DEF Elements, FoldLeft, MapThenFoldSet
<1>2. DOMAIN s = 1..Len(s) /\ Len(s) \in Nat
  OBVIOUS
<1>3. \E f : Is(f)
  <2>. DEFINE op == [p \in Int \X Int |-> p[1] * p[2]]
  <2>1. op \in [Int \X Int -> Int] /\ \A a, b \in Int : op[<<a, b>>] = a * b
    OBVIOUS
  <2>. HIDE DEF op
  <2>2. PICK f \in [SUBSET (1..Len(s)) -> Int] :
          \A t \in SUBSET (1..Len(s)) :
            f[t] = IF t = {} THEN 1 ELSE op[<<f[t \ {Max(t)}], s[Max(t)]>>]
    <3>1. 1 \in Int
      OBVIOUS
    <3>. QED
      BY <2>1, <3>1, FoldExists, Zenon
  <2>3. ASSUME NEW t \in SUBSET (1..Len(s)), t # {}
        PROVE  op[<<f[t \ {Max(t)}], s[Max(t)]>>] = f[t \ {Max(t)}] * s[Max(t)]
    <3>1. PICK m : m = Max(t)
      OBVIOUS
    <3>2. m \in 1..Len(s) /\ t \ {m} \in SUBSET (1..Len(s))
      BY <1>2, <2>3, <3>1, LastIndex
    <3>3. f[t \ {m}] \in Int
      BY <2>2, <3>2
    <3>4. s[m] \in Int
      BY <3>2
    <3>. QED
      BY <2>1, <3>1, <3>3, <3>4
  <2>4. Is(f)
    BY <1>2, <2>2, <2>3
  <2>. QED
    BY <2>4, Zenon
<1>4. Is(F)
  BY <1>3, Zenon
<1>. HIDE DEF F
<1>5. F[{}] = 1
  BY <1>4
<1>6. ASSUME NEW k \in 1..Len(s)
      PROVE  F[1..k] = F[1..(k - 1)] * s[k]
  <2>1. /\ 1..k \in SUBSET (1..Len(s)) /\ 1..k # {}
        /\ Max(1..k) = k
        /\ (1..k) \ {k} = 1..(k - 1)
    BY <1>2, FirstIndices
  <2>. QED
    BY <1>2, <1>4, <2>1
<1>. DEFINE h == [k \in 0..Len(s) |-> F[1..k]]
<1>7. h[0] = 1 /\ Elements(s) = h[Len(s)] /\ \A k \in 1..Len(s) : h[k] = h[k - 1] * s[k]
  <2>1. 1..0 = {}
    OBVIOUS
  <2>. QED
    BY <1>1, <1>2, <1>5, <1>6, <2>1
<1>. DEFINE S == {k \in 0..Len(s) : h[k] \in Int}
<1>8. \A k \in 0..Len(s) : k \in S
  <2>. HIDE DEF h
  <2>1. 0 \in S
    BY <1>2, <1>7
  <2>2. ASSUME NEW k \in 1..Len(s), k - 1 \in S
        PROVE  k \in S
    BY <1>2, <1>7, <2>2
  <2>. HIDE DEF S
  <2>. QED
    BY <1>2, <2>1, <2>2, Induction
<1>9. h \in [0..Len(s) -> Int]
  BY <1>8
<1>. HIDE DEF h, S
<1>. QED
  BY <1>7, <1>9

\* A shape of numbers has a number of elements.
LEMMA ElementsIsNat ==
  ASSUME NEW s \in Seq(Nat)
  PROVE  Elements(s) \in Nat
<1>0. s \in Seq(Int) /\ Len(s) \in Nat /\ \A k \in 1..Len(s) : s[k] \in Nat
  OBVIOUS
<1>1. PICK h \in [0..Len(s) -> Int] :
        /\ h[0] = 1
        /\ \A k \in 1..Len(s) : h[k] = h[k - 1] * s[k]
        /\ Elements(s) = h[Len(s)]
  BY <1>0, ElementsFold
<1>. DEFINE S == {k \in 0..Len(s) : h[k] \in Nat}
<1>2. 0 \in S
  BY <1>0, <1>1
<1>3. ASSUME NEW k \in 1..Len(s), k - 1 \in S
      PROVE  k \in S
  <2>1. h[k - 1] \in Nat /\ s[k] \in Nat /\ h[k] = h[k - 1] * s[k]
    BY <1>0, <1>1, <1>3
  <2>2. \A a, b \in Nat : a * b \in Nat
    OBVIOUS
  <2>. QED
    BY <2>1, <2>2
<1>4. \A k \in 0..Len(s) : k \in S
  <2>. HIDE DEF S
  <2>. QED
    BY <1>0, <1>2, <1>3, Induction
<1>. QED
  BY <1>0, <1>1, <1>4

\* Matrices, and arrays of four dimensions.
LEMMA ElementsOfTuples ==
  ASSUME NEW a \in Int, NEW b \in Int, NEW c \in Int, NEW d \in Int
  PROVE  /\ Elements(<<a>>) = a
         /\ Elements(<<a, b>>) = a * b
         /\ Elements(<<a, b, c, d>>) = a * b * c * d
<1>1. Elements(<<a>>) = a
  <2>1. <<a>> \in Seq(Int) /\ Len(<<a>>) = 1
    OBVIOUS
  <2>2. PICK h \in [0..1 -> Int] :
          /\ h[0] = 1
          /\ \A k \in 1..1 : h[k] = h[k - 1] * <<a>>[k]
          /\ Elements(<<a>>) = h[1]
    BY <2>1, ElementsFold
  <2>3. h[1] = h[0] * a
    BY <2>2
  <2>. QED
    BY <2>2, <2>3
<1>2. Elements(<<a, b>>) = a * b
  <2>1. <<a, b>> \in Seq(Int) /\ Len(<<a, b>>) = 2
    OBVIOUS
  <2>2. PICK h \in [0..2 -> Int] :
          /\ h[0] = 1
          /\ \A k \in 1..2 : h[k] = h[k - 1] * <<a, b>>[k]
          /\ Elements(<<a, b>>) = h[2]
    BY <2>1, ElementsFold
  <2>3. h[1] = h[0] * a /\ h[2] = h[1] * b
    BY <2>2
  <2>. QED
    BY <2>2, <2>3
<1>3. Elements(<<a, b, c, d>>) = a * b * c * d
  <2>1. <<a, b, c, d>> \in Seq(Int) /\ Len(<<a, b, c, d>>) = 4
    OBVIOUS
  <2>2. PICK h \in [0..4 -> Int] :
          /\ h[0] = 1
          /\ \A k \in 1..4 : h[k] = h[k - 1] * <<a, b, c, d>>[k]
          /\ Elements(<<a, b, c, d>>) = h[4]
    BY <2>1, ElementsFold
  <2>3. h[1] = h[0] * a /\ h[2] = h[1] * b /\ h[3] = h[2] * c /\ h[4] = h[3] * d
    BY <2>2
  <2>. QED
    BY <2>2, <2>3
<1>. QED
  BY <1>1, <1>2, <1>3

-----------------------------------------------------------------------------
\* The sums of the first k sizes, and the total.
LEMMA TotalFold ==
  ASSUME NEW s \in Seq(Int)
  PROVE  \E h \in [0..Len(s) -> Int] :
           /\ h[0] = 0
           /\ \A k \in 1..Len(s) : h[k] = h[k - 1] + s[k]
           /\ Total(s) = h[Len(s)]
<1>. DEFINE Is(f) == f = [t \in SUBSET DOMAIN s |->
                           IF t = {} THEN 0 ELSE f[t \ {Max(t)}] + s[Max(t)]]
            F == CHOOSE f : Is(f)
<1>1. Total(s) = F[DOMAIN s]
  BY Zenon DEF Total, FoldLeft, MapThenFoldSet
<1>2. DOMAIN s = 1..Len(s) /\ Len(s) \in Nat
  OBVIOUS
<1>3. \E f : Is(f)
  <2>. DEFINE op == [p \in Int \X Int |-> p[1] + p[2]]
  <2>1. op \in [Int \X Int -> Int] /\ \A a, b \in Int : op[<<a, b>>] = a + b
    OBVIOUS
  <2>. HIDE DEF op
  <2>2. PICK f \in [SUBSET (1..Len(s)) -> Int] :
          \A t \in SUBSET (1..Len(s)) :
            f[t] = IF t = {} THEN 0 ELSE op[<<f[t \ {Max(t)}], s[Max(t)]>>]
    <3>1. 0 \in Int
      OBVIOUS
    <3>. QED
      BY <2>1, <3>1, FoldExists, Zenon
  <2>3. ASSUME NEW t \in SUBSET (1..Len(s)), t # {}
        PROVE  op[<<f[t \ {Max(t)}], s[Max(t)]>>] = f[t \ {Max(t)}] + s[Max(t)]
    <3>1. PICK m : m = Max(t)
      OBVIOUS
    <3>2. m \in 1..Len(s) /\ t \ {m} \in SUBSET (1..Len(s))
      BY <1>2, <2>3, <3>1, LastIndex
    <3>3. f[t \ {m}] \in Int
      BY <2>2, <3>2
    <3>4. s[m] \in Int
      BY <3>2
    <3>. QED
      BY <2>1, <3>1, <3>3, <3>4
  <2>4. Is(f)
    BY <1>2, <2>2, <2>3
  <2>. QED
    BY <2>4, Zenon
<1>4. Is(F)
  BY <1>3, Zenon
<1>. HIDE DEF F
<1>5. F[{}] = 0
  BY <1>4
<1>6. ASSUME NEW k \in 1..Len(s)
      PROVE  F[1..k] = F[1..(k - 1)] + s[k]
  <2>1. /\ 1..k \in SUBSET (1..Len(s)) /\ 1..k # {}
        /\ Max(1..k) = k
        /\ (1..k) \ {k} = 1..(k - 1)
    BY <1>2, FirstIndices
  <2>. QED
    BY <1>2, <1>4, <2>1
<1>. DEFINE h == [k \in 0..Len(s) |-> F[1..k]]
<1>7. h[0] = 0 /\ Total(s) = h[Len(s)] /\ \A k \in 1..Len(s) : h[k] = h[k - 1] + s[k]
  <2>1. 1..0 = {}
    OBVIOUS
  <2>. QED
    BY <1>1, <1>2, <1>5, <1>6, <2>1
<1>. DEFINE S == {k \in 0..Len(s) : h[k] \in Int}
<1>8. \A k \in 0..Len(s) : k \in S
  <2>. HIDE DEF h
  <2>1. 0 \in S
    BY <1>2, <1>7
  <2>2. ASSUME NEW k \in 1..Len(s), k - 1 \in S
        PROVE  k \in S
    BY <1>2, <1>7, <2>2
  <2>. HIDE DEF S
  <2>. QED
    BY <1>2, <2>1, <2>2, Induction
<1>9. h \in [0..Len(s) -> Int]
  BY <1>8
<1>. HIDE DEF h, S
<1>. QED
  BY <1>7, <1>9

\* One size more.
LEMMA TotalOfAppend ==
  ASSUME NEW s \in Seq(Int), NEW n \in Int
  PROVE  Total(s) \in Int /\ Total(Append(s, n)) = Total(s) + n
<1>. DEFINE t == Append(s, n)
<1>0. /\ t \in Seq(Int) /\ Len(s) \in Nat /\ Len(t) = Len(s) + 1
      /\ \A k \in 1..Len(s) : t[k] = s[k] /\ s[k] \in Int
      /\ t[Len(s) + 1] = n
  OBVIOUS
<1>. HIDE DEF t
<1>1. PICK h \in [0..Len(s) -> Int] :
        /\ h[0] = 0
        /\ \A k \in 1..Len(s) : h[k] = h[k - 1] + s[k]
        /\ Total(s) = h[Len(s)]
  BY TotalFold
<1>2. PICK g \in [0..Len(t) -> Int] :
        /\ g[0] = 0
        /\ \A k \in 1..Len(t) : g[k] = g[k - 1] + t[k]
        /\ Total(t) = g[Len(t)]
  BY <1>0, TotalFold
<1>. DEFINE S == {k \in 0..Len(s) : g[k] = h[k]}
<1>3. 0 \in S
  BY <1>0, <1>1, <1>2
<1>4. ASSUME NEW k \in 1..Len(s), k - 1 \in S
      PROVE  k \in S
  BY <1>0, <1>1, <1>2, <1>4
<1>5. \A k \in 0..Len(s) : k \in S
  <2>. HIDE DEF S
  <2>. QED
    BY <1>0, <1>3, <1>4, Induction
<1>6. g[Len(s)] = h[Len(s)]
  BY <1>0, <1>5
<1>7. g[Len(s) + 1] = g[Len(s)] + n
  <2>1. Len(s) + 1 \in 1..Len(t) /\ (Len(s) + 1) - 1 = Len(s)
    BY <1>0
  <2>. QED
    BY <1>0, <1>2, <2>1
<1>. QED
  BY <1>0, <1>1, <1>2, <1>6, <1>7 DEF t

\* The total of one size more from the front.
LEMMA TotalOfPrefix ==
  ASSUME NEW s \in Seq(Int), NEW k \in 1..Len(s)
  PROVE  /\ Total(SubSeq(s, 1, k - 1)) \in Int
         /\ Total(SubSeq(s, 1, k)) = Total(SubSeq(s, 1, k - 1)) + s[k]
<1>1. s[k] \in Int /\ SubSeq(s, 1, k - 1) \in Seq(Int)
  OBVIOUS
<1>2. SubSeq(s, 1, k) = Append(SubSeq(s, 1, k - 1), s[k])
  OBVIOUS
<1>. QED
  BY <1>1, <1>2, TotalOfAppend

LEMMA TotalOfNone == Total(<<>>) = 0
<1>1. <<>> \in Seq(Int) /\ Len(<<>>) = 0
  OBVIOUS
<1>. QED
  BY <1>1, TotalFold

LEMMA ElementsOfNone == Elements(<<>>) = 1
<1>1. <<>> \in Seq(Int) /\ Len(<<>>) = 0
  OBVIOUS
<1>. QED
  BY <1>1, ElementsFold

-----------------------------------------------------------------------------
(***************************************************************************)
(* Arrays, row by row in one sequence.                                     *)
(***************************************************************************)

\* An element of an array of U rows of V elements: where it is, and back.
LEMMA RowMajor ==
  ASSUME NEW U \in Int, NEW V \in Int, NEW u \in UpTo(U), NEW v \in UpTo(V)
  PROVE  /\ u * V + v \in UpTo(U * V)
         /\ (u * V + v) \div V = u
         /\ (u * V + v) % V = v
<1>1. /\ V \in Nat /\ V > 0 /\ u \in Nat /\ v \in Nat /\ v < V
      /\ U \in Nat /\ u <= U - 1
  BY DEF UpTo
<1>2. PICK d \in Int : d = U - 1 - u /\ d >= 0
  BY <1>1
<1>3. d * V >= 0 /\ u * V >= 0 /\ d * V \in Int /\ u * V \in Int
  BY <1>1, <1>2
<1>4. U * V = u * V + d * V + V
  <2>1. U = u + d + 1
    BY <1>1, <1>2
  <2>. QED
    BY <1>1, <1>2, <2>1
<1>5. u * V + v \in UpTo(U * V)
  BY <1>1, <1>3, <1>4 DEF UpTo
<1>6. (u * V + v) \div V = u
  BY <1>1
<1>7. (u * V + v) % V = v
  BY <1>1
<1>. QED
  BY <1>5, <1>6, <1>7

\* Every element of the array has a row and a column.
LEMMA RowMajorInverse ==
  ASSUME NEW U \in Nat, NEW V \in Nat, NEW c \in UpTo(U * V)
  PROVE  /\ c \div V \in UpTo(U) /\ c % V \in UpTo(V)
         /\ c = (c \div V) * V + (c % V)
<1>1. V > 0 /\ c \in Nat /\ c < U * V
  <2>1. V # 0
    BY DEF UpTo
  <2>. QED
    BY <2>1 DEF UpTo
<1>2. PICK q : q = c \div V
  OBVIOUS
<1>3. PICK r : r = c % V
  OBVIOUS
<1>4. q \in Int
  BY <1>1, <1>2
<1>5. r \in 0..(V - 1)
  BY <1>1, <1>3
<1>6. c = V * q + r
  BY <1>1, <1>2, <1>3
<1>7. q >= 0
  <2>1. SUFFICES ASSUME q <= -1 PROVE FALSE
    BY <1>4
  <2>2. V * q <= -V
    BY <1>1, <1>4, <2>1
  <2>. QED
    BY <1>1, <1>4, <1>5, <1>6, <2>2
<1>8. q < U
  <2>1. SUFFICES ASSUME q >= U PROVE FALSE
    BY <1>4
  <2>2. V * q >= V * U
    BY <1>1, <1>4, <2>1
  <2>. QED
    BY <1>1, <1>4, <1>5, <1>6, <2>2
<1>9. q \in UpTo(U) /\ r \in UpTo(V)
  BY <1>4, <1>5, <1>7, <1>8 DEF UpTo
<1>10. c = q * V + r
  BY <1>1, <1>4, <1>5, <1>6
<1>11. c \div V \in UpTo(U) /\ c % V \in UpTo(V)
  BY <1>2, <1>3, <1>9
<1>12. c = (c \div V) * V + (c % V)
  BY <1>2, <1>3, <1>10, Zenon
<1>. QED
  BY <1>11, <1>12
=============================================================================
