--------------------------- MODULE Selections_proofs ---------------------------
(* Facts about numbers, the members of a set in their order, and selections    *)
(* from a sequence, which the proofs about loops over a list rest on.          *)
EXTENDS Selections, Integers, SequenceTheorems, FiniteSetTheorems, WellFoundedInduction, TLAPS

(* Every set of naturals has a least element: strict inclusion of finite   *)
(* sets is well founded.                                                   *)
LEMMA LeastNatural ==
  ASSUME NEW S \in SUBSET Nat, S # {}
  PROVE  \E n \in S : \A m \in S : n <= m
<1> DEFINE T == {0 .. (n - 1) : n \in S}
           R == StrictSubsetOrdering(Nat)
<1>1. IsWellFoundedOn(R, FiniteSubsetsOf(Nat))
  BY FS_StrictSubsetOrderingWellFounded
<1>2. T \subseteq FiniteSubsetsOf(Nat)
  <2> SUFFICES ASSUME NEW n \in S PROVE 0 .. (n - 1) \in FiniteSubsetsOf(Nat)
    OBVIOUS
  <2>1. IsFiniteSet(0 .. (n - 1))
    BY FS_Interval
  <2>2. 0 .. (n - 1) \in SUBSET Nat
    OBVIOUS
  <2> QED
    BY <2>1, <2>2 DEF FiniteSubsetsOf
<1>3. T # {}
  OBVIOUS
<1>4. \A m, n \in S : m < n => <<0 .. (m - 1), 0 .. (n - 1)>> \in R
  <2> TAKE m, n \in S
  <2> HAVE m < n
  <2>1. 0 .. (m - 1) \in SUBSET Nat /\ 0 .. (n - 1) \in SUBSET Nat
    OBVIOUS
  <2>2. 0 .. (m - 1) \subseteq 0 .. (n - 1) /\ m \in 0 .. (n - 1) /\ m \notin 0 .. (m - 1)
    OBVIOUS
  <2> QED
    BY <2>1, <2>2, Zenon DEF StrictSubsetOrdering
<1> HIDE DEF R
<1>5. \E x \in T : \A y \in T : ~(<<y, x>> \in R)
  <2> HIDE DEF T
  <2> QED
    BY <1>1, <1>2, <1>3, WFMin
<1>6. PICK n \in S : \A m \in S : ~(<<0 .. (m - 1), 0 .. (n - 1)>> \in R)
  BY <1>5
<1>7. \A m \in S : ~(m < n)
  BY <1>4, <1>6
<1> QED
  BY <1>7

(* Induction, for a set of numbers: its complement has no least member.    *)
LEMMA InductiveSet ==
  ASSUME NEW S \in SUBSET Nat, 0 \in S, \A n \in S : n + 1 \in S
  PROVE  \A n \in Nat : n \in S
<1> SUFFICES ASSUME Nat \ S # {} PROVE FALSE
  OBVIOUS
<1>1. PICK n \in Nat \ S : \A m \in Nat \ S : n <= m
  BY LeastNatural
<1>2. n # 0 /\ n - 1 \in Nat
  BY <1>1
<1>3. n - 1 \in S
  BY <1>1, <1>2
<1>4. (n - 1) + 1 = n
  BY <1>1
<1> QED
  BY <1>1, <1>3, <1>4

-------------------------------------------------------------------------------
(* The members of a set in their order.                                    *)

(* The members up to a bound.                                              *)
UpTo(set, i) == {j \in set : j <= i}

LEMMA UpToFacts ==
  ASSUME NEW N \in Nat, NEW set \in SUBSET (1 .. N)
  PROVE  /\ IsFiniteSet(set) /\ Cardinality(set) \in 0 .. N
         /\ \A i \in Int : /\ UpTo(set, i) \in SUBSET set
                           /\ IsFiniteSet(UpTo(set, i))
                           /\ Cardinality(UpTo(set, i)) \in 0 .. Cardinality(set)
         /\ \A i \in Int : Cardinality(UpTo(set, i)) =
              Cardinality(UpTo(set, i - 1)) + (IF i \in set THEN 1 ELSE 0)
<1>0. \A j \in set : j \in Int
  OBVIOUS
<1>1. IsFiniteSet(1 .. N) /\ Cardinality(1 .. N) = N
  BY FS_Interval
<1>2. IsFiniteSet(set) /\ Cardinality(set) <= N /\ Cardinality(set) \in Nat
  BY <1>1, FS_Subset, FS_CardinalityType
<1>3. ASSUME NEW i \in Int
      PROVE  /\ UpTo(set, i) \in SUBSET set
             /\ IsFiniteSet(UpTo(set, i))
             /\ Cardinality(UpTo(set, i)) \in 0 .. Cardinality(set)
  <2>1. UpTo(set, i) \in SUBSET set
    BY DEF UpTo
  <2>2. IsFiniteSet(UpTo(set, i)) /\ Cardinality(UpTo(set, i)) <= Cardinality(set)
    BY <1>2, <2>1, FS_Subset
  <2> QED
    BY <1>2, <2>1, <2>2, FS_CardinalityType
<1>4. ASSUME NEW i \in Int
      PROVE  Cardinality(UpTo(set, i)) =
               Cardinality(UpTo(set, i - 1)) + (IF i \in set THEN 1 ELSE 0)
  <2>a. \A j \in Int : (j <= i <=> j <= i - 1 \/ j = i) /\ ~(i <= i - 1)
    BY <1>4
  <2>0. IsFiniteSet(UpTo(set, i - 1)) /\ i - 1 \in Int
    BY <1>3
  <2>1. CASE i \in set
    <3>1. UpTo(set, i) = UpTo(set, i - 1) \cup {i} /\ i \notin UpTo(set, i - 1)
      BY <1>0, <1>4, <2>1, <2>a, Zenon DEF UpTo
    <3> QED
      BY <2>0, <2>1, <3>1, FS_AddElement
  <2>2. CASE i \notin set
    <3>1. UpTo(set, i) = UpTo(set, i - 1)
      BY <1>0, <1>4, <2>2, <2>a, Zenon DEF UpTo
    <3>2. Cardinality(UpTo(set, i - 1)) \in Nat
      BY <2>0, FS_CardinalityType
    <3> QED
      BY <2>2, <3>1, <3>2
  <2> QED
    BY <2>1, <2>2
<1> QED
  BY <1>2, <1>3, <1>4

(* More members up to a greater member.                                    *)
LEMMA RankIncreases ==
  ASSUME NEW N \in Nat, NEW set \in SUBSET (1 .. N), NEW i \in set, NEW j \in set, i < j
  PROVE  Cardinality(UpTo(set, i)) < Cardinality(UpTo(set, j))
<1>1. UpTo(set, i) \in SUBSET UpTo(set, j) /\ j \in UpTo(set, j) /\ j \notin UpTo(set, i)
  <2>1. \A l \in set : l <= i => l <= j
    OBVIOUS
  <2>2. j <= j /\ ~(j <= i)
    OBVIOUS
  <2> QED
    BY <2>1, <2>2, Zenon DEF UpTo
<1>2. i \in Int /\ j \in Int
  OBVIOUS
<1>3. IsFiniteSet(UpTo(set, j)) /\ IsFiniteSet(UpTo(set, i))
  BY <1>2, UpToFacts
<1>4. Cardinality(UpTo(set, i)) <= Cardinality(UpTo(set, j))
      /\ Cardinality(UpTo(set, i)) # Cardinality(UpTo(set, j))
  BY <1>1, <1>3, FS_Subset
<1> QED
  BY <1>3, <1>4, FS_CardinalityType

(* Nth is defined and has its rank.                                        *)
LEMMA NthHasRank ==
  ASSUME NEW N \in Nat, NEW set \in SUBSET (1 .. N), NEW k \in 1 .. Cardinality(set)
  PROVE  Nth(set, k) \in set /\ Cardinality(UpTo(set, Nth(set, k))) = k
<1> DEFINE Reached == {i \in Nat : Cardinality(UpTo(set, i)) >= k}
<1>0. Cardinality(set) \in Nat /\ k \in Nat /\ k >= 1
  <2>1. Cardinality(set) \in 0 .. N
    BY UpToFacts
  <2> QED
    BY <2>1
<1>i. \A l \in set : l \in Int /\ 1 <= l /\ l <= N
  OBVIOUS
<1>1. N \in Reached
  <2>1. UpTo(set, N) = set
    BY <1>i DEF UpTo
  <2> QED
    BY <1>0, <2>1
<1>2. PICK i \in Reached : \A j \in Reached : i <= j
  BY <1>1, LeastNatural
<1>3. i \in Nat /\ Cardinality(UpTo(set, i)) >= k
  BY <1>2
<1>4. Cardinality(UpTo(set, 0)) = 0
  <2>1. UpTo(set, 0) = {}
    <3>1. \A l \in set : ~(l <= 0)
      BY <1>i
    <3> QED
      BY <3>1, Zenon DEF UpTo
  <2> QED
    BY <2>1, FS_EmptySet
<1>5. i # 0 /\ i - 1 \in Nat /\ i \in Int
  BY <1>0, <1>3, <1>4
<1>6. ~(Cardinality(UpTo(set, i - 1)) >= k)
  <2>1. i - 1 \notin Reached
    <3> HIDE DEF Reached
    <3>1. ~(i <= i - 1)
      BY <1>3
    <3> QED
      BY <1>2, <3>1
  <2> QED
    BY <1>5, <2>1
<1>7. Cardinality(UpTo(set, i - 1)) \in Nat /\ Cardinality(UpTo(set, i)) \in Nat
  <2>1. \A l \in Int : Cardinality(UpTo(set, l)) \in 0 .. Cardinality(set)
    BY UpToFacts
  <2> QED
    BY <1>0, <1>5, <2>1
<1>8. Cardinality(UpTo(set, i)) = Cardinality(UpTo(set, i - 1)) + (IF i \in set THEN 1 ELSE 0)
  BY <1>5, UpToFacts
<1>9. i \in set /\ Cardinality(UpTo(set, i)) = k
  BY <1>0, <1>3, <1>6, <1>7, <1>8
<1> QED
  BY <1>9 DEF Nth, UpTo

(* It is the only one of its rank.                                         *)
LEMMA NthIs ==
  ASSUME NEW N \in Nat, NEW set \in SUBSET (1 .. N), NEW i \in set
  PROVE  /\ Cardinality(UpTo(set, i)) \in 1 .. Cardinality(set)
         /\ Nth(set, Cardinality(UpTo(set, i))) = i
<1> DEFINE k == Cardinality(UpTo(set, i))
<1>0. i \in Int /\ i - 1 \in Int
  OBVIOUS
<1>1. k \in 1 .. Cardinality(set)
  <2>1. k \in 0 .. Cardinality(set) /\ Cardinality(set) \in Nat
    BY <1>0, UpToFacts
  <2>2. Cardinality(UpTo(set, i - 1)) \in 0 .. Cardinality(set)
    BY <1>0, UpToFacts
  <2>3. k = Cardinality(UpTo(set, i - 1)) + 1
    BY <1>0, UpToFacts
  <2> QED
    BY <2>1, <2>2, <2>3
<1> DEFINE j == Nth(set, k)
<1>2. j \in set /\ Cardinality(UpTo(set, j)) = k
  <2> HIDE DEF k
  <2> QED
    BY <1>1, NthHasRank
<1> HIDE DEF j
<1>3. ~(i < j) /\ ~(j < i)
  <2>1. ASSUME i < j PROVE FALSE
    <3>1. Cardinality(UpTo(set, i)) < Cardinality(UpTo(set, j))
      BY <1>2, <2>1, RankIncreases
    <3> QED
      BY <1>1, <1>2, <3>1
  <2>2. ASSUME j < i PROVE FALSE
    <3>1. Cardinality(UpTo(set, j)) < Cardinality(UpTo(set, i))
      BY <1>2, <2>2, RankIncreases
    <3> QED
      BY <1>1, <1>2, <3>1
  <2> QED
    BY <2>1, <2>2
<1>4. j \in Int
  BY <1>2
<1> QED
  BY <1>0, <1>1, <1>3, <1>4 DEF j

LEMMA NthIncreases ==
  ASSUME NEW N \in Nat, NEW set \in SUBSET (1 .. N),
         NEW k \in 1 .. Cardinality(set), NEW l \in 1 .. Cardinality(set)
  PROVE  /\ k < l => Nth(set, k) < Nth(set, l)
         /\ k # l => Nth(set, k) # Nth(set, l)
<1> DEFINE i == Nth(set, k)
           j == Nth(set, l)
<1>1. i \in set /\ Cardinality(UpTo(set, i)) = k
  BY NthHasRank
<1>2. j \in set /\ Cardinality(UpTo(set, j)) = l
  BY NthHasRank
<1> HIDE DEF i, j
<1>3. i \in Int /\ j \in Int /\ k \in Int /\ l \in Int
  BY <1>1, <1>2, UpToFacts
<1>4. ASSUME k < l PROVE i < j
  <2>1. i # j
    BY <1>1, <1>2, <1>3, <1>4
  <2>2. ~(j < i)
    <3> SUFFICES ASSUME j < i PROVE FALSE
      OBVIOUS
    <3>1. Cardinality(UpTo(set, j)) < Cardinality(UpTo(set, i))
      BY <1>1, <1>2, RankIncreases
    <3> QED
      BY <1>1, <1>2, <1>3, <1>4, <3>1
  <2> QED
    BY <1>3, <2>1, <2>2
<1>5. k # l => i # j
  BY <1>1, <1>2
<1> QED
  BY <1>4, <1>5 DEF i, j

(* An increasing enumeration of a set gives its members in their order.    *)
Increasing(f, m) == \A k, l \in 1 .. m : k < l => f[k] < f[l]

LEMMA EnumerationSize ==
  ASSUME NEW N \in Nat, NEW m \in Nat, NEW f \in [1 .. m -> 1 .. N], Increasing(f, m),
         NEW k \in 0 .. m
  PROVE  Cardinality({f[l] : l \in 1 .. k}) = k
<1> DEFINE T == {f[l] : l \in 1 .. k}
           g == [l \in 1 .. k |-> f[l]]
<1>1. g \in [1 .. k -> T]
  OBVIOUS
<1>2. ASSUME NEW a \in 1 .. k, NEW b \in 1 .. k, g[a] = g[b] PROVE a = b
  <2>1. a \in 1 .. m /\ b \in 1 .. m /\ a \in Int /\ b \in Int
    OBVIOUS
  <2>2. f[a] = f[b] /\ f[a] \in Int /\ f[b] \in Int
    BY <1>2, <2>1
  <2>3. ~(a < b) /\ ~(b < a)
    BY <2>1, <2>2 DEF Increasing
  <2> QED
    BY <2>1, <2>3
<1>3. \A y \in T : \E a \in 1 .. k : g[a] = y
  OBVIOUS
<1>4. g \in Bijection(1 .. k, T)
  <2> HIDE DEF g, T
  <2> QED
    BY <1>1, <1>2, <1>3 DEF Bijection, Injection, Surjection, IsInjective
<1>5. k \in Nat /\ ExistsBijection(1 .. k, T)
  <2>1. k \in Nat
    OBVIOUS
  <2> HIDE DEF g, T
  <2> QED
    BY <1>4, <2>1 DEF ExistsBijection
<1> QED
  <2> HIDE DEF T
  <2>1. Cardinality(T) = k
    BY <1>5, FS_CountingElements
  <2> QED
    BY <2>1 DEF T

LEMMA Enumeration ==
  ASSUME NEW N \in Nat, NEW m \in Nat, NEW f \in [1 .. m -> 1 .. N], Increasing(f, m)
  PROVE  /\ {f[l] : l \in 1 .. m} \in SUBSET (1 .. N)
         /\ Cardinality({f[l] : l \in 1 .. m}) = m
         /\ \A k \in 1 .. m : Nth({f[l] : l \in 1 .. m}, k) = f[k]
<1> DEFINE set == {f[l] : l \in 1 .. m}
<1>1. set \in SUBSET (1 .. N)
  OBVIOUS
<1>2. Cardinality(set) = m
  <2>1. m \in 0 .. m
    OBVIOUS
  <2>2. \A k \in 0 .. m : Cardinality({f[l] : l \in 1 .. k}) = k
    BY EnumerationSize
  <2> QED
    BY <2>1, <2>2
<1>3. ASSUME NEW k \in 1 .. m PROVE Nth(set, k) = f[k]
  <2>1. UpTo(set, f[k]) = {f[l] : l \in 1 .. k}
    <3>1. ASSUME NEW l \in 1 .. m PROVE f[l] <= f[k] <=> l \in 1 .. k
      <4>1. f[l] \in Int /\ f[k] \in Int
        OBVIOUS
      <4>2. (l < k => f[l] < f[k]) /\ (k < l => f[k] < f[l])
        BY DEF Increasing
      <4> QED
        BY <4>1, <4>2
    <3>2. \A l \in 1 .. k : l \in 1 .. m
      OBVIOUS
    <3> QED
      BY <3>1, <3>2, Zenon DEF UpTo
  <2>2. k \in 0 .. m
    OBVIOUS
  <2>3. Cardinality(UpTo(set, f[k])) = k
    BY <2>1, <2>2, EnumerationSize, SMTT(30)
  <2>4. f[k] \in set
    OBVIOUS
  <2> HIDE DEF set
  <2> QED
    BY <1>1, <2>3, <2>4, NthIs
<1> QED
  BY <1>1, <1>2, <1>3

-------------------------------------------------------------------------------
(* Selections                                                              *)

LEMMA SelectFacts ==
  ASSUME NEW S, NEW s \in Seq(S), NEW I \in SUBSET (1 .. Len(s))
  PROVE  /\ Select(s, I) \in Seq(S)
         /\ Len(Select(s, I)) = Cardinality(I)
         /\ Cardinality(I) \in 0 .. Len(s)
         /\ \A k \in 1 .. Cardinality(I) :
              Nth(I, k) \in I /\ Nth(I, k) \in 1 .. Len(s) /\ Select(s, I)[k] = s[Nth(I, k)]
         /\ \A k, l \in 1 .. Cardinality(I) : k < l => Nth(I, k) < Nth(I, l)
         /\ \A i \in I : \E k \in 1 .. Cardinality(I) : Nth(I, k) = i
<1>0. Len(s) \in Nat
  OBVIOUS
<1>1. Cardinality(I) \in 0 .. Len(s)
  BY <1>0, UpToFacts
<1>2. ASSUME NEW k \in 1 .. Cardinality(I)
      PROVE  Nth(I, k) \in I /\ Nth(I, k) \in 1 .. Len(s)
  <2>1. Nth(I, k) \in I
    BY <1>0, NthHasRank
  <2> QED
    BY <2>1
<1>3. \A k, l \in 1 .. Cardinality(I) : k < l => Nth(I, k) < Nth(I, l)
  BY <1>0, NthIncreases
<1>4. \A i \in I : \E k \in 1 .. Cardinality(I) : Nth(I, k) = i
  BY <1>0, NthIs
<1>5. /\ Select(s, I) \in Seq(S)
      /\ Len(Select(s, I)) = Cardinality(I)
      /\ \A k \in 1 .. Cardinality(I) : Select(s, I)[k] = s[Nth(I, k)]
  <2>1. Cardinality(I) \in Nat
    BY <1>1
  <2>2. \A k \in 1 .. Cardinality(I) : s[Nth(I, k)] \in S
    BY <1>2
  <2> QED
    BY <2>1, <2>2 DEF Select
<1> QED
  BY <1>1, <1>2, <1>3, <1>4, <1>5

(* A sequence that takes its elements in order from these positions is it. *)
LEMMA SelectIs ==
  ASSUME NEW S, NEW s \in Seq(S), NEW r \in Seq(S), NEW I,
         NEW f \in [1 .. Len(r) -> 1 .. Len(s)], Increasing(f, Len(r)),
         I = {f[k] : k \in 1 .. Len(r)},
         \A k \in 1 .. Len(r) : r[k] = s[f[k]]
  PROVE  Select(s, I) = r
<1>1. Len(s) \in Nat /\ Len(r) \in Nat
  OBVIOUS
<1>2. I \in SUBSET (1 .. Len(s)) /\ Cardinality(I) = Len(r)
      /\ \A k \in 1 .. Len(r) : Nth(I, k) = f[k]
  BY <1>1, Enumeration
<1>3. /\ Select(s, I) \in Seq(S) /\ Len(Select(s, I)) = Len(r)
      /\ \A k \in 1 .. Len(r) : Select(s, I)[k] = s[f[k]]
  BY <1>2, SelectFacts
<1> QED
  BY <1>3, SeqEqual

LEMMA SelectAll ==
  ASSUME NEW S, NEW s \in Seq(S)
  PROVE  Select(s, 1 .. Len(s)) = s
<1> DEFINE f == [k \in 1 .. Len(s) |-> k]
<1>1. f \in [1 .. Len(s) -> 1 .. Len(s)] /\ Increasing(f, Len(s))
  BY DEF Increasing
<1>2. 1 .. Len(s) = {f[k] : k \in 1 .. Len(s)} /\ \A k \in 1 .. Len(s) : s[k] = s[f[k]]
  OBVIOUS
<1> HIDE DEF f
<1> QED
  BY <1>1, <1>2, SelectIs

LEMMA SelectNone ==
  ASSUME NEW s
  PROVE  Select(s, {}) = <<>>
<1>1. Cardinality({}) = 0
  BY FS_EmptySet
<1>2. Select(s, {}) = [k \in 1 .. 0 |-> s[Nth({}, k)]]
  BY <1>1 DEF Select
<1> QED
  BY <1>2

(* Concatenation under a name of its own, which the provers keep as it is. *)
Cat(s, t) == s \o t

(* The positions I of a sequence of n elements, and J of what follows it.  *)
Joins(U, I, J, n) == \A i : i \in U <=> i \in I \/ \E j \in J : i = n + j

LEMMA SelectConcat ==
  ASSUME NEW S, NEW s \in Seq(S), NEW t \in Seq(S),
         NEW I \in SUBSET (1 .. Len(s)), NEW J \in SUBSET (1 .. Len(t)), NEW U,
         Joins(U, I, J, Len(s))
  PROVE  Select(Cat(s, t), U) = Cat(Select(s, I), Select(t, J))
<1> USE DEF Joins, Cat
<1> DEFINE a == Select(s, I)
           b == Select(t, J)
           m == Len(a)
           n == Len(b)
           r == a \o b
           f == [k \in 1 .. m + n |-> IF k <= m THEN Nth(I, k) ELSE Len(s) + Nth(J, k - m)]
<1>1. /\ a \in Seq(S) /\ m \in Nat /\ m = Cardinality(I)
      /\ \A k \in 1 .. m : Nth(I, k) \in I /\ Nth(I, k) \in 1 .. Len(s) /\ a[k] = s[Nth(I, k)]
      /\ \A k, l \in 1 .. m : k < l => Nth(I, k) < Nth(I, l)
      /\ \A i \in I : \E k \in 1 .. m : Nth(I, k) = i
  BY SelectFacts
<1>2. /\ b \in Seq(S) /\ n \in Nat /\ n = Cardinality(J)
      /\ \A k \in 1 .. n : Nth(J, k) \in J /\ Nth(J, k) \in 1 .. Len(t) /\ b[k] = t[Nth(J, k)]
      /\ \A k, l \in 1 .. n : k < l => Nth(J, k) < Nth(J, l)
      /\ \A i \in J : \E k \in 1 .. n : Nth(J, k) = i
  BY SelectFacts
<1> HIDE DEF a, b
<1>3. r \in Seq(S) /\ Len(r) = m + n
      /\ \A k \in 1 .. m + n : r[k] = IF k <= m THEN a[k] ELSE b[k - m]
  <2>1. a \in Seq(S) /\ b \in Seq(S)
    BY <1>1, <1>2
  <2> QED
    BY <2>1, ConcatProperties
<1>4. /\ Len(s) \in Nat /\ Len(t) \in Nat
      /\ s \o t \in Seq(S) /\ Len(s \o t) = Len(s) + Len(t)
      /\ \A k \in 1 .. Len(s) + Len(t) : (s \o t)[k] = IF k <= Len(s) THEN s[k] ELSE t[k - Len(s)]
  <2>1. Len(s) \in Nat /\ Len(t) \in Nat
    OBVIOUS
  <2>2. s \o t \in Seq(S) /\ Len(s \o t) = Len(s) + Len(t)
    BY ConcatProperties
  <2>3. \A k \in 1 .. Len(s) + Len(t) : (s \o t)[k] = IF k <= Len(s) THEN s[k] ELSE t[k - Len(s)]
    BY ConcatProperties
  <2> QED
    BY <2>1, <2>2, <2>3
<1>5. ASSUME NEW k \in 1 .. m + n
      PROVE  f[k] \in 1 .. Len(s \o t) /\ r[k] = (s \o t)[f[k]]
             /\ (k <= m => f[k] \in 1 .. Len(s)) /\ (~(k <= m) => f[k] \in Int /\ f[k] > Len(s))
  <2>1. CASE k <= m
    <3>1. k \in 1 .. m /\ f[k] = Nth(I, k)
      BY <2>1
    <3>2. f[k] \in 1 .. Len(s) /\ a[k] = s[f[k]]
      BY <1>1, <3>1
    <3> QED
      BY <1>3, <1>4, <2>1, <3>2
  <2>2. CASE ~(k <= m)
    <3>1. k - m \in 1 .. n /\ f[k] = Len(s) + Nth(J, k - m)
      BY <1>1, <1>2, <2>2
    <3>2. Nth(J, k - m) \in 1 .. Len(t) /\ b[k - m] = t[Nth(J, k - m)]
      BY <1>2, <3>1
    <3>3. f[k] \in 1 .. Len(s) + Len(t) /\ f[k] > Len(s) /\ f[k] - Len(s) = Nth(J, k - m)
      BY <1>4, <3>1, <3>2
    <3> QED
      BY <1>3, <1>4, <2>2, <3>2, <3>3
  <2> QED
    BY <2>1, <2>2
<1>6. Increasing(f, m + n)
  <2> SUFFICES ASSUME NEW k \in 1 .. m + n, NEW l \in 1 .. m + n, k < l PROVE f[k] < f[l]
    BY DEF Increasing
  <2>1. CASE l <= m
    <3>1. k \in 1 .. m /\ l \in 1 .. m /\ f[k] = Nth(I, k) /\ f[l] = Nth(I, l)
      BY <1>1, <2>1
    <3> QED
      BY <1>1, <3>1
  <2>2. CASE ~(l <= m) /\ k <= m
    <3>1. f[k] \in 1 .. Len(s) /\ f[l] \in Int /\ f[l] > Len(s)
      BY <1>5, <2>2
    <3> QED
      BY <1>4, <3>1
  <2>3. CASE ~(k <= m)
    <3>1. k - m \in 1 .. n /\ l - m \in 1 .. n /\ k - m < l - m
          /\ f[k] = Len(s) + Nth(J, k - m) /\ f[l] = Len(s) + Nth(J, l - m)
      BY <1>1, <1>2, <2>3
    <3>2. Nth(J, k - m) < Nth(J, l - m) /\ Nth(J, k - m) \in Int /\ Nth(J, l - m) \in Int
      BY <1>2, <3>1
    <3> QED
      BY <1>4, <3>1, <3>2
  <2> QED
    BY <1>1, <2>1, <2>2, <2>3
<1>7. U = {f[k] : k \in 1 .. m + n}
  <2>1. ASSUME NEW i \in I PROVE \E k \in 1 .. m + n : f[k] = i
    <3>1. PICK k \in 1 .. m : Nth(I, k) = i
      BY <1>1
    <3>2. k \in 1 .. m + n /\ k <= m
      BY <1>1, <1>2
    <3> QED
      BY <3>1, <3>2
  <2>2. ASSUME NEW j \in J PROVE \E k \in 1 .. m + n : f[k] = Len(s) + j
    <3>1. PICK k \in 1 .. n : Nth(J, k) = j
      BY <1>2
    <3>2. m + k \in 1 .. m + n /\ ~(m + k <= m) /\ (m + k) - m = k
      BY <1>1, <1>2
    <3>3. f[m + k] = Len(s) + j
      BY <3>1, <3>2
    <3> QED
      BY <3>2, <3>3
  <2>3. ASSUME NEW k \in 1 .. m + n
        PROVE  f[k] \in I \/ \E j \in J : f[k] = Len(s) + j
    <3>1. CASE k <= m
      <4>1. k \in 1 .. m /\ f[k] = Nth(I, k)
        BY <3>1
      <4> QED
        BY <1>1, <4>1
    <3>2. CASE ~(k <= m)
      <4>1. k - m \in 1 .. n /\ f[k] = Len(s) + Nth(J, k - m)
        BY <1>1, <1>2, <3>2
      <4>2. Nth(J, k - m) \in J
        BY <1>2, <4>1
      <4> QED
        BY <4>1, <4>2
    <3> QED
      BY <3>1, <3>2
  <2> HIDE DEF f
  <2>4. ASSUME NEW i \in U PROVE \E k \in 1 .. m + n : f[k] = i
    <3>1. CASE i \in I
      BY <2>1, <3>1
    <3>2. CASE \E j \in J : i = Len(s) + j
      BY <2>2, <3>2
    <3> QED
      BY <3>1, <3>2
  <2>5. ASSUME NEW k \in 1 .. m + n PROVE f[k] \in U
    BY <2>3
  <2> QED
    BY <2>4, <2>5
<1>8. f \in [1 .. Len(r) -> 1 .. Len(s \o t)]
  BY <1>3, <1>5
<1> HIDE DEF f, r
<1>9. Select(s \o t, U) = r
  <2>1. r \in Seq(S) /\ s \o t \in Seq(S) /\ Len(r) = m + n
    BY <1>3, <1>4
  <2>2. \A k \in 1 .. Len(r) : r[k] = (s \o t)[f[k]]
    BY <1>5, <2>1
  <2>3. Increasing(f, Len(r)) /\ U = {f[k] : k \in 1 .. Len(r)}
    BY <1>6, <1>7, <2>1
  <2> QED
    BY <1>8, <2>1, <2>2, <2>3, SelectIs
<1> QED
  BY <1>9 DEF a, b, r
================================================================================
