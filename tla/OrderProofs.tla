----------------------------- MODULE OrderProofs -----------------------------
(***************************************************************************)
(* What numbers in order are good for: a set is listed without gap or      *)
(* repetition, there is one way to list it, and selecting from a list goes *)
(* with appending, concatenation and selecting again.                      *)
(***************************************************************************)
EXTENDS Order, FiniteSetTheorems, SequenceTheorems, TLAPS

-----------------------------------------------------------------------------
(* Places in the order.                                                    *)

\* A number's place in the order: no two numbers have the same one.
LEMMA Places ==
  ASSUME NEW S \in SUBSET Nat, IsFiniteSet(S)
  PROVE  [u \in S |-> Cardinality(UpTo(S, u))] \in Bijection(S, 1 .. Cardinality(S))
<1> DEFINE place == [u \in S |-> Cardinality(UpTo(S, u))]
           n == Cardinality(S)
<1>1. n \in Nat
  BY FS_CardinalityType
<1>2. \A u \in S : /\ UpTo(S, u) \in SUBSET S
                   /\ IsFiniteSet(UpTo(S, u)) /\ Cardinality(UpTo(S, u)) \in 1 .. n
  <2> SUFFICES ASSUME NEW u \in S
               PROVE  /\ UpTo(S, u) \in SUBSET S
                      /\ IsFiniteSet(UpTo(S, u)) /\ Cardinality(UpTo(S, u)) \in 1 .. n
    OBVIOUS
  <2>1. UpTo(S, u) \in SUBSET S /\ u \in UpTo(S, u)
    BY DEF UpTo
  <2>2. IsFiniteSet(UpTo(S, u)) /\ Cardinality(UpTo(S, u)) <= n
    BY <2>1, FS_Subset, Zenon
  <2>3. Cardinality(UpTo(S, u)) \in Nat /\ Cardinality(UpTo(S, u)) # 0
    BY <2>1, <2>2, FS_CardinalityType, FS_EmptySet, Zenon
  <2> QED
    BY <1>1, <2>1, <2>2, <2>3
<1>3. place \in [S -> 1 .. n]
  BY <1>2
<1>4. \A u, w \in S : u < w => place[u] # place[w]
  <2> SUFFICES ASSUME NEW u \in S, NEW w \in S, u < w,
                      Cardinality(UpTo(S, u)) = Cardinality(UpTo(S, w))
               PROVE  FALSE
    OBVIOUS
  <2>1. UpTo(S, u) \in SUBSET UpTo(S, w) /\ w \in UpTo(S, w) /\ w \notin UpTo(S, u)
    <3>1. u \in Nat /\ w \in Nat /\ \A v \in S : v \in Nat
      OBVIOUS
    <3>2. \A v \in S : v <= u => v <= w
      BY <3>1
    <3>3. w <= w /\ ~(w <= u)
      BY <3>1
    <3> QED
      BY <3>2, <3>3 DEF UpTo
  <2>2. UpTo(S, u) = UpTo(S, w)
    BY <1>2, <2>1, FS_Subset
  <2> QED
    BY <2>1, <2>2
<1>5. place \in Injection(S, 1 .. n)
  <2>1. \A u, w \in S : place[u] = place[w] => u = w
    <3> HIDE DEF place
    <3> SUFFICES ASSUME NEW u \in S, NEW w \in S, place[u] = place[w] PROVE u = w
      OBVIOUS
    <3>1. u \in Nat /\ w \in Nat
      OBVIOUS
    <3> QED
      BY <1>4, <3>1
  <2> HIDE DEF place
  <2> QED
    BY <1>3, <2>1 DEF Injection, IsInjective
<1>6. IsFiniteSet(1 .. n) /\ Cardinality(1 .. n) = n
  BY <1>1, FS_Interval
<1>7. place \in Surjection(S, 1 .. n)
  BY <1>5, <1>6, FS_Injection
<1> QED
  BY <1>5, <1>7 DEF Bijection

\* The k-th number is the one with k numbers up to it.
LEMMA NthPlace ==
  ASSUME NEW S \in SUBSET Nat, IsFiniteSet(S)
  PROVE  /\ Cardinality(S) \in Nat
         /\ \A k \in 1 .. Cardinality(S) : Nth(S, k) \in S /\ Cardinality(UpTo(S, Nth(S, k))) = k
         /\ \A n \in S : /\ Cardinality(UpTo(S, n)) \in 1 .. Cardinality(S)
                         /\ Nth(S, Cardinality(UpTo(S, n))) = n
<1> DEFINE place == [u \in S |-> Cardinality(UpTo(S, u))]
           n == Cardinality(S)
<1>1. n \in Nat
  BY FS_CardinalityType
<1>2. place \in Injection(S, 1 .. n) /\ place \in Surjection(S, 1 .. n)
  BY Places DEF Bijection
<1>3. \A k \in 1 .. n : \E u \in S : Cardinality(UpTo(S, u)) = k
  BY <1>2 DEF Surjection
<1>4. \A k \in 1 .. n : Nth(S, k) \in S /\ Cardinality(UpTo(S, Nth(S, k))) = k
  BY <1>3 DEF Nth
<1>5. ASSUME NEW u \in S
      PROVE  Cardinality(UpTo(S, u)) \in 1 .. n /\ Nth(S, Cardinality(UpTo(S, u))) = u
  <2>1. place[u] \in 1 .. n
    BY <1>2 DEF Injection
  <2>2. Nth(S, place[u]) \in S /\ place[Nth(S, place[u])] = place[u]
    BY <1>4, <2>1
  <2>3. \A v, w \in S : place[v] = place[w] => v = w
    BY <1>2 DEF Injection, IsInjective
  <2>4. Nth(S, place[u]) = u
    <3> HIDE DEF place
    <3> QED
      BY <2>2, <2>3
  <2> QED
    BY <2>1, <2>4
<1> QED
  BY <1>1, <1>4, <1>5

\* Sorted lists every number of a set, and nothing else, in as many places.
LEMMA SortedLists ==
  ASSUME NEW S \in SUBSET Nat, IsFiniteSet(S)
  PROVE  /\ Sorted(S) \in Seq(S)
         /\ Len(Sorted(S)) = Cardinality(S) /\ Cardinality(S) \in Nat
         /\ \A u \in S : \E i \in 1 .. Cardinality(S) : Sorted(S)[i] = u
BY NthPlace DEF Sorted

\* The numbers come in increasing order.
LEMMA NthIncreases ==
  ASSUME NEW S \in SUBSET Nat, IsFiniteSet(S),
         NEW j \in 1 .. Cardinality(S), NEW k \in 1 .. Cardinality(S), j < k
  PROVE  Nth(S, j) < Nth(S, k)
<1> DEFINE a == Nth(S, j)
           b == Nth(S, k)
<1>1. /\ Cardinality(S) \in Nat /\ a \in S /\ b \in S /\ a \in Nat /\ b \in Nat
      /\ Cardinality(UpTo(S, a)) = j /\ Cardinality(UpTo(S, b)) = k
  BY NthPlace
<1> HIDE DEF a, b
<1>2. ASSUME b <= a PROVE FALSE
  <2>1. UpTo(S, b) \in SUBSET UpTo(S, a)
    <3>1. \A m \in S : m \in Nat
      OBVIOUS
    <3>2. \A m \in S : m <= b => m <= a
      BY <1>1, <1>2, <3>1
    <3> QED
      BY <3>2 DEF UpTo
  <2>2. IsFiniteSet(UpTo(S, a))
    <3>1. UpTo(S, a) \in SUBSET S
      BY DEF UpTo
    <3> QED
      BY <3>1, FS_Subset
  <2>3. k <= j
    BY <1>1, <2>1, <2>2, FS_Subset
  <2> QED
    BY <1>1, <2>3
<1> QED
  BY <1>1, <1>2 DEF a, b

\* What lists a set in increasing order.
Lists(f, n, S) ==
  /\ n \in Nat /\ f \in [1 .. n -> S]
  /\ \A j, k \in 1 .. n : j < k => f[j] < f[k]
  /\ \A s \in S : \E k \in 1 .. n : f[k] = s

LEMMA NthLists ==
  ASSUME NEW S \in SUBSET Nat, IsFiniteSet(S)
  PROVE  Lists([k \in 1 .. Cardinality(S) |-> Nth(S, k)], Cardinality(S), S)
<1> DEFINE n == Cardinality(S)
           f == [k \in 1 .. n |-> Nth(S, k)]
<1>1. n \in Nat /\ f \in [1 .. n -> S]
  BY NthPlace
<1>2. \A j, k \in 1 .. n : j < k => f[j] < f[k]
  BY NthIncreases
<1>3. \A s \in S : \E k \in 1 .. n : f[k] = s
  BY NthPlace
<1> QED
  BY <1>1, <1>2, <1>3 DEF Lists

\* There is one way to list a set in increasing order.
LEMMA OneList ==
  ASSUME NEW S \in SUBSET Nat, NEW n, NEW f, Lists(f, n, S)
  PROVE  /\ IsFiniteSet(S) /\ Cardinality(S) = n
         /\ \A k \in 1 .. n : Nth(S, k) = f[k]
<1>1. /\ n \in Nat /\ f \in [1 .. n -> S]
      /\ \A j, k \in 1 .. n : j < k => f[j] < f[k]
      /\ \A s \in S : \E k \in 1 .. n : f[k] = s
  BY DEF Lists
<1>2. \A k \in 1 .. n : f[k] \in Nat /\ f[k] \in S
  BY <1>1
<1>3. \A j, k \in 1 .. n : f[j] = f[k] => j = k
  <2> SUFFICES ASSUME NEW j \in 1 .. n, NEW k \in 1 .. n, f[j] = f[k], j # k PROVE FALSE
    OBVIOUS
  <2>1. j < k \/ k < j
    BY <1>1
  <2>2. f[j] < f[k] \/ f[k] < f[j]
    BY <1>1, <2>1
  <2> QED
    BY <1>2, <2>2
<1>4. \A j, k \in 1 .. n : f[j] <= f[k] <=> j <= k
  <2> SUFFICES ASSUME NEW j \in 1 .. n, NEW k \in 1 .. n PROVE f[j] <= f[k] <=> j <= k
    OBVIOUS
  <2>1. f[j] \in Nat /\ f[k] \in Nat /\ j \in Int /\ k \in Int
    BY <1>2
  <2>2. (j < k => f[j] < f[k]) /\ (k < j => f[k] < f[j])
    BY <1>1
  <2>3. j < k \/ k < j \/ j = k
    BY <2>1
  <2> QED
    BY <2>1, <2>2, <2>3
<1>5. ASSUME NEW k \in 1 .. n
      PROVE  IsFiniteSet(UpTo(S, f[k])) /\ Cardinality(UpTo(S, f[k])) = k
  <2> DEFINE g == [j \in 1 .. k |-> f[j]]
             T == UpTo(S, f[k])
  <2>1. \A j \in 1 .. k : j \in 1 .. n
    BY <1>1
  <2>2. g \in [1 .. k -> T]
    BY <1>2, <1>4, <2>1 DEF UpTo
  <2>3. \A i, j \in 1 .. k : g[i] = g[j] => i = j
    BY <1>3, <2>1
  <2>4. \A t \in T : \E j \in 1 .. k : g[j] = t
    <3> SUFFICES ASSUME NEW t \in S, t <= f[k] PROVE \E j \in 1 .. k : g[j] = t
      BY DEF UpTo
    <3>1. PICK j \in 1 .. n : f[j] = t
      BY <1>1
    <3>2. j <= k
      BY <1>4, <3>1
    <3>3. j \in 1 .. k
      BY <1>1, <3>2
    <3> QED
      BY <3>1, <3>3
  <2>5. g \in Bijection(1 .. k, T)
    <3> HIDE DEF g, T
    <3> QED
      BY <2>2, <2>3, <2>4 DEF Bijection, Injection, Surjection, IsInjective
  <2>6. ExistsBijection(1 .. k, T)
    BY <2>5 DEF ExistsBijection
  <2>7. k \in Nat /\ IsFiniteSet(1 .. k) /\ Cardinality(1 .. k) = k
    BY <1>1, FS_Interval
  <2> QED
    BY <2>6, <2>7, FS_Bijection
<1>6. IsFiniteSet(S) /\ Cardinality(S) = n
  <2>1. f \in Bijection(1 .. n, S)
    BY <1>1, <1>3 DEF Bijection, Injection, Surjection, IsInjective
  <2>2. ExistsBijection(1 .. n, S)
    BY <2>1 DEF ExistsBijection
  <2>3. IsFiniteSet(1 .. n) /\ Cardinality(1 .. n) = n
    BY <1>1, FS_Interval
  <2> QED
    BY <2>2, <2>3, FS_Bijection
<1>7. ASSUME NEW k \in 1 .. n PROVE Nth(S, k) = f[k]
  <2>1. f[k] \in S /\ Cardinality(UpTo(S, f[k])) = k
    BY <1>2, <1>5
  <2>2. Nth(S, k) \in S /\ Cardinality(UpTo(S, Nth(S, k))) = k
    BY <2>1 DEF Nth
  <2>3. PICK j \in 1 .. n : f[j] = Nth(S, k)
    BY <1>1, <2>2
  <2>4. j = k
    BY <1>5, <2>2, <2>3
  <2> QED
    BY <2>3, <2>4
<1> QED
  BY <1>6, <1>7

-----------------------------------------------------------------------------
(* Selecting from a list.                                                  *)

\* Positions of a list are numbers, and finitely many.
LEMMA PositionsListed ==
  ASSUME NEW R, NEW s \in Seq(R), NEW P \in SUBSET (1 .. Len(s))
  PROVE  /\ P \in SUBSET Nat /\ IsFiniteSet(P) /\ Cardinality(P) \in Nat
         /\ Lists([k \in 1 .. Cardinality(P) |-> Nth(P, k)], Cardinality(P), P)
<1>1. Len(s) \in Nat
  OBVIOUS
<1>2. IsFiniteSet(1 .. Len(s))
  BY <1>1, FS_Interval
<1>3. IsFiniteSet(P)
  BY <1>2, FS_Subset
<1>4. P \in SUBSET Nat
  BY <1>1
<1> QED
  BY <1>3, <1>4, NthLists, FS_CardinalityType

LEMMA SelectType ==
  ASSUME NEW R, NEW s \in Seq(R), NEW P \in SUBSET (1 .. Len(s))
  PROVE  /\ Select(s, P) \in Seq(R) /\ Len(Select(s, P)) = Cardinality(P)
         /\ Cardinality(P) \in Nat
         /\ \A k \in 1 .. Cardinality(P) : Nth(P, k) \in P /\ Select(s, P)[k] = s[Nth(P, k)]
<1>1. P \in SUBSET Nat /\ IsFiniteSet(P) /\ Cardinality(P) \in Nat
  BY PositionsListed
<1>2. \A k \in 1 .. Cardinality(P) : Nth(P, k) \in P
  BY <1>1, NthPlace
<1>3. \A i \in P : i \in 1 .. Len(s)
  OBVIOUS
<1>4. \A i \in 1 .. Len(s) : s[i] \in R
  OBVIOUS
<1>5. \A k \in 1 .. Cardinality(P) : s[Nth(P, k)] \in R
  BY <1>2, <1>3, <1>4
<1> QED
  BY <1>1, <1>2, <1>5 DEF Select

\* However the positions are listed in order, that is what is selected.
LEMMA SelectAs ==
  ASSUME NEW R, NEW s \in Seq(R), NEW P \in SUBSET (1 .. Len(s)), NEW n, NEW f, Lists(f, n, P)
  PROVE  /\ Select(s, P) \in Seq(R) /\ Len(Select(s, P)) = n
         /\ \A k \in 1 .. n : f[k] \in P /\ Select(s, P)[k] = s[f[k]]
<1>1. Cardinality(P) = n /\ \A k \in 1 .. n : Nth(P, k) = f[k]
  BY PositionsListed, OneList
<1> QED
  BY <1>1, SelectType

LEMMA SelectNone ==
  ASSUME NEW s
  PROVE  Select(s, {}) = <<>>
<1>1. Cardinality({}) = 0
  BY FS_EmptySet
<1>2. 1 .. 0 = {}
  OBVIOUS
<1> QED
  BY <1>1, <1>2 DEF Select

LEMMA SelectOne ==
  ASSUME NEW x
  PROVE  Select(<<x>>, {1}) = <<x>>
<1> DEFINE one == Select(<<x>>, {1})
<1>1. <<x>> \in Seq({x}) /\ Len(<<x>>) = 1 /\ <<x>>[1] = x
  OBVIOUS
<1>2. {1} \in SUBSET (1 .. Len(<<x>>)) /\ Cardinality({1}) = 1
  BY FS_Singleton
<1>3. /\ one \in Seq({x}) /\ Len(one) = Cardinality({1})
      /\ \A k \in 1 .. Cardinality({1}) : Nth({1}, k) \in {1} /\ one[k] = <<x>>[Nth({1}, k)]
  BY <1>1, <1>2, SelectType
<1> HIDE DEF one
<1>4. one \in Seq({x}) /\ Len(one) = 1 /\ one[1] = x
  BY <1>1, <1>2, <1>3
<1>5. one = <<x>>
  BY <1>1, <1>4
<1> QED
  BY <1>5 DEF one

\* Positions U of two lists in a row, of lengths m and n: P of the first one, Q
\* of the second one.
Joins(U, P, Q, m, n) ==
  /\ P \in SUBSET (1 .. m) /\ Q \in SUBSET (1 .. n) /\ U \in SUBSET (1 .. m + n)
  /\ \A i \in 1 .. m : i \in U <=> i \in P
  /\ \A i \in 1 .. n : m + i \in U <=> i \in Q

\* Selecting from two lists in a row.
LEMMA SelectConcat ==
  ASSUME NEW R, NEW s \in Seq(R), NEW t \in Seq(R),
         NEW P, NEW Q, NEW U, Joins(U, P, Q, Len(s), Len(t))
  PROVE  Select(s \o t, U) = Select(s, P) \o Select(t, Q)
<1>0. /\ P \in SUBSET (1 .. Len(s)) /\ Q \in SUBSET (1 .. Len(t)) /\ U \in SUBSET (1 .. Len(s) + Len(t))
      /\ \A i \in 1 .. Len(s) : i \in U <=> i \in P
      /\ \A i \in 1 .. Len(t) : Len(s) + i \in U <=> i \in Q
  BY DEF Joins
<1> DEFINE m == Cardinality(P)
           n == Cardinality(Q)
           f == [k \in 1 .. m + n |-> IF k <= m THEN Nth(P, k) ELSE Len(s) + Nth(Q, k - m)]
<1>1. /\ s \o t \in Seq(R) /\ Len(s \o t) = Len(s) + Len(t) /\ Len(s) \in Nat /\ Len(t) \in Nat
      /\ \A i \in 1 .. Len(s) : (s \o t)[i] = s[i]
      /\ \A i \in 1 .. Len(t) : (s \o t)[Len(s) + i] = t[i]
  <2>1. \A i \in 1 .. Len(t) : /\ Len(s) + i \in Len(s) + 1 .. Len(s) + Len(t)
                               /\ (Len(s) + i) - Len(s) = i
    OBVIOUS
  <2> QED
    BY <2>1, ConcatProperties
<1>2. /\ P \in SUBSET Nat /\ m \in Nat /\ Lists([k \in 1 .. m |-> Nth(P, k)], m, P)
      /\ Q \in SUBSET Nat /\ n \in Nat /\ Lists([k \in 1 .. n |-> Nth(Q, k)], n, Q)
  BY <1>0, PositionsListed
<1>3. /\ \A i \in P : i \in 1 .. Len(s) /\ i \in U
      /\ \A i \in Q : i \in 1 .. Len(t) /\ Len(s) + i \in U
      /\ \A u \in U : u \in P \/ \E i \in Q : u = Len(s) + i
  <2>1. \A i \in P : i \in 1 .. Len(s) /\ i \in U
    BY <1>0
  <2>2. \A i \in Q : i \in 1 .. Len(t) /\ Len(s) + i \in U
    BY <1>0
  <2>3. ASSUME NEW u \in U, u \notin P PROVE \E i \in Q : u = Len(s) + i
    <3>1. u \in 1 .. Len(s) + Len(t)
      BY <1>0, <1>1
    <3>2. u \notin 1 .. Len(s)
      BY <1>0, <2>3
    <3>3. u - Len(s) \in 1 .. Len(t) /\ u = Len(s) + (u - Len(s))
      BY <1>1, <3>1, <3>2
    <3>4. u - Len(s) \in Q
      BY <1>0, <3>3
    <3> QED
      BY <3>3, <3>4
  <2> QED
    BY <2>1, <2>2, <2>3
<1>4. ASSUME NEW k \in 1 .. m PROVE Nth(P, k) \in P /\ Nth(P, k) <= Len(s) /\ Nth(P, k) \in Nat
  <2>1. Nth(P, k) \in P
    BY <1>0, SelectType
  <2>2. \A i \in P : i \in 1 .. Len(s)
    BY <1>0
  <2>3. Nth(P, k) \in 1 .. Len(s)
    BY <2>1, <2>2
  <2> QED
    BY <1>1, <2>1, <2>3
<1>5. ASSUME NEW k \in 1 .. n
      PROVE  Nth(Q, k) \in Q /\ Nth(Q, k) \in Nat \ {0} /\ Nth(Q, k) \in 1 .. Len(t)
  <2>1. Nth(Q, k) \in Q
    BY <1>0, SelectType
  <2>2. \A i \in Q : i \in 1 .. Len(t)
    BY <1>0
  <2>3. Nth(Q, k) \in 1 .. Len(t)
    BY <2>1, <2>2
  <2> QED
    BY <1>1, <2>1, <2>3
<1> HIDE DEF m, n
<1>6. \A k \in 1 .. m + n : k <= m => k \in 1 .. m /\ f[k] = Nth(P, k)
  BY <1>2
<1>7. \A k \in 1 .. m + n : ~(k <= m) => k - m \in 1 .. n /\ f[k] = Len(s) + Nth(Q, k - m)
  BY <1>2
<1>8. f \in [1 .. m + n -> U]
  <2>1. ASSUME NEW k \in 1 .. m + n PROVE f[k] \in U
    <3>1. CASE k <= m
      BY <1>3, <1>4, <1>6, <3>1
    <3>2. CASE ~(k <= m)
      BY <1>3, <1>5, <1>7, <3>2
    <3> QED
      BY <3>1, <3>2
  <2>2. f = [k \in 1 .. m + n |-> f[k]]
    OBVIOUS
  <2> HIDE DEF f
  <2> QED
    BY <2>1, <2>2
<1> HIDE DEF f
<1>9. ASSUME NEW j \in 1 .. m + n, NEW k \in 1 .. m + n, j < k PROVE f[j] < f[k]
  <2>1. CASE k <= m
    <3>1. j \in 1 .. m /\ k \in 1 .. m
      BY <1>2, <1>9, <2>1
    <3>2. Nth(P, j) < Nth(P, k)
      BY <1>2, <1>9, <3>1 DEF Lists
    <3> QED
      BY <1>2, <1>6, <3>1, <3>2
  <2>2. CASE j <= m /\ ~(k <= m)
    <3>1. /\ f[j] = Nth(P, j) /\ Nth(P, j) <= Len(s) /\ Nth(P, j) \in Nat
          /\ f[k] = Len(s) + Nth(Q, k - m) /\ Nth(Q, k - m) \in Nat \ {0}
      BY <1>4, <1>5, <1>6, <1>7, <2>2
    <3> QED
      BY <1>1, <3>1
  <2>3. CASE ~(j <= m)
    <3>1. ~(k <= m) /\ j - m \in 1 .. n /\ k - m \in 1 .. n /\ j - m < k - m
      BY <1>2, <1>9, <2>3
    <3>2. Nth(Q, j - m) < Nth(Q, k - m)
      BY <1>2, <3>1 DEF Lists
    <3>3. /\ f[j] = Len(s) + Nth(Q, j - m) /\ f[k] = Len(s) + Nth(Q, k - m)
          /\ Nth(Q, j - m) \in Nat /\ Nth(Q, k - m) \in Nat
      BY <1>5, <1>7, <2>3, <3>1
    <3> QED
      BY <1>1, <3>2, <3>3
  <2> QED
    BY <2>1, <2>2, <2>3
<1>10. ASSUME NEW u \in U PROVE \E k \in 1 .. m + n : f[k] = u
  <2>1. CASE u \in P
    <3>1. PICK k \in 1 .. m : Nth(P, k) = u
      BY <1>2, <2>1 DEF Lists
    <3>2. k \in 1 .. m + n /\ k <= m
      BY <1>2, <3>1
    <3> QED
      BY <1>6, <3>1, <3>2
  <2>2. ASSUME NEW j \in Q, u = Len(s) + j PROVE \E k \in 1 .. m + n : f[k] = u
    <3>1. PICK k \in 1 .. n : Nth(Q, k) = j
      BY <1>2, <2>2 DEF Lists
    <3>2. m + k \in 1 .. m + n /\ ~(m + k <= m) /\ (m + k) - m = k
      BY <1>2, <3>1
    <3>3. f[m + k] = Len(s) + Nth(Q, k)
      BY <1>7, <3>2
    <3> QED
      BY <2>2, <3>1, <3>2, <3>3
  <2> QED
    BY <1>3, <2>1, <2>2
<1>11. Lists(f, m + n, U)
  BY <1>2, <1>8, <1>9, <1>10 DEF Lists
<1> DEFINE a == Select(s, P)
           b == Select(t, Q)
           c == Select(s \o t, U)
<1>12. /\ c \in Seq(R) /\ Len(c) = m + n
       /\ \A k \in 1 .. m + n : c[k] = (s \o t)[f[k]]
  <2> DEFINE st == s \o t
             l == m + n
  <2>1. st \in Seq(R) /\ U \in SUBSET (1 .. Len(st)) /\ Lists(f, l, U)
    BY <1>0, <1>1, <1>11
  <2> HIDE DEF st, l
  <2>2. /\ Select(st, U) \in Seq(R) /\ Len(Select(st, U)) = l
        /\ \A k \in 1 .. l : Select(st, U)[k] = st[f[k]]
    BY <2>1, SelectAs
  <2> QED
    BY <2>2 DEF st, l
<1>13. /\ a \in Seq(R) /\ Len(a) = m /\ b \in Seq(R) /\ Len(b) = n
       /\ \A k \in 1 .. m : a[k] = s[Nth(P, k)]
       /\ \A k \in 1 .. n : b[k] = t[Nth(Q, k)]
  BY <1>0, SelectType DEF m, n
<1> HIDE DEF a, b, c
<1>14. /\ a \o b \in Seq(R) /\ Len(a \o b) = m + n
       /\ \A k \in 1 .. m + n : (a \o b)[k] = IF k <= m THEN a[k] ELSE b[k - m]
  <2>1. Len(a) = m /\ Len(b) = n /\ a \in Seq(R) /\ b \in Seq(R) /\ m \in Nat /\ n \in Nat
    BY <1>2, <1>13
  <2>2. \A k \in 1 .. m + n : ~(k <= m) => k \in m + 1 .. m + n
    BY <2>1
  <2>3. /\ a \o b \in Seq(R) /\ Len(a \o b) = m + n
        /\ \A k \in 1 .. m : (a \o b)[k] = a[k]
        /\ \A k \in m + 1 .. m + n : (a \o b)[k] = b[k - m]
    <3>1. /\ a \o b \in Seq(R) /\ Len(a \o b) = Len(a) + Len(b)
          /\ \A k \in 1 .. Len(a) : (a \o b)[k] = a[k]
          /\ \A k \in Len(a) + 1 .. Len(a) + Len(b) : (a \o b)[k] = b[k - Len(a)]
      <4>1. a \in Seq(R) /\ b \in Seq(R)
        BY <1>13
      <4> QED
        BY <4>1, ConcatProperties
    <3> QED
      BY <2>1, <3>1
  <2> QED
    BY <2>1, <2>2, <2>3
<1>15. ASSUME NEW k \in 1 .. m + n PROVE (a \o b)[k] = c[k]
  <2>1. CASE k <= m
    <3>1. (a \o b)[k] = s[Nth(P, k)] /\ f[k] = Nth(P, k) /\ Nth(P, k) \in 1 .. Len(s)
      <4>1. k \in 1 .. m
        BY <1>6, <2>1
      <4>2. Nth(P, k) \in 1 .. Len(s)
        BY <1>0, <1>4, <4>1
      <4> QED
        BY <1>6, <1>13, <1>14, <2>1, <4>1, <4>2
    <3> QED
      BY <1>1, <1>12, <3>1
  <2>2. CASE ~(k <= m)
    <3>1. /\ (a \o b)[k] = t[Nth(Q, k - m)] /\ f[k] = Len(s) + Nth(Q, k - m)
          /\ Nth(Q, k - m) \in 1 .. Len(t)
      <4>1. k - m \in 1 .. n
        BY <1>7, <2>2
      <4> QED
        BY <1>5, <1>7, <1>13, <1>14, <2>2, <4>1
    <3> QED
      BY <1>1, <1>12, <3>1
  <2> QED
    BY <2>1, <2>2
<1>16. c = a \o b
  BY <1>12, <1>14, <1>15, SeqEqual
<1> QED
  BY <1>16 DEF a, b, c

\* Selecting from what was selected.
LEMMA SelectAgain ==
  ASSUME NEW R, NEW s \in Seq(R), NEW P \in SUBSET (1 .. Len(s)),
         NEW Q \in SUBSET (1 .. Cardinality(P))
  PROVE  Select(Select(s, P), Q) = Select(s, {Nth(P, j) : j \in Q})
<1> DEFINE U == {Nth(P, j) : j \in Q}
           m == Cardinality(P)
           n == Cardinality(Q)
           t == Select(s, P)
           f == [k \in 1 .. n |-> Nth(P, Nth(Q, k))]
<1>1. /\ t \in Seq(R) /\ Len(t) = m /\ m \in Nat
      /\ \A k \in 1 .. m : Nth(P, k) \in P /\ t[k] = s[Nth(P, k)]
  BY SelectType
<1>2. /\ P \in SUBSET Nat /\ Lists([k \in 1 .. m |-> Nth(P, k)], m, P)
  BY PositionsListed
<1>3. Q \in SUBSET Nat /\ n \in Nat /\ Lists([k \in 1 .. n |-> Nth(Q, k)], n, Q)
  BY <1>1, PositionsListed
<1>4. \A k \in 1 .. n : Nth(Q, k) \in Q /\ Nth(Q, k) \in 1 .. m
  BY <1>3 DEF Lists
<1>5. U \in SUBSET (1 .. Len(s))
  BY <1>1
<1> HIDE DEF m, n, t
<1>6. f \in [1 .. n -> U]
  BY <1>4
<1>7. ASSUME NEW j \in 1 .. n, NEW k \in 1 .. n, j < k PROVE f[j] < f[k]
  <2>1. Nth(Q, j) < Nth(Q, k)
    BY <1>3, <1>7 DEF Lists
  <2>2. Nth(P, Nth(Q, j)) < Nth(P, Nth(Q, k))
    BY <1>2, <1>4, <2>1 DEF Lists
  <2> QED
    BY <2>2
<1>8. ASSUME NEW u \in U PROVE \E k \in 1 .. n : f[k] = u
  <2>1. PICK j \in Q : u = Nth(P, j)
    OBVIOUS
  <2>2. PICK k \in 1 .. n : Nth(Q, k) = j
    BY <1>3, <2>1 DEF Lists
  <2> QED
    BY <2>1, <2>2
<1>9. Lists(f, n, U)
  BY <1>3, <1>6, <1>7, <1>8 DEF Lists
<1> DEFINE a == Select(t, Q)
           b == Select(s, U)
<1>0. Q \in SUBSET (1 .. Len(t))
  BY <1>1 DEF m
<1> HIDE DEF f, U
<1>10. b \in Seq(R) /\ Len(b) = n /\ \A k \in 1 .. n : b[k] = s[f[k]]
  BY <1>5, <1>9, SelectAs
<1>11. a \in Seq(R) /\ Len(a) = n /\ \A k \in 1 .. n : a[k] = t[Nth(Q, k)]
  BY <1>0, <1>1, SelectType DEF n
<1>12. \A k \in 1 .. n : t[Nth(Q, k)] = s[f[k]]
  BY <1>1, <1>4 DEF f
<1> HIDE DEF a, b
<1>13. a = b
  BY <1>10, <1>11, <1>12, SeqEqual
<1> QED
  BY <1>13 DEF t, U, a, b
=============================================================================
