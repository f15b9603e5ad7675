------------------------------ MODULE VecProofs ------------------------------
(* Facts about the operations on lists in Vec, and about loops.             *)
EXTENDS Vec, Loop, FiniteSetTheorems, WellFoundedInduction, TLAPS

(* Every rank from 1 to the size of a finite set of positions is taken.    *)
LEMMA NthExists ==
  ASSUME NEW I \in SUBSET Nat, IsFiniteSet(I), NEW k \in 1..Cardinality(I)
  PROVE  \E i \in I : Cardinality({j \in I : j <= i}) = k
<1> DEFINE Upto(i) == {j \in I : j <= i}
           rank == [i \in I |-> Cardinality(Upto(i))]
           K == 1..Cardinality(I)
<1>1. Cardinality(I) \in Nat
  BY FS_CardinalityType
<1>2. \A i \in I : /\ IsFiniteSet(Upto(i))
                   /\ Cardinality(Upto(i)) \in Nat
                   /\ Cardinality(Upto(i)) <= Cardinality(I)
                   /\ Cardinality(Upto(i)) # 0
  <2> SUFFICES ASSUME NEW i \in I
               PROVE  /\ IsFiniteSet(Upto(i))
                      /\ Cardinality(Upto(i)) \in Nat
                      /\ Cardinality(Upto(i)) <= Cardinality(I)
                      /\ Cardinality(Upto(i)) # 0
    OBVIOUS
  <2>1. Upto(i) \in SUBSET I /\ i \in Upto(i)
    OBVIOUS
  <2>2. IsFiniteSet(Upto(i)) /\ Cardinality(Upto(i)) <= Cardinality(I)
    BY <2>1, FS_Subset
  <2> QED
    BY <2>1, <2>2, FS_CardinalityType, FS_EmptySet
<1>3. rank \in [I -> K]
  BY <1>1, <1>2
<1>4. \A i, j \in I : i < j => rank[i] # rank[j]
  <2> SUFFICES ASSUME NEW i \in I, NEW j \in I, i < j
               PROVE  Cardinality(Upto(i)) # Cardinality(Upto(j))
    OBVIOUS
  <2>1. /\ \A l \in Upto(i) : l \in Upto(j)
        /\ j \in Upto(j) /\ j \notin Upto(i)
    <3>1. i \in Nat /\ j \in Nat /\ \A l \in I : l \in Nat
      OBVIOUS
    <3> QED
      BY <3>1
  <2> QED
    BY <2>1, <1>2, FS_Subset
<1>5. rank \in Injection(I, K)
  <2>1. \A i, j \in I : rank[i] = rank[j] => i = j
    BY <1>4
  <2> HIDE DEF rank, K
  <2> QED
    BY <1>3, <2>1 DEF Injection, IsInjective
<1>6. IsFiniteSet(K) /\ Cardinality(K) = Cardinality(I)
  BY <1>1, FS_Interval
<1>7. rank \in Surjection(I, K)
  <2> HIDE DEF rank, K
  <2> QED
    BY <1>5, <1>6, FS_Injection
<1>8. \E i \in I : Cardinality(Upto(i)) = k
  BY <1>7 DEF Surjection
<1> QED
  BY <1>8

(* Positions of a finite set differ in rank.                                *)
LEMMA RankInjective ==
  ASSUME NEW I \in SUBSET Nat, IsFiniteSet(I), NEW i \in I, NEW j \in I,
         Cardinality({l \in I : l <= i}) = Cardinality({l \in I : l <= j})
  PROVE  i = j
<1>1. ASSUME NEW m \in I, NEW n \in I, m < n
      PROVE  Cardinality({l \in I : l <= m}) # Cardinality({l \in I : l <= n})
  <2>1. \A l \in I : l \in Nat
    OBVIOUS
  <2>6. m \in Nat /\ n \in Nat /\ \A l \in Nat : l <= m => l <= n
    <3>1. m \in Nat /\ n \in Nat /\ m < n
      BY <1>1
    <3> QED
      BY <3>1
  <2>2. {l \in I : l <= m} \in SUBSET {l \in I : l <= n}
    BY <2>1, <2>6
  <2>3. n \in {l \in I : l <= n} /\ n \notin {l \in I : l <= m}
    BY <1>1, <2>1
  <2>4. {l \in I : l <= n} \in SUBSET I
    OBVIOUS
  <2>5. IsFiniteSet({l \in I : l <= n})
    BY <2>4, FS_Subset
  <2> QED
    BY <2>2, <2>3, <2>5, FS_Subset
<1>2. i \in Nat /\ j \in Nat
  OBVIOUS
<1>3. ~ (i < j) /\ ~ (j < i)
  BY <1>1
<1> QED
  BY <1>2, <1>3

(* The k-th position has rank k.                                           *)
LEMMA NthHasRank ==
  ASSUME NEW I \in SUBSET Nat, IsFiniteSet(I), NEW k \in 1..Cardinality(I)
  PROVE  Nth(I, k) \in I /\ Cardinality({l \in I : l <= Nth(I, k)}) = k
<1> DEFINE P(i) == Cardinality({l \in I : l <= i}) = k
<1>1. \E i \in I : P(i)
  BY NthExists
<1>2. Nth(I, k) = CHOOSE i \in I : P(i)
  BY DEF Nth
<1> HIDE DEF P
<1>3. Nth(I, k) \in I /\ P(Nth(I, k))
  BY <1>1, <1>2
<1> QED
  BY <1>3 DEF P

LEMMA NthInSet ==
  ASSUME NEW I \in SUBSET Nat, IsFiniteSet(I), NEW k \in 1..Cardinality(I)
  PROVE  Nth(I, k) \in I
BY NthHasRank

(* Every position is one of them.                                          *)
LEMMA NthOnto ==
  ASSUME NEW I \in SUBSET Nat, IsFiniteSet(I), NEW i \in I
  PROVE  \E k \in 1..Cardinality(I) : Nth(I, k) = i
<1> DEFINE J == {l \in I : l <= i}
           k == Cardinality(J)
<1>1. J \in SUBSET I /\ i \in J
  OBVIOUS
<1>2. IsFiniteSet(J) /\ k <= Cardinality(I)
  BY <1>1, FS_Subset
<1>3. k \in Nat /\ Cardinality(I) \in Nat /\ k # 0
  <2> HIDE DEF J
  <2> QED
    BY <1>1, <1>2, FS_CardinalityType, FS_EmptySet
<1>4. k \in 1..Cardinality(I)
  <2> HIDE DEF J
  <2> QED
    BY <1>2, <1>3
<1>5. Nth(I, k) \in I /\ Cardinality({l \in I : l <= Nth(I, k)}) = k
  <2> HIDE DEF k
  <2> QED
    BY <1>4, NthHasRank
<1>6. Nth(I, k) = i
  BY <1>5, RankInjective
<1> QED
  BY <1>4, <1>6

(* What is retained comes from the sequence, and is not longer than it.    *)
LEMMA RetainType ==
  ASSUME NEW S, NEW q \in Seq(S), NEW I \in SUBSET (DOMAIN q)
  PROVE  /\ Retain(q, I) \in Seq(S)
         /\ DOMAIN Retain(q, I) = 1..Cardinality(I)
         /\ Len(Retain(q, I)) = Cardinality(I)
         /\ Cardinality(I) <= Len(q)
         /\ \A k \in DOMAIN Retain(q, I) : \E i \in I : Retain(q, I)[k] = q[i]
<1>1. IsFiniteSet(I) /\ Cardinality(I) \in Nat /\ Cardinality(I) <= Len(q)
  <2>1. IsFiniteSet(1..Len(q)) /\ Cardinality(1..Len(q)) = Len(q)
    <3>1. Len(q) \in Nat
      OBVIOUS
    <3> QED
      BY <3>1, FS_Interval
  <2>2. I \in SUBSET (1..Len(q))
    OBVIOUS
  <2> QED
    BY <2>1, <2>2, FS_Subset, FS_CardinalityType
<1>2. I \in SUBSET Nat
  OBVIOUS
<1>3. \A k \in 1..Cardinality(I) : Nth(I, k) \in I
  BY <1>1, <1>2, NthInSet
<1>4. Retain(q, I) \in [1..Cardinality(I) -> S]
  BY <1>3 DEF Retain
<1>5. \A k \in 1..Cardinality(I) : Retain(q, I)[k] = q[Nth(I, k)]
  BY DEF Retain
<1> QED
  BY <1>1, <1>3, <1>4, <1>5

(* Retaining every position changes nothing.                               *)
LEMMA RetainAll ==
  ASSUME NEW S, NEW q \in Seq(S)
  PROVE  Retain(q, DOMAIN q) = q
<1> DEFINE n == Len(q)
<1>1. DOMAIN q = 1..n /\ n \in Nat
  OBVIOUS
<1>2. \A i \in 1..n : Cardinality({j \in 1..n : j <= i}) = i
  <2> SUFFICES ASSUME NEW i \in 1..n
               PROVE  Cardinality({j \in 1..n : j <= i}) = i
    OBVIOUS
  <2>1. {j \in 1..n : j <= i} = 1..i
    BY <1>1
  <2>2. Cardinality(1..i) = i
    BY FS_Interval
  <2> QED
    BY <2>1, <2>2
<1>3. Cardinality(1..n) = n
  BY <1>1, FS_Interval
<1>4. \A k \in 1..n : Nth(1..n, k) = k
  BY <1>2 DEF Nth
<1>5. Retain(q, 1..n) = [k \in 1..n |-> q[k]]
  BY <1>3, <1>4 DEF Retain
<1> QED
  BY <1>1, <1>5

(* retain(|x| !D.contains(x)) on a list without duplicates.                *)
LEMMA WithoutFacts ==
  ASSUME NEW S, NEW q \in Seq(S), NEW D
  PROVE  /\ Without(q, D) \in Seq(S)
         /\ Len(Without(q, D)) <= Len(q)
         /\ \A k \in DOMAIN Without(q, D) :
              \E i \in DOMAIN q : q[i] \notin D /\ Without(q, D)[k] = q[i]
         /\ \A i \in DOMAIN q : q[i] \notin D =>
              \E k \in DOMAIN Without(q, D) : Without(q, D)[k] = q[i]
         /\ (\A i, j \in DOMAIN q : q[i] = q[j] => i = j) =>
              \A k, l \in DOMAIN Without(q, D) : Without(q, D)[k] = Without(q, D)[l] => k = l
<1> DEFINE I == {i \in DOMAIN q : q[i] \notin D}
           r == Without(q, D)
<1>1. I \in SUBSET (DOMAIN q) /\ I \in SUBSET Nat
  OBVIOUS
<1>2. r = Retain(q, I)
  BY DEF Without
<1>3. /\ r \in Seq(S) /\ DOMAIN r = 1..Cardinality(I) /\ Len(r) = Cardinality(I)
      /\ Cardinality(I) <= Len(q)
  BY <1>1, <1>2, RetainType
<1>4. IsFiniteSet(I)
  <2>1. Len(q) \in Nat
    OBVIOUS
  <2>2. IsFiniteSet(1..Len(q))
    BY <2>1, FS_Interval
  <2> QED
    BY <1>1, <2>2, FS_Subset
<1>5. \A k \in 1..Cardinality(I) : r[k] = q[Nth(I, k)]
  BY <1>2 DEF Retain
<1>6. \A k \in 1..Cardinality(I) : Nth(I, k) \in I /\ Cardinality({l \in I : l <= Nth(I, k)}) = k
  BY <1>1, <1>4, NthHasRank
<1>7. \A i \in I : \E k \in 1..Cardinality(I) : Nth(I, k) = i
  BY <1>1, <1>4, NthOnto
<1>8. \A k \in DOMAIN r : \E i \in DOMAIN q : q[i] \notin D /\ r[k] = q[i]
  BY <1>3, <1>5, <1>6
<1>9. \A i \in DOMAIN q : q[i] \notin D => \E k \in DOMAIN r : r[k] = q[i]
  <2> HIDE DEF r
  <2> QED
    BY <1>3, <1>5, <1>7
<1>10. ASSUME \A i, j \in DOMAIN q : q[i] = q[j] => i = j
       PROVE  \A k, l \in DOMAIN r : r[k] = r[l] => k = l
  <2> SUFFICES ASSUME NEW k \in DOMAIN r, NEW l \in DOMAIN r, r[k] = r[l]
               PROVE  k = l
    OBVIOUS
  <2> HIDE DEF r
  <2>1. q[Nth(I, k)] = q[Nth(I, l)] /\ Nth(I, k) \in DOMAIN q /\ Nth(I, l) \in DOMAIN q
    BY <1>1, <1>3, <1>5, <1>6
  <2>2. Nth(I, k) = Nth(I, l)
    BY <1>10, <2>1
  <2>3. k \in 1..Cardinality(I) /\ l \in 1..Cardinality(I)
    BY <1>3
  <2>4. /\ Cardinality({h \in I : h <= Nth(I, k)}) = k
        /\ Cardinality({h \in I : h <= Nth(I, l)}) = l
    BY <1>6, <2>3
  <2> HIDE DEF I
  <2> QED
    BY <2>2, <2>4
<1> QED
  BY <1>3, <1>8, <1>9, <1>10

-----------------------------------------------------------------------------
(* Loops.                                                                  *)

LEMMA LeastIsThere ==
  ASSUME NEW I \in SUBSET Nat, I # {}
  PROVE  \E i \in I : \A j \in I : i <= j
<1> DEFINE R == OpToRel(<, Nat)
<1>1. \A i, j \in Nat : <<j, i>> \in R <=> j < i
  BY DEF OpToRel
<1>2. IsWellFoundedOn(R, Nat)
  BY NatLessThanWellFounded
<1> HIDE DEF R
<1>3. PICK i \in I : \A j \in I : ~ (<<j, i>> \in R)
  BY <1>2, WFMin
<1>4. \A j \in I : j \in Nat /\ i \in Nat /\ ~ (j < i)
  BY <1>1, <1>3
<1> QED
  BY <1>4

LEMMA SetInduction ==
  ASSUME NEW S, 0 \in S, \A n \in Nat : n \in S => n + 1 \in S
  PROVE  \A n \in Nat : n \in S
<1> DEFINE I == Nat \ S
<1> SUFFICES ASSUME I # {}
             PROVE  FALSE
  OBVIOUS
<1>1. PICK i \in I : \A j \in I : i <= j
  BY LeastIsThere
<1>2. i # 0 /\ i - 1 \in Nat /\ ~ (i <= i - 1)
  BY <1>1
<1>3. i - 1 \in S
  BY <1>1, <1>2
<1>4. (i - 1) + 1 \in S
  BY <1>2, <1>3
<1> QED
  BY <1>1, <1>2, <1>4

(* The turns of a loop, as its definition has them.                        *)
Turns(f, F, x, n) == f = [k \in 0..n |-> IF k = 0 THEN x ELSE F[f[k - 1]]]

LEMMA TurnsExist ==
  ASSUME NEW F, NEW x
  PROVE  \A n \in Nat : \E f : Turns(f, F, x, n)
<1> DEFINE S == {n \in Nat : \E f : Turns(f, F, x, n)}
<1>1. 0 \in S
  <2> DEFINE f == [k \in 0..0 |-> x]
  <2>1. f = [k \in 0..0 |-> IF k = 0 THEN x ELSE F[f[k - 1]]]
    OBVIOUS
  <2> HIDE DEF f
  <2>2. Turns(f, F, x, 0)
    BY <2>1 DEF Turns
  <2> QED
    BY <2>2
<1>2. ASSUME NEW n \in Nat, n \in S
      PROVE  n + 1 \in S
  <2>1. PICK f : Turns(f, F, x, n)
    BY <1>2
  <2> DEFINE g == [k \in 0..(n + 1) |-> IF k = n + 1 THEN F[f[n]] ELSE f[k]]
  <2>2. \A k \in 0..n : f[k] = IF k = 0 THEN x ELSE F[f[k - 1]]
    BY <2>1 DEF Turns
  <2>3. ASSUME NEW k \in 0..(n + 1)
        PROVE  g[k] = IF k = 0 THEN x ELSE F[g[k - 1]]
    <3>1. CASE k = n + 1
      <4>1. k # 0 /\ k - 1 = n /\ n \in 0..(n + 1) /\ n # n + 1
        BY <3>1
      <4> QED
        BY <3>1, <4>1
    <3>2. CASE k # n + 1 /\ k # 0
      <4>1. k \in 0..n /\ k - 1 \in 0..(n + 1) /\ k - 1 # n + 1
        BY <3>2
      <4>2. g[k] = f[k] /\ g[k - 1] = f[k - 1]
        BY <3>2, <4>1
      <4> HIDE DEF g
      <4> QED
        BY <2>2, <3>2, <4>1, <4>2
    <3>3. CASE k = 0
      <4>1. 0 \in 0..n /\ 0 # n + 1
        OBVIOUS
      <4> QED
        BY <2>2, <3>3, <4>1
    <3> QED
      BY <3>1, <3>2, <3>3
  <2>4. g = [k \in 0..(n + 1) |-> IF k = 0 THEN x ELSE F[g[k - 1]]]
    <3>1. g = [k \in 0..(n + 1) |-> g[k]]
      OBVIOUS
    <3> HIDE DEF g
    <3> QED
      BY <2>3, <3>1
  <2> HIDE DEF g
  <2>5. Turns(g, F, x, n + 1)
    BY <2>4 DEF Turns
  <2> QED
    BY <2>5
<1> HIDE DEF S
<1>3. \A n \in Nat : n \in S
  BY <1>1, <1>2, SetInduction
<1> QED
  BY <1>3 DEF S

LEMMA TurnsAgree ==
  ASSUME NEW F, NEW x, NEW n \in Nat, NEW f, NEW g, Turns(f, F, x, n), Turns(g, F, x, n + 1)
  PROVE  \A k \in Nat : k \in 0..n => f[k] = g[k]
<1> DEFINE S == {k \in Nat : k \in 0..n => f[k] = g[k]}
<1>1. /\ \A k \in 0..n : f[k] = IF k = 0 THEN x ELSE F[f[k - 1]]
      /\ \A k \in 0..(n + 1) : g[k] = IF k = 0 THEN x ELSE F[g[k - 1]]
  BY DEF Turns
<1>2. 0 \in S
  <2>1. 0 \in 0..n /\ 0 \in 0..(n + 1)
    OBVIOUS
  <2> QED
    BY <1>1, <2>1
<1>3. ASSUME NEW k \in Nat, k \in S
      PROVE  k + 1 \in S
  <2> SUFFICES ASSUME k + 1 \in 0..n
               PROVE  f[k + 1] = g[k + 1]
    OBVIOUS
  <2>1. k \in 0..n /\ k + 1 \in 0..(n + 1) /\ k + 1 # 0 /\ (k + 1) - 1 = k
    OBVIOUS
  <2>2. f[k] = g[k]
    BY <1>3, <2>1
  <2>3. f[k + 1] = F[f[k]] /\ g[k + 1] = F[g[k]]
    BY <1>1, <2>1
  <2> QED
    BY <2>2, <2>3
<1> HIDE DEF S
<1>4. \A k \in Nat : k \in S
  BY <1>2, <1>3, SetInduction
<1> QED
  BY <1>4 DEF S

LEMMA IterateFacts ==
  ASSUME NEW F, NEW x
  PROVE  /\ Iterate(F, x, 0) = x
         /\ \A n \in Nat : Iterate(F, x, n + 1) = F[Iterate(F, x, n)]
<1> DEFINE f(n) == CHOOSE f : f = [k \in 0..n |-> IF k = 0 THEN x ELSE F[f[k - 1]]]
<1>1. ASSUME NEW n \in Nat
      PROVE  Turns(f(n), F, x, n) /\ Iterate(F, x, n) = f(n)[n]
  <2>1. \E g : g = [k \in 0..n |-> IF k = 0 THEN x ELSE F[g[k - 1]]]
    <3>1. \E g : Turns(g, F, x, n)
      BY TurnsExist
    <3> QED
      BY <3>1 DEF Turns
  <2>2. f(n) = [k \in 0..n |-> IF k = 0 THEN x ELSE F[f(n)[k - 1]]]
    BY <2>1
  <2> QED
    BY <2>2 DEF Turns, Iterate
<1> HIDE DEF f
<1>2. Iterate(F, x, 0) = x
  <2>1. f(0)[0] = x
    BY <1>1 DEF Turns
  <2> QED
    BY <1>1, <2>1
<1>3. ASSUME NEW n \in Nat
      PROVE  Iterate(F, x, n + 1) = F[Iterate(F, x, n)]
  <2>1. n + 1 \in Nat /\ n + 1 \in 0..(n + 1) /\ n + 1 # 0 /\ (n + 1) - 1 = n /\ n \in 0..n
    OBVIOUS
  <2>2. Turns(f(n), F, x, n) /\ Turns(f(n + 1), F, x, n + 1)
    BY <1>1, <2>1
  <2>3. f(n + 1)[n + 1] = F[f(n + 1)[n]]
    BY <2>1, <2>2 DEF Turns
  <2>4. f(n)[n] = f(n + 1)[n]
    BY <2>1, <2>2, TurnsAgree
  <2> QED
    BY <1>1, <2>1, <2>3, <2>4
<1> QED
  BY <1>2, <1>3

(* What a turn keeps, the loop keeps.                                      *)
LEMMA IterateKeeps ==
  ASSUME NEW F, NEW x, NEW S, x \in S, \A y \in S : F[y] \in S
  PROVE  \A n \in Nat : Iterate(F, x, n) \in S
<1> DEFINE I == {n \in Nat : Iterate(F, x, n) \in S}
<1>1. 0 \in I
  BY IterateFacts
<1>2. ASSUME NEW n \in Nat, n \in I
      PROVE  n + 1 \in I
  <2>1. Iterate(F, x, n) \in S
    BY <1>2
  <2>2. Iterate(F, x, n + 1) = F[Iterate(F, x, n)]
    BY IterateFacts
  <2> QED
    BY <2>1, <2>2
<1> HIDE DEF I
<1>3. \A n \in Nat : n \in I
  BY <1>1, <1>2, SetInduction
<1> QED
  BY <1>3 DEF I

(* A walk, which only ever adds to what it has seen, has seen all that is  *)
(* to be seen after as many turns as there is to see.                      *)
LEMMA WalkIsClosed ==
  ASSUME NEW U, IsFiniteSet(U), NEW F, NEW X \in SUBSET U,
         \A P \in SUBSET U : F[P] \in SUBSET U /\ P \subseteq F[P],
         NEW W, W = Iterate(F, X, Cardinality(U))
  PROVE  W \in SUBSET U /\ X \subseteq W /\ F[W] = W
<1> DEFINE at(n) == Iterate(F, X, n)
           N == Cardinality(U)
<1>1. N \in Nat
  BY FS_CardinalityType
<1>2. \A n \in Nat : at(n) \in SUBSET U
  BY IterateKeeps
<1>3. at(0) = X /\ \A n \in Nat : at(n + 1) = F[at(n)]
  BY IterateFacts
<1>4. W = at(N)
  OBVIOUS
<1> HIDE DEF at, N
<1>5. \A n \in Nat : IsFiniteSet(at(n)) /\ Cardinality(at(n)) \in Nat
  BY <1>2, FS_Subset, FS_CardinalityType
<1>6. \A n \in Nat : X \subseteq at(n)
  <2> DEFINE S == {P \in SUBSET U : X \subseteq P}
  <2>1. \A P \in S : F[P] \in S
    OBVIOUS
  <2> HIDE DEF S
  <2>2. X \in S
    BY DEF S
  <2>3. \A n \in Nat : Iterate(F, X, n) \in S
    BY <2>1, <2>2, IterateKeeps
  <2> QED
    BY <2>3 DEF S, at
<1> DEFINE J == {n \in Nat : at(n + 1) = at(n) \/ Cardinality(at(n + 1)) >= n + 1}
<1>7. ASSUME NEW n \in Nat, at(n + 1) # at(n)
      PROVE  Cardinality(at(n + 1)) >= Cardinality(at(n)) + 1
  <2>1. at(n) \subseteq at(n + 1) /\ n + 1 \in Nat
    BY <1>2, <1>3
  <2>2. PICK e \in at(n + 1) : e \notin at(n)
    BY <1>7, <2>1
  <2>3. Cardinality(at(n) \cup {e}) = Cardinality(at(n)) + 1
    BY <1>5, <2>2, FS_AddElement
  <2>4. at(n) \cup {e} \subseteq at(n + 1)
    BY <2>1, <2>2
  <2>5. Cardinality(at(n) \cup {e}) <= Cardinality(at(n + 1))
    BY <1>5, <2>1, <2>4, FS_Subset
  <2> QED
    BY <1>5, <2>1, <2>3, <2>5
<1>8. 0 \in J
  <2>1. at(0 + 1) # at(0) => Cardinality(at(0 + 1)) >= Cardinality(at(0)) + 1
    BY <1>7
  <2>2. Cardinality(at(0)) \in Nat /\ Cardinality(at(0 + 1)) \in Nat
    BY <1>5
  <2> QED
    BY <2>1, <2>2
<1>9. ASSUME NEW n \in Nat, n \in J
      PROVE  n + 1 \in J
  <2>1. n + 1 \in Nat /\ (n + 1) + 1 \in Nat
    OBVIOUS
  <2>2. CASE at(n + 1) = at(n)
    <3>1. at((n + 1) + 1) = at(n + 1)
      BY <1>3, <2>1, <2>2
    <3> QED
      BY <2>1, <3>1
  <2>3. CASE at((n + 1) + 1) # at(n + 1) /\ at(n + 1) # at(n)
    <3>1. Cardinality(at((n + 1) + 1)) >= Cardinality(at(n + 1)) + 1
      BY <1>7, <2>1, <2>3
    <3>2. Cardinality(at(n + 1)) >= n + 1
      BY <1>9, <2>3
    <3>3. Cardinality(at((n + 1) + 1)) \in Nat /\ Cardinality(at(n + 1)) \in Nat
      BY <1>5, <2>1
    <3>4. Cardinality(at((n + 1) + 1)) >= (n + 1) + 1
      BY <3>1, <3>2, <3>3
    <3> QED
      BY <2>1, <3>4
  <2>4. CASE at((n + 1) + 1) = at(n + 1)
    BY <2>1, <2>4
  <2> QED
    BY <2>2, <2>3, <2>4
<1> HIDE DEF J
<1>10. \A n \in Nat : n \in J
  BY <1>8, <1>9, SetInduction
<1>11. at(N + 1) = at(N)
  <2>1. at(N + 1) \in SUBSET U /\ N + 1 \in Nat
    BY <1>1, <1>2
  <2>2. Cardinality(at(N + 1)) <= N
    BY <2>1, FS_Subset DEF N
  <2>3. Cardinality(at(N + 1)) \in Nat
    BY <1>5, <2>1
  <2>4. ~ (Cardinality(at(N + 1)) >= N + 1)
    BY <1>1, <2>2, <2>3
  <2> QED
    BY <1>1, <1>10, <2>4 DEF J
<1> QED
  BY <1>1, <1>2, <1>3, <1>4, <1>6, <1>11

(* And nothing else.                                                       *)
LEMMA WalkIsLeast ==
  ASSUME NEW U, IsFiniteSet(U), NEW F, NEW X, NEW Y,
         X \subseteq Y, \A P \in SUBSET Y : F[P] \in SUBSET Y
  PROVE  Iterate(F, X, Cardinality(U)) \subseteq Y
<1>1. \A n \in Nat : Iterate(F, X, n) \in SUBSET Y
  BY IterateKeeps
<1> QED
  BY <1>1, FS_CardinalityType

=============================================================================
