---------------------------- MODULE EngineProofs ----------------------------
(***************************************************************************)
(* Planning and Engine: the walk downstream finds what the edges reach,    *)
(* and the sort places it in order or finds a cycle; what an edit takes    *)
(* away takes its values with it, and the two copies of a SubGraph's       *)
(* defaults stay one; a walk back through the ports depends on nothing but *)
(* what it passes, and everything that flows is of its kind.               *)
(***************************************************************************)
EXTENDS Engine, NodeStatesProofs

(* Every edge out of P leads into P.                                       *)
Closed(s, P) == \A e \in EdgesOf(s) : s.edges[e]["out"].node \in P => s.edges[e]["in"].node \in P

LEMMA ClosedIsSuccessors ==
  ASSUME NEW s, NEW P
  PROVE  Closed(s, P) <=> Successors(s, P) \subseteq P
BY DEF Closed, Successors

LEMMA EndsArePaths ==
  ASSUME NEW s \in States, NEW e \in EdgesOf(s)
  PROVE  s.edges[e]["in"].node \in Path /\ s.edges[e]["out"].node \in Path
<1>1. s.edges[e] \in Edge
  BY DEF EdgesOf, States
<1> QED
  BY <1>1 DEF Edge, End, Side

(* The walk downstream finds what can be reached, and nothing else.        *)
LEMMA DownstreamFacts ==
  ASSUME NEW s \in States, NEW from \in SUBSET Path
  PROVE  /\ Downstream(s, from) \in SUBSET Path
         /\ from \subseteq Downstream(s, from) /\ Closed(s, Downstream(s, from))
         /\ \A Y \in SUBSET Path : from \subseteq Y /\ Closed(s, Y) => Downstream(s, from) \subseteq Y
<1> DEFINE F == [P \in SUBSET Path |-> P \cup Successors(s, P)]
           W == Downstream(s, from)
<1>1. \A P : Successors(s, P) \in SUBSET Path
  BY EndsArePaths DEF Successors
<1>2. \A P \in SUBSET Path : F[P] = P \cup Successors(s, P)
  OBVIOUS
<1>3. W = Iterate(F, from, Cardinality(Path))
  BY DEF Downstream
<1> HIDE DEF F, W
<1>4. \A P \in SUBSET Path : F[P] \in SUBSET Path /\ P \subseteq F[P]
  BY <1>1, <1>2
<1>5. W \in SUBSET Path /\ from \subseteq W /\ F[W] = W
  BY <1>3, <1>4, FiniteAssumption, WalkIsClosed
<1>6. Closed(s, W)
  BY <1>2, <1>5, ClosedIsSuccessors
<1>7. ASSUME NEW Y \in SUBSET Path, from \subseteq Y, Closed(s, Y)
      PROVE  W \subseteq Y
  <2>1. ASSUME NEW P \in SUBSET Y
        PROVE  F[P] \in SUBSET Y
    <3>1. Successors(s, P) \subseteq Y
      BY <1>7 DEF Successors, Closed
    <3> QED
      BY <1>2, <3>1
  <2> QED
    BY <1>3, <1>7, <2>1, FiniteAssumption, WalkIsLeast
<1> QED
  BY <1>5, <1>6, <1>7 DEF W

-----------------------------------------------------------------------------
(* The sort.                                                               *)

LEMMA BetweenIsFinite ==
  ASSUME NEW s, Good(s), NEW P, NEW p \in Path
  PROVE  IsFiniteSet(Between(s, P, p)) /\ Cardinality(Between(s, P, p)) \in Nat
<1> DEFINE q == s.touching["in"][p]
           D == {e \in EdgesOf(s) : s.edges[e]["in"].node = p}
<1>1. q \in Seq(EdgeId) /\ Once(q, D)
  BY DEF Good, Sound, Filed, States, Side
<1> HIDE DEF q, D
<1>2. Len(q) \in Nat /\ DOMAIN q = 1..Len(q)
  BY <1>1
<1>3. q \in Surjection(1..Len(q), D)
  BY <1>1, <1>2 DEF Once, Surjection
<1>4. IsFiniteSet(1..Len(q))
  BY <1>2, FS_Interval
<1>5. IsFiniteSet(D)
  BY <1>3, <1>4, FS_Surjection
<1>6. Between(s, P, p) \in SUBSET D
  BY DEF Between, D
<1>7. IsFiniteSet(Between(s, P, p))
  BY <1>5, <1>6, FS_Subset
<1> QED
  BY <1>7, FS_CardinalityType

(* What feeds a placed node, of the planned ones, has been placed before.  *)
Ordered(s, P, levels) ==
  \A k \in DOMAIN levels : \A p \in levels[k] : \A e \in Between(s, P, p) :
    \E j \in DOMAIN levels : j < k /\ s.edges[e]["out"].node \in levels[j]

Disjoint(levels) == \A j, k \in DOMAIN levels : j # k => levels[j] \cap levels[k] = {}

(* Where the sort stands, after any number of levels.                      *)
SortInv(s, P, t) ==
  LET done == Placed(t.levels)
  IN  /\ t \in Sorting(P)
      /\ \A p \in P : t.degree[p] = Cardinality(Between(s, P \ done, p))
      /\ \A p \in P : t.degree[p] = 0 <=> p \in done \cup t.level
      /\ done \cap t.level = {}
      /\ Disjoint(t.levels) /\ Ordered(s, P, t.levels)

LEMMA PlacedAppend ==
  ASSUME NEW S, NEW levels \in Seq(S), NEW l
  PROVE  Placed(Append(levels, l)) = Placed(levels) \cup l
<1> DEFINE n == Len(levels)
           r == Append(levels, l)
<1>1. /\ n \in Nat /\ DOMAIN levels = 1..n /\ DOMAIN r = 1..(n + 1)
      /\ r[n + 1] = l /\ \A k \in 1..n : r[k] = levels[k]
  OBVIOUS
<1> HIDE DEF n, r
<1>2. \A k \in DOMAIN r : k \in DOMAIN levels \/ k = n + 1
  BY <1>1
<1>3. n + 1 \in DOMAIN r /\ DOMAIN levels \subseteq DOMAIN r
  BY <1>1
<1>4. Placed(r) = Placed(levels) \cup l
  BY <1>1, <1>2, <1>3 DEF Placed
<1> QED
  BY <1>4 DEF r

LEMMA PlacedFacts ==
  ASSUME NEW P, NEW levels \in Seq(SUBSET P)
  PROVE  /\ Placed(levels) \in SUBSET P
         /\ \A p \in Placed(levels) : \E k \in DOMAIN levels : p \in levels[k]
         /\ \A k \in DOMAIN levels : levels[k] \subseteq Placed(levels)
BY DEF Placed

(* Nothing feeds a node whose degree is 0.                                 *)
LEMMA NoDegree ==
  ASSUME NEW s, Good(s), NEW P, NEW p \in Path
  PROVE  Cardinality(Between(s, P, p)) = 0 <=> Between(s, P, p) = {}
BY BetweenIsFinite, FS_EmptySet

LEMMA SortBegins ==
  ASSUME NEW s, Good(s), NEW P \in SUBSET Path
  PROVE  SortInv(s, P, FirstLevel(s, P))
<1> DEFINE t == FirstLevel(s, P)
           degree == InDegree(s, P)
<1>1. \A p \in P : degree[p] = Cardinality(Between(s, P, p)) /\ degree[p] \in Nat
  BY BetweenIsFinite DEF InDegree
<1>2. degree \in [P -> Int]
  BY <1>1 DEF InDegree
<1>3. t.degree = degree /\ t.level = {p \in P : degree[p] = 0} /\ t.levels = <<>>
  BY DEF FirstLevel
<1>4. t \in Sorting(P)
  <2>1. <<>> \in Seq(SUBSET P)
    OBVIOUS
  <2>2. {p \in P : degree[p] = 0} \in SUBSET P
    OBVIOUS
  <2> HIDE DEF degree
  <2> QED
    BY <1>2, <2>1, <2>2 DEF FirstLevel, Sorting, degree
<1> HIDE DEF t, degree
<1>5. Placed(<<>>) = {} /\ Disjoint(<<>>) /\ Ordered(s, P, <<>>)
  BY DEF Placed, Disjoint, Ordered
<1>6. P \ {} = P
  OBVIOUS
<1> QED
  BY <1>1, <1>3, <1>4, <1>5, <1>6 DEF SortInv, t

LEMMA SortGoesOn ==
  ASSUME NEW s, Good(s), NEW P \in SUBSET Path, NEW t, SortInv(s, P, t)
  PROVE  LET u == NextLevel(s, P, t)
         IN  /\ SortInv(s, P, u)
             /\ Placed(u.levels) = Placed(t.levels) \cup t.level
             /\ t.level = {} => u.level = {}
<1> DEFINE u == NextLevel(s, P, t)
           done == Placed(t.levels)
           degree == Release(s, t.degree, t.level)
           level == {p \in P : degree[p] = 0 /\ t.degree[p] # 0}
           levels == IF t.level = {} THEN t.levels ELSE Append(t.levels, t.level)
           now == done \cup t.level
<1>1. /\ t \in Sorting(P) /\ t.degree \in [P -> Int] /\ t.level \in SUBSET P
      /\ t.levels \in Seq(SUBSET P)
      /\ \A p \in P : t.degree[p] = Cardinality(Between(s, P \ done, p))
      /\ \A p \in P : t.degree[p] = 0 <=> p \in now
      /\ done \cap t.level = {} /\ Disjoint(t.levels) /\ Ordered(s, P, t.levels)
  BY DEF SortInv, Sorting
<1>2. u.degree = degree /\ u.level = level /\ u.levels = levels
  BY DEF NextLevel
<1>3. done \in SUBSET P
  BY <1>1, PlacedFacts
<1>4. ASSUME NEW p \in P
      PROVE  degree[p] = Cardinality(Between(s, P \ now, p)) /\ degree[p] \in Int
  <2> DEFINE A == Between(s, P \ done, p)
             B == Between(s, t.level, p)
  <2>1. degree[p] = t.degree[p] - Cardinality(B)
    BY <1>1 DEF Release
  <2>2. A \ B = Between(s, P \ now, p) /\ A \cap B = B
    BY <1>1 DEF Between
  <2> DEFINE rest == Cardinality(Between(s, P \ now, p))
  <2>3. IsFiniteSet(A) /\ Cardinality(A) \in Nat /\ Cardinality(B) \in Nat
    BY BetweenIsFinite
  <2>4. t.degree[p] = Cardinality(A)
    BY <1>1
  <2> HIDE DEF A, B
  <2>5. Cardinality(A \ B) = Cardinality(A) - Cardinality(A \cap B)
    BY <2>3, FS_Difference
  <2>6. rest = Cardinality(A) - Cardinality(B)
    BY <2>2, <2>5
  <2> HIDE DEF rest
  <2>7. degree[p] = rest /\ degree[p] \in Int
    BY <2>1, <2>3, <2>4, <2>6
  <2> QED
    BY <2>7 DEF rest
<1>5. degree \in [P -> Int]
  <2>1. DOMAIN t.degree = P
    BY <1>1
  <2>2. degree = [p \in P |-> degree[p]]
    BY <2>1 DEF Release
  <2> HIDE DEF degree
  <2> QED
    BY <1>4, <2>2
<1> HIDE DEF degree
<1>6. Placed(levels) = now /\ levels \in Seq(SUBSET P)
  <2>1. CASE t.level = {}
    BY <1>1, <2>1
  <2>2. CASE t.level # {}
    BY <1>1, <2>2, PlacedAppend
  <2> QED
    BY <2>1, <2>2
<1>7. u \in Sorting(P)
  <2>1. level \in SUBSET P
    OBVIOUS
  <2> HIDE DEF level, levels
  <2> QED
    BY <1>5, <1>6, <2>1 DEF NextLevel, Sorting, degree, level, levels
<1>8. ASSUME NEW p \in P
      PROVE  degree[p] = 0 <=> p \in now \cup level
  <2>1. ASSUME p \in now
        PROVE  degree[p] = 0
    <3>1. Between(s, P \ done, p) = {}
      BY <1>1, <2>1, NoDegree
    <3>2. Between(s, P \ now, p) = {}
      BY <3>1 DEF Between
    <3> QED
      BY <1>4, <3>2, FS_EmptySet
  <2> QED
    BY <1>1, <2>1
<1>9. now \cap level = {}
  BY <1>1
<1>10. t.level = {} => level = {}
  <2>1. ASSUME t.level = {}, NEW p \in P
        PROVE  degree[p] = t.degree[p]
    BY <1>1, <1>4, <2>1
  <2> QED
    BY <2>1
<1>11. Disjoint(levels) /\ Ordered(s, P, levels)
  <2>1. CASE t.level = {}
    BY <1>1, <2>1
  <2>2. CASE t.level # {}
    <3> DEFINE n == Len(t.levels)
    <3>1. levels = Append(t.levels, t.level)
      BY <2>2
    <3> HIDE DEF levels
    <3>2. /\ n \in Nat /\ DOMAIN t.levels = 1..n /\ DOMAIN levels = 1..(n + 1)
          /\ levels[n + 1] = t.level /\ \A k \in 1..n : levels[k] = t.levels[k]
      BY <1>1, <3>1
    <3>3. \A k \in 1..n : t.levels[k] \subseteq done
      BY <1>1, <3>2, PlacedFacts
    <3> HIDE DEF n
    <3>4. Disjoint(levels)
      <4>1. ASSUME NEW j \in DOMAIN levels, NEW k \in DOMAIN levels, j < k
            PROVE  levels[j] \cap levels[k] = {}
        <5>1. j \in 1..n /\ (k \in 1..n \/ k = n + 1)
          BY <3>2, <4>1
        <5>2. CASE k = n + 1
          BY <1>1, <3>2, <3>3, <5>1, <5>2
        <5>3. CASE k \in 1..n
          BY <1>1, <3>2, <4>1, <5>1, <5>3 DEF Disjoint
        <5> QED
          BY <5>1, <5>2, <5>3
      <4>2. \A j, k \in DOMAIN levels : j # k => j < k \/ k < j
        BY <3>2
      <4> QED
        BY <4>1, <4>2 DEF Disjoint
    <3>5. ASSUME NEW k \in DOMAIN levels, NEW p \in levels[k], NEW e \in Between(s, P, p)
          PROVE  \E j \in DOMAIN levels : j < k /\ s.edges[e]["out"].node \in levels[j]
      <4>1. CASE k \in 1..n
        <5>1. PICK j \in DOMAIN t.levels : j < k /\ s.edges[e]["out"].node \in t.levels[j]
          BY <1>1, <3>2, <4>1 DEF Ordered
        <5> QED
          BY <3>2, <5>1
      <4>2. CASE k = n + 1
        <5>1. p \in t.level /\ p \in P
          BY <1>1, <3>2, <4>2
        <5>2. Between(s, P \ done, p) = {}
          BY <1>1, <5>1, NoDegree
        <5>3. s.edges[e]["out"].node \in done
          BY <5>2 DEF Between
        <5>4. \A q \in done : \E j \in DOMAIN t.levels : q \in t.levels[j]
          BY <1>1, PlacedFacts
        <5>5. PICK j \in DOMAIN t.levels : s.edges[e]["out"].node \in t.levels[j]
          BY <5>3, <5>4
        <5> QED
          BY <3>2, <4>2, <5>5
      <4> QED
        BY <3>2, <4>1, <4>2
    <3> QED
      BY <3>4, <3>5 DEF Ordered
  <2> QED
    BY <2>1, <2>2
<1> HIDE DEF u, done, level, levels
<1>12. SortInv(s, P, u)
  BY <1>2, <1>4, <1>6, <1>7, <1>8, <1>9, <1>11 DEF SortInv
<1> QED
  BY <1>2, <1>6, <1>10, <1>12 DEF u, done

(* The sort goes on until nothing more can be placed: what it leaves out   *)
(* is fed by what it leaves out.                                           *)
LEMMA SortFacts ==
  ASSUME NEW s, Good(s), NEW P \in SUBSET Path
  PROVE  /\ Sort(s, P) \in Seq(SUBSET P)
         /\ Disjoint(Sort(s, P)) /\ Ordered(s, P, Sort(s, P))
         /\ \A p \in P \ Placed(Sort(s, P)) : Between(s, P \ Placed(Sort(s, P)), p) # {}
<1> DEFINE F == [t \in Sorting(P) |-> NextLevel(s, P, t)]
           S == {t \in Sorting(P) : SortInv(s, P, t)}
           at(n) == Iterate(F, FirstLevel(s, P), n)
           N == Cardinality(P)
<1>1. \A t \in S : F[t] = NextLevel(s, P, t)
  OBVIOUS
<1>2. Sort(s, P) = at(N).levels
  BY DEF Sort
<1>3. \A n \in Nat : at(n + 1) = F[at(n)]
  BY IterateFacts
<1> HIDE DEF F
<1>4. FirstLevel(s, P) \in S
  BY SortBegins DEF SortInv
<1>5. \A t \in S : F[t] \in S
  <2> SUFFICES ASSUME NEW t \in S
               PROVE  F[t] \in S
    OBVIOUS
  <2>1. SortInv(s, P, NextLevel(s, P, t))
    BY SortGoesOn
  <2>2. NextLevel(s, P, t) \in Sorting(P)
    BY <2>1 DEF SortInv
  <2> QED
    BY <1>1, <2>1, <2>2
<1> HIDE DEF S
<1>6. \A n \in Nat : at(n) \in S
  BY <1>4, <1>5, IterateKeeps
<1>7. \A n \in Nat : SortInv(s, P, at(n))
  BY <1>6 DEF S
<1>8. \A n \in Nat : at(n + 1) = NextLevel(s, P, at(n))
  BY <1>1, <1>3, <1>6
<1> HIDE DEF at, N
<1>9. IsFiniteSet(P) /\ N \in Nat
  BY FiniteAssumption, FS_Subset, FS_CardinalityType DEF N
<1> DEFINE seen(n) == Placed(at(n).levels) \cup at(n).level
<1>10. ASSUME NEW n \in Nat
       PROVE  /\ Placed(at(n).levels) \in SUBSET P /\ at(n).level \in SUBSET P
              /\ at(n).levels \in Seq(SUBSET P)
              /\ Placed(at(n).levels) \cap at(n).level = {}
              /\ Placed(at(n + 1).levels) = seen(n)
              /\ at(n).level = {} => at(n + 1).level = {}
  <2>1. SortInv(s, P, at(n)) /\ at(n + 1) = NextLevel(s, P, at(n))
    BY <1>7, <1>8
  <2>2. at(n) \in Sorting(P) /\ Placed(at(n).levels) \cap at(n).level = {}
    BY <2>1 DEF SortInv
  <2>3. at(n).level \in SUBSET P /\ at(n).levels \in Seq(SUBSET P)
    BY <2>2 DEF Sorting
  <2>4. Placed(at(n).levels) \in SUBSET P
    BY <2>3, PlacedFacts
  <2>5. /\ Placed(at(n + 1).levels) = seen(n)
        /\ at(n).level = {} => at(n + 1).level = {}
    <3> DEFINE t == at(n)
               u == NextLevel(s, P, t)
    <3>1. SortInv(s, P, t) /\ at(n + 1) = u
      BY <2>1
    <3> HIDE DEF t
    <3>2. Placed(u.levels) = Placed(t.levels) \cup t.level /\ (t.level = {} => u.level = {})
      BY <3>1, SortGoesOn
    <3> QED
      BY <3>1, <3>2 DEF t
  <2> QED
    BY <2>2, <2>3, <2>4, <2>5
<1>11. ASSUME NEW n \in Nat
       PROVE  IsFiniteSet(seen(n)) /\ Cardinality(seen(n)) \in Nat /\ Cardinality(seen(n)) <= N
  <2>1. seen(n) \in SUBSET P
    BY <1>10
  <2> QED
    BY <1>9, <2>1, FS_Subset, FS_CardinalityType DEF N
<1> DEFINE J == {n \in Nat : at(n).level = {} \/ Cardinality(seen(n)) >= n + 1}
<1>12. ASSUME NEW A, NEW B, IsFiniteSet(A), IsFiniteSet(A \cup B), A \cap B = {}, B # {}
       PROVE  Cardinality(A \cup B) >= Cardinality(A) + 1
  <2>1. PICK b \in B : b \notin A
    BY <1>12
  <2>2. Cardinality(A \cup {b}) = Cardinality(A) + 1 /\ Cardinality(A) \in Nat
    BY <1>12, <2>1, FS_AddElement, FS_CardinalityType
  <2>3. A \cup {b} \in SUBSET (A \cup B)
    BY <2>1
  <2>4. Cardinality(A \cup {b}) <= Cardinality(A \cup B) /\ Cardinality(A \cup B) \in Nat
    BY <1>12, <2>3, FS_Subset, FS_CardinalityType
  <2> QED
    BY <2>2, <2>4
<1>13. 0 \in J
  <2>1. CASE at(0).level # {}
    <3> DEFINE A == Placed(at(0).levels)
               B == at(0).level
    <3>1. seen(0) = A \cup B /\ A \cap B = {} /\ A \in SUBSET P
      BY <1>10
    <3>2. IsFiniteSet(A) /\ Cardinality(A) \in Nat
      BY <1>9, <3>1, FS_Subset, FS_CardinalityType
    <3>3. IsFiniteSet(A \cup B)
      BY <1>11
    <3>4. Cardinality(A \cup B) >= Cardinality(A) + 1
      BY <1>12, <2>1, <3>1, <3>2, <3>3
    <3>5. Cardinality(seen(0)) >= 1
      BY <1>11, <3>2, <3>4
    <3> QED
      BY <3>5
  <2> QED
    BY <2>1
<1>14. ASSUME NEW n \in Nat, n \in J
       PROVE  n + 1 \in J
  <2>1. n + 1 \in Nat
    OBVIOUS
  <2>2. CASE at(n + 1).level # {}
    <3> DEFINE B == at(n + 1).level
    <3>1. at(n).level # {} /\ Placed(at(n + 1).levels) = seen(n)
      BY <1>10, <2>2
    <3>2. Cardinality(seen(n)) >= n + 1 /\ IsFiniteSet(seen(n)) /\ Cardinality(seen(n)) \in Nat
      BY <1>11, <1>14, <3>1
    <3>3. seen(n + 1) = seen(n) \cup B /\ seen(n) \cap B = {}
      BY <1>10, <2>1, <3>1
    <3>4. IsFiniteSet(seen(n + 1)) /\ Cardinality(seen(n + 1)) \in Nat
      BY <1>11, <2>1
    <3> HIDE DEF seen
    <3>5. Cardinality(seen(n + 1)) >= Cardinality(seen(n)) + 1
      BY <1>12, <2>2, <3>2, <3>3, <3>4
    <3>6. Cardinality(seen(n + 1)) >= (n + 1) + 1
      BY <3>2, <3>4, <3>5
    <3> QED
      BY <2>1, <3>6
  <2> QED
    BY <2>1, <2>2
<1> HIDE DEF J
<1>15. \A n \in Nat : n \in J
  BY <1>13, <1>14, SetInduction
<1>16. at(N).level = {}
  <2>1. N \in J /\ Cardinality(seen(N)) \in Nat /\ Cardinality(seen(N)) <= N
    BY <1>9, <1>11, <1>15
  <2> QED
    BY <1>9, <2>1 DEF J
<1> DEFINE t == at(N)
<1>17. SortInv(s, P, t) /\ t.level = {} /\ Sort(s, P) = t.levels
  BY <1>2, <1>7, <1>9, <1>16
<1> HIDE DEF t
<1>18. ASSUME NEW p \in P \ Placed(t.levels)
       PROVE  Between(s, P \ Placed(t.levels), p) # {}
  <2>1. t.degree[p] # 0 /\ t.degree[p] = Cardinality(Between(s, P \ Placed(t.levels), p))
    BY <1>17 DEF SortInv
  <2> QED
    BY <2>1, FS_EmptySet
<1>19. t.levels \in Seq(SUBSET P) /\ Disjoint(t.levels) /\ Ordered(s, P, t.levels)
  BY <1>17 DEF SortInv, Sorting
<1> QED
  BY <1>17, <1>18, <1>19

(* What p feeds, however indirectly.                                       *)
Fed(s, p) == Downstream(s, Neighbors(s, p))

LEMMA FedFacts ==
  ASSUME NEW s \in States, NEW p \in Path
  PROVE  /\ Fed(s, p) \in SUBSET Path /\ Neighbors(s, p) \subseteq Fed(s, p)
         /\ Closed(s, Fed(s, p))
         /\ \A Y \in SUBSET Path : Neighbors(s, p) \subseteq Y /\ Closed(s, Y) => Fed(s, p) \subseteq Y
<1>1. Neighbors(s, p) \in SUBSET Path
  BY EndsArePaths DEF Neighbors
<1> QED
  BY <1>1, DownstreamFacts DEF Fed

LEMMA NeighborsAreClosed ==
  ASSUME NEW s, NEW X, Closed(s, X), NEW p \in X
  PROVE  Neighbors(s, p) \subseteq X
BY DEF Neighbors, Closed

(* The level a node is placed in.                                          *)
LevelOf(levels, p) == CHOOSE k \in DOMAIN levels : p \in levels[k]

LEMMA LevelFacts ==
  ASSUME NEW P, NEW levels \in Seq(SUBSET P), Disjoint(levels), NEW p \in Placed(levels)
  PROVE  /\ LevelOf(levels, p) \in DOMAIN levels /\ LevelOf(levels, p) \in Nat
         /\ p \in levels[LevelOf(levels, p)]
         /\ \A k \in DOMAIN levels : p \in levels[k] => k = LevelOf(levels, p)
<1>1. \E k \in DOMAIN levels : p \in levels[k]
  BY DEF Placed
<1>2. LevelOf(levels, p) \in DOMAIN levels /\ p \in levels[LevelOf(levels, p)]
  BY <1>1 DEF LevelOf
<1>3. DOMAIN levels \subseteq Nat
  OBVIOUS
<1> QED
  BY <1>2, <1>3 DEF Disjoint

(* With every planned node placed, an edge leads to a later level.         *)
LEMMA PlacedInOrder ==
  ASSUME NEW s, Good(s), NEW P \in SUBSET Path, Placed(Sort(s, P)) = P,
         NEW p \in P, NEW q \in P, q \in Neighbors(s, p)
  PROVE  LevelOf(Sort(s, P), p) < LevelOf(Sort(s, P), q)
<1> DEFINE L == Sort(s, P)
<1>1. L \in Seq(SUBSET P) /\ Disjoint(L) /\ Ordered(s, P, L)
  BY SortFacts
<1>2. Placed(L) = P
  OBVIOUS
<1> HIDE DEF L
<1>3. PICK e \in EdgesOf(s) : s.edges[e]["out"].node = p /\ s.edges[e]["in"].node = q
  BY DEF Neighbors
<1>4. e \in Between(s, P, q)
  BY <1>3 DEF Between
<1>5. LevelOf(L, q) \in DOMAIN L /\ q \in L[LevelOf(L, q)]
  BY <1>1, <1>2, LevelFacts
<1>6. PICK j \in DOMAIN L : j < LevelOf(L, q) /\ p \in L[j]
  BY <1>1, <1>3, <1>4, <1>5 DEF Ordered
<1>7. j = LevelOf(L, p)
  BY <1>1, <1>2, <1>6, LevelFacts
<1> QED
  BY <1>6, <1>7 DEF L

LEMMA PlacedIsAcyclic ==
  ASSUME NEW s, Good(s), NEW P \in SUBSET Path, Closed(s, P), Placed(Sort(s, P)) = P,
         NEW p \in P
  PROVE  p \notin Fed(s, p)
<1> DEFINE level(q) == LevelOf(Sort(s, P), q)
           X == {q \in P : level(p) < level(q)}
<1>1. \A q, r \in P : r \in Neighbors(s, q) => level(q) < level(r)
  BY PlacedInOrder
<1>2. \A q \in P : level(q) \in Nat
  BY SortFacts, LevelFacts
<1>3. s \in States
  BY DEF Good, Sound
<1> HIDE DEF level
<1>4. \A q \in P : Neighbors(s, q) \subseteq P
  BY NeighborsAreClosed
<1>5. Neighbors(s, p) \subseteq X
  BY <1>1, <1>4
<1>6. Closed(s, X)
  <2> SUFFICES ASSUME NEW e \in EdgesOf(s), s.edges[e]["out"].node \in X
               PROVE  s.edges[e]["in"].node \in X
    BY DEF Closed
  <2> DEFINE q == s.edges[e]["out"].node
             r == s.edges[e]["in"].node
  <2>1. r \in Neighbors(s, q)
    BY DEF Neighbors
  <2>2. q \in P /\ level(p) < level(q)
    OBVIOUS
  <2> HIDE DEF q, r
  <2>3. r \in P /\ level(q) < level(r)
    BY <1>1, <1>4, <2>1, <2>2
  <2>4. level(p) < level(r)
    BY <1>2, <2>2, <2>3
  <2> QED
    BY <2>3, <2>4 DEF q, r
<1>7. X \in SUBSET Path
  OBVIOUS
<1>8. p \notin X
  BY <1>2
<1> HIDE DEF X
<1>9. Fed(s, p) \subseteq X
  BY <1>3, <1>5, <1>6, <1>7, FedFacts
<1> QED
  BY <1>8, <1>9

(* A node that feeds another reaches all the other does, and it.           *)
LEMMA FeedingReachesMore ==
  ASSUME NEW s \in States, NEW p \in Path, NEW q \in Path, q \in Neighbors(s, p), q \notin Fed(s, q)
  PROVE  Cardinality(Fed(s, p)) >= Cardinality(Fed(s, q)) + 1 /\ Cardinality(Fed(s, q)) \in Nat
<1> DEFINE A == Fed(s, p)
           B == Fed(s, q)
<1>1. A \in SUBSET Path /\ B \in SUBSET Path /\ Closed(s, A) /\ q \in A
  BY FedFacts
<1>2. Neighbors(s, q) \subseteq A
  BY <1>1, NeighborsAreClosed
<1>3. B \subseteq A
  BY <1>1, <1>2, FedFacts
<1>4. q \notin B
  OBVIOUS
<1> HIDE DEF A, B
<1>5. IsFiniteSet(A) /\ IsFiniteSet(B)
  BY <1>1, FiniteAssumption, FS_Subset
<1>6. Cardinality(A) \in Nat /\ Cardinality(B) \in Nat
  BY <1>5, FS_CardinalityType
<1>7. Cardinality(B \cup {q}) = Cardinality(B) + 1
  BY <1>4, <1>5, FS_AddElement
<1>8. B \cup {q} \in SUBSET A
  BY <1>1, <1>3
<1>9. Cardinality(B \cup {q}) <= Cardinality(A)
  BY <1>5, <1>8, FS_Subset
<1>10. Cardinality(A) >= Cardinality(B) + 1
  BY <1>6, <1>7, <1>9
<1> QED
  BY <1>6, <1>10 DEF A, B

(* What is left unplaced holds a cycle: going back along it never ends.    *)
LEMMA UnplacedIsCyclic ==
  ASSUME NEW s, Good(s), NEW P \in SUBSET Path, Placed(Sort(s, P)) # P
  PROVE  \E p \in P : p \in Fed(s, p)
<1> DEFINE U == P \ Placed(Sort(s, P))
<1> SUFFICES ASSUME \A p \in P : p \notin Fed(s, p)
             PROVE  FALSE
  OBVIOUS
<1>1. Sort(s, P) \in Seq(SUBSET P) /\ \A p \in U : Between(s, U, p) # {}
  BY SortFacts
<1>2. U # {} /\ U \in SUBSET Path
  BY <1>1, PlacedFacts
<1>3. s \in States
  BY DEF Good, Sound
<1>4. \A p \in U : p \notin Fed(s, p)
  OBVIOUS
<1> HIDE DEF U
<1>5. ASSUME NEW u \in U
      PROVE  \E v \in U : u \in Neighbors(s, v)
  BY <1>1 DEF Between, Neighbors
<1> DEFINE J == {n \in Nat : \E u \in U : Cardinality(Fed(s, u)) >= n}
<1>6. \A u \in U : Cardinality(Fed(s, u)) \in Nat /\ Cardinality(Fed(s, u)) <= Cardinality(Path)
  <2> SUFFICES ASSUME NEW u \in U
               PROVE  Cardinality(Fed(s, u)) \in Nat /\ Cardinality(Fed(s, u)) <= Cardinality(Path)
    OBVIOUS
  <2>1. Fed(s, u) \in SUBSET Path
    BY <1>2, <1>3, FedFacts
  <2> QED
    BY <2>1, FiniteAssumption, FS_Subset, FS_CardinalityType
<1>7. 0 \in J
  <2>1. PICK u \in U : TRUE
    BY <1>2
  <2> QED
    BY <1>6, <2>1
<1>8. ASSUME NEW n \in Nat, n \in J
      PROVE  n + 1 \in J
  <2>1. PICK u \in U : Cardinality(Fed(s, u)) >= n
    BY <1>8
  <2>2. PICK v \in U : u \in Neighbors(s, v)
    BY <1>5
  <2>3. Cardinality(Fed(s, v)) >= Cardinality(Fed(s, u)) + 1
    BY <1>2, <1>3, <1>4, <2>2, FeedingReachesMore
  <2>4. Cardinality(Fed(s, v)) >= n + 1
    BY <1>6, <2>1, <2>3
  <2> QED
    BY <2>4
<1> HIDE DEF J
<1>9. \A n \in Nat : n \in J
  BY <1>7, <1>8, SetInduction
<1>10. Cardinality(Path) \in Nat
  BY FiniteAssumption, FS_CardinalityType
<1>11. PICK u \in U : Cardinality(Fed(s, u)) >= Cardinality(Path) + 1
  BY <1>9, <1>10 DEF J
<1> QED
  BY <1>6, <1>10, <1>11

(* In a sound graph the sort is right.                                     *)
LEMMA GoodSortIsRight ==
  ASSUME Good(ns)
  PROVE  SortIsRight
<1> DEFINE P == Downstream(ns, ns.changed)
           L == Sort(ns, P)
<1>1. ns \in States /\ ns.changed \in SUBSET Path
  BY DEF Good, Sound, States
<1>2. P \in SUBSET Path /\ Closed(ns, P)
  BY <1>1, DownstreamFacts
<1> HIDE DEF P
<1>3. Disjoint(L)
  BY <1>2, SortFacts
<1>4. Placed(L) = P => \A p \in P : p \notin Fed(ns, p)
  BY <1>2, PlacedIsAcyclic
<1>5. Placed(L) # P => \E p \in P : p \in Fed(ns, p)
  BY <1>2, UnplacedIsCyclic
<1>6. Placed(L) = P =>
        \A p, q \in P : q \in Neighbors(ns, p) => LevelOf(L, p) < LevelOf(L, q)
  BY <1>2, PlacedInOrder
<1> HIDE DEF L
<1> QED
  BY <1>3, <1>4, <1>5, <1>6 DEF SortIsRight, P, L, Disjoint, Fed, LevelOf

(* SortIsRight: at every point of every history of edits of a graph, the   *)
(* sort of what is dirty places each planned node once and after all that  *)
(* feeds it, unless the plan has a cycle, and then it says so.             *)
THEOREM SortStaysRight == Spec => []SortIsRight
<1>1. Spec => []IInv
  BY GraphStaysGood
<1>2. IInv => SortIsRight
  BY GoodSortIsRight DEF IInv
<1> QED
  BY <1>1, <1>2, PTL

-----------------------------------------------------------------------------
(* The levels of a pass.                                                   *)

NothingRun(c) == [cache |-> c, moved |-> {}, ran |-> {}, failed |-> {}]

(* What holds after each level, up to the n-th, as Pass has it.            *)
Runs(f, s, c, def, F, levels, n) ==
  f = [k \in 0..n |-> IF k = 0 THEN NothingRun(c)
                      ELSE RunLevel(s, def, s.changed, F, f[k - 1], levels[k])]

LEMMA RunsExist ==
  ASSUME NEW s, NEW c, NEW def, NEW F, NEW levels
  PROVE  \A n \in Nat : \E f : Runs(f, s, c, def, F, levels, n)
<1> DEFINE S == {n \in Nat : \E f : Runs(f, s, c, def, F, levels, n)}
           step(x, k) == RunLevel(s, def, s.changed, F, x, levels[k])
<1>1. 0 \in S
  <2> DEFINE f == [k \in 0..0 |-> NothingRun(c)]
  <2>1. f = [k \in 0..0 |-> IF k = 0 THEN NothingRun(c) ELSE step(f[k - 1], k)]
    OBVIOUS
  <2> HIDE DEF f
  <2>2. Runs(f, s, c, def, F, levels, 0)
    BY <2>1 DEF Runs
  <2> QED
    BY <2>2
<1>2. ASSUME NEW n \in Nat, n \in S
      PROVE  n + 1 \in S
  <2>1. PICK f : Runs(f, s, c, def, F, levels, n)
    BY <1>2
  <2>2. \A k \in 0..n : f[k] = IF k = 0 THEN NothingRun(c) ELSE step(f[k - 1], k)
    BY <2>1 DEF Runs
  <2> DEFINE g == [k \in 0..(n + 1) |-> IF k = n + 1 THEN step(f[n], n + 1) ELSE f[k]]
  <2> HIDE DEF step
  <2>3. ASSUME NEW k \in 0..(n + 1)
        PROVE  g[k] = IF k = 0 THEN NothingRun(c) ELSE step(g[k - 1], k)
    <3>1. CASE k = n + 1
      <4>1. k # 0 /\ k - 1 = n /\ n \in 0..(n + 1) /\ n # n + 1
        BY <3>1
      <4> QED
        BY <3>1, <4>1
    <3>2. CASE k # n + 1 /\ k # 0
      <4>1. k \in 0..n /\ k - 1 \in 0..(n + 1) /\ k - 1 # n + 1
        BY <3>2
      <4>2. g[k] = f[k] /\ g[k - 1] = f[k - 1]
        BY <3>2, <4>1
      <4> HIDE DEF g
      <4> QED
        BY <2>2, <3>2, <4>1, <4>2
    <3>3. CASE k = 0
      <4>1. 0 \in 0..n /\ 0 # n + 1
        OBVIOUS
      <4> QED
        BY <2>2, <3>3, <4>1
    <3> QED
      BY <3>1, <3>2, <3>3
  <2>4. g = [k \in 0..(n + 1) |-> IF k = 0 THEN NothingRun(c) ELSE step(g[k - 1], k)]
    <3>1. g = [k \in 0..(n + 1) |-> g[k]]
      OBVIOUS
    <3> HIDE DEF g
    <3> QED
      BY <2>3, <3>1
  <2> HIDE DEF g
  <2>5. Runs(g, s, c, def, F, levels, n + 1)
    BY <2>4 DEF Runs, step
  <2> QED
    BY <2>5
<1> HIDE DEF S
<1>3. \A n \in Nat : n \in S
  BY <1>1, <1>2, SetInduction
<1> QED
  BY <1>3 DEF S

(* A pass is its levels, one after the other.                              *)
LEMMA PassFacts ==
  ASSUME NEW s, NEW c, NEW def, NEW F, NEW levels, levels = Sort(s, Downstream(s, s.changed)),
         Len(levels) \in Nat
  PROVE  \E f : /\ f[0] = NothingRun(c)
                /\ \A k \in 1..Len(levels) :
                     f[k] = RunLevel(s, def, s.changed, F, f[k - 1], levels[k])
                /\ Pass(s, c, def, F) = f[Len(levels)]
<1> DEFINE n == Len(levels)
           f == CHOOSE f : Runs(f, s, c, def, F, levels, n)
<1>1. Runs(f, s, c, def, F, levels, n)
  BY RunsExist
<1>2. Pass(s, c, def, F) = f[n]
  BY DEF Pass, Runs, NothingRun
<1> HIDE DEF f
<1>3. f[0] = NothingRun(c)
  BY <1>1 DEF Runs
<1>4. \A k \in 1..n : k \in 0..n /\ k # 0
  OBVIOUS
<1>5. \A k \in 1..n : f[k] = RunLevel(s, def, s.changed, F, f[k - 1], levels[k])
  BY <1>1, <1>4 DEF Runs
<1> QED
  BY <1>2, <1>3, <1>5

(* What has run was planned, and what has failed was to fail.              *)
LEMMA PassStaysInPlan ==
  ASSUME NEW s, Good(s), NEW c, NEW def, NEW F
  PROVE  /\ Pass(s, c, def, F).ran \subseteq Downstream(s, s.changed)
         /\ Pass(s, c, def, F).failed \subseteq F
<1> DEFINE P == Downstream(s, s.changed)
           levels == Sort(s, P)
           n == Len(levels)
<1>1. s \in States /\ s.changed \in SUBSET Path
  BY DEF Good, Sound, States
<1>2. P \in SUBSET Path
  BY <1>1, DownstreamFacts
<1> HIDE DEF P
<1>3. levels \in Seq(SUBSET P)
  BY <1>2, SortFacts
<1> HIDE DEF levels
<1>4. n \in Nat /\ \A k \in 1..n : levels[k] \in SUBSET P
  BY <1>3
<1> HIDE DEF n
<1>5. PICK f : /\ f[0] = NothingRun(c)
               /\ \A k \in 1..n : f[k] = RunLevel(s, def, s.changed, F, f[k - 1], levels[k])
               /\ Pass(s, c, def, F) = f[n]
  BY <1>4, PassFacts DEF P, levels, n
<1> DEFINE S == {k \in Nat : k <= n => f[k].ran \subseteq P /\ f[k].failed \subseteq F}
<1>6. 0 \in S
  BY <1>5 DEF NothingRun
<1>7. ASSUME NEW k \in Nat, k \in S
      PROVE  k + 1 \in S
  <2>1. CASE k + 1 <= n
    <3>1. k + 1 \in 1..n /\ (k + 1) - 1 = k /\ k <= n
      BY <1>4, <2>1
    <3>2. f[k + 1] = RunLevel(s, def, s.changed, F, f[k], levels[k + 1]) /\ levels[k + 1] \subseteq P
      BY <1>4, <1>5, <3>1
    <3>3. f[k].ran \subseteq P /\ f[k].failed \subseteq F
      BY <1>7, <3>1
    <3>4. f[k + 1].ran \subseteq f[k].ran \cup levels[k + 1] /\ f[k + 1].failed \subseteq f[k].failed \cup F
      BY <3>2 DEF RunLevel
    <3> QED
      BY <3>2, <3>3, <3>4
  <2> QED
    BY <2>1
<1> HIDE DEF S
<1>8. \A k \in Nat : k \in S
  BY <1>6, <1>7, SetInduction
<1> QED
  BY <1>4, <1>5, <1>8 DEF S, P

-----------------------------------------------------------------------------
(* The graph under an engine.                                              *)

LEMMA MarkingIsGood ==
  ASSUME Good(ns), NEW C \in SUBSET Path, ns' = [ns EXCEPT !.changed = C]
  PROVE  Good(ns') /\ ns'.nodes = ns.nodes /\ ns'.slots = ns.slots
<1>1. Sound(ns') /\ ns'.nodes = ns.nodes /\ ns'.slots = ns.slots
  BY MarkingIsSound DEF Good
<1> QED
  BY <1>1, GoodElsewhere

(* The edits an engine makes are among those of NodeStates.                *)
LEMMA EditsAreOfTheGraph ==
  ASSUME Restructure \/ Rewire
  PROVE  Next
<1>1. CASE Restructure
  <2>1. ASSUME NEW p \in Churn, RemoveNodeAt(p)
        PROVE  Next
    BY <2>1, BoundsAssumption DEF Next, RemoveStep
  <2>2. ASSUME NEW g \in SubGraph, NEW d \in PortSides, NEW type \in Type,
               AddSubGraphPort(g, d, type, FALSE)
        PROVE  Next
    <3>1. d \in Side /\ FALSE \in BOOLEAN
      BY BoundsAssumption
    <3> QED
      BY <2>2, <3>1 DEF Next, AddPortStep
  <2>3. ASSUME NEW g \in SubGraph, NEW d \in PortSides, NEW i \in 1..MaxPorts,
               RemoveSubGraphPort(g, d, i)
        PROVE  Next
    <3>1. d \in Side
      BY BoundsAssumption
    <3> QED
      BY <2>3, <3>1 DEF Next, RemovePortStep
  <2>4. ASSUME NEW g \in SubGraph, NEW d \in PortSides, NEW i \in 1..MaxPorts, NEW type \in Type,
               InsertSubGraphPort(g, d, i, type, FALSE)
        PROVE  Next
    <3>1. d \in Side /\ FALSE \in BOOLEAN
      BY BoundsAssumption
    <3> QED
      BY <2>4, <3>1 DEF Next, AddPortStep
  <2> QED
    BY <1>1, <2>1, <2>2, <2>3, <2>4 DEF Restructure, Next
<1>2. CASE Rewire
  <2>1. ASSUME NEW e \in EdgeId, NEW w \in Wires[e], Connect(e, w[1], w[2], w[3], w[4])
        PROVE  Next
    <3>1. w[1] \in Path /\ w[3] \in Path
      BY BoundsAssumption
    <3>2. w[2] \in DOMAIN ns.slots["out"][w[1]] /\ w[4] \in DOMAIN ns.slots["in"][w[3]]
      BY <2>1 DEF Connect, HasSlot
    <3> QED
      BY <2>1, <3>1, <3>2 DEF Next, ConnectStep
  <2> QED
    BY <1>2, <2>1 DEF Rewire, Next
<1> QED
  BY <1>1, <1>2

(* Setting what a node holds marks nodes of the graph, and no more.        *)
LEMMA MirroredIsPaths ==
  ASSUME NEW p \in Path
  PROVE  Mirrored(p) \in SUBSET Path
<1>1. CASE p \in SubGraph \cap ns.nodes
  <2>1. Proxy[p]["in"] \in Path
    BY <1>1, PathAssumption DEF Side
  <2> QED
    BY <1>1, <2>1 DEF Mirrored
<1> QED
  BY <1>1 DEF Mirrored

LEMMA SettingMarks ==
  ASSUME Good(ns), SetStep
  PROVE  \E C \in SUBSET Path : ns' = [ns EXCEPT !.changed = C]
<1>1. ns.changed \in SUBSET Path
  BY DEF Good, Sound, States
<1>2. ASSUME NEW p \in Path, NEW d, UpdateNodeData(p, d)
      PROVE  \E C \in SUBSET Path : ns' = [ns EXCEPT !.changed = C]
  <2> DEFINE C == ns.changed \cup {p}
  <2>1. ns' = [ns EXCEPT !.changed = C] /\ C \in SUBSET Path
    BY <1>1, <1>2 DEF UpdateNodeData
  <2> HIDE DEF C
  <2> QED
    BY <2>1
<1>3. ASSUME NEW p \in Path, NEW i, NEW v, SetDefault(p, i, v)
      PROVE  \E C \in SUBSET Path : ns' = [ns EXCEPT !.changed = C]
  <2> DEFINE C == ns.changed \cup Mirrored(p)
  <2>1. ns' = [ns EXCEPT !.changed = C] /\ C \in SUBSET Path
    BY <1>1, <1>3, MirroredIsPaths DEF SetDefault
  <2> HIDE DEF C
  <2> QED
    BY <2>1
<1> QED
  BY <1>2, <1>3 DEF SetStep, UpdateNodeDataField, SetDefaultField, SetSubGraphInputDefault,
    ClearSubGraphInputDefault

(* Every step of an engine leaves the graph good.                          *)
LEMMA EngineStepIsGood ==
  ASSUME Good(ns), [EngineNext]_engine
  PROVE  Good(ns')
<1>1. CASE Restructure \/ Rewire
  BY <1>1, EditsAreOfTheGraph, GoodStep
<1>2. CASE SetStep
  BY <1>2, SettingMarks, MarkingIsGood
<1>3. CASE ExecuteStep
  <2>1. PICK F : Execute(F)
    BY <1>3 DEF ExecuteStep
  <2> DEFINE C == Pass(ns, cache, default, F).failed
  <2>2. ns' = [ns EXCEPT !.changed = C] /\ F \subseteq ns.nodes
    BY <2>1 DEF Execute
  <2>3. C \subseteq F
    BY PassStaysInPlan
  <2>4. C \in SUBSET Path
    BY <2>2, <2>3 DEF Good, Sound, States
  <2> HIDE DEF C
  <2> QED
    BY <2>2, <2>4, MarkingIsGood
<1>4. CASE UNCHANGED engine
  <2>1. ns' = ns
    BY <1>4 DEF engine
  <2> QED
    BY <2>1
<1> QED
  BY <1>1, <1>2, <1>3, <1>4 DEF EngineNext, EditStep

(* The sort is right in every pass of an engine, too.                      *)
THEOREM PlansStayRight == EngineSpec => [](Good(ns) /\ SortIsRight)
<1>1. EngineInit => Good(ns)
  BY GoodInit DEF EngineInit, IInv
<1>2. Good(ns) /\ [EngineNext]_engine => Good(ns)'
  <2> SUFFICES ASSUME Good(ns), [EngineNext]_engine
               PROVE  Good(ns')
    OBVIOUS
  <2> QED
    BY EngineStepIsGood
<1>3. Good(ns) => SortIsRight
  BY GoodSortIsRight
<1> QED
  BY <1>1, <1>2, <1>3, PTL DEF EngineSpec

-----------------------------------------------------------------------------
(* What is set.                                                            *)

LEMMA AssembledIsTyped ==
  ASSUME NEW t \in Type, Field[t] # {}, NEW v, NEW f, NEW x \in Number
  PROVE  Assembled(t, v, f, x) \in Value \cap Data
<1>1. OldFields(t, v) \in [Field[t] -> Number]
  BY EngineAssumption DEF OldFields
<1>2. Assembled(t, v, f, x) \in [Field[t] -> Number]
  BY <1>1 DEF Assembled
<1> QED
  BY <1>2, BoundsAssumption

LEMMA SettingKinds ==
  ASSUME ns \in States, SetStep
  PROVE  \/ \E p \in Path, d \in Data : UpdateNodeData(p, d)
         \/ \E p \in Path, i \in Nat, v \in Value \cup {None} :
              /\ SetDefault(p, i, v)
              /\ NoneSetAtProxies => \A g \in SubGraph : p # Proxy[g]["in"]
<1>1. PICK p \in Path :
        \/ \E d \in DataAt[p] : UpdateNodeData(p, d)
        \/ \E t \in Type, w \in FieldsAt[p] : UpdateNodeDataField(p, t, w[1], w[2])
        \/ \E i \in DOMAIN ns.slots["in"][p] :
             \/ \E v \in DefaultsAt[p] : SetDefault(p, i, v)
             \/ \E w \in FieldsAt[p] : SetDefaultField(p, i, w[1], w[2])
             \/ p \in SubGraph /\ \E v \in DefaultsAt[p] : SetSubGraphInputDefault(p, i, v)
             \/ p \in SubGraph /\ ClearSubGraphInputDefault(p, i)
  BY DEF SetStep
<1>2. DataAt[p] \subseteq Data /\ DefaultsAt[p] \subseteq Value \cup {None}
      /\ \A w \in FieldsAt[p] : w[2] \in Number
  BY BoundsAssumption
<1>3. CASE \E d \in DataAt[p] : UpdateNodeData(p, d)
  BY <1>2, <1>3
<1>4. CASE \E t \in Type, w \in FieldsAt[p] : UpdateNodeDataField(p, t, w[1], w[2])
  <2>1. PICK t \in Type, w \in FieldsAt[p] : UpdateNodeDataField(p, t, w[1], w[2])
    BY <1>4
  <2>2. Assembled(t, data[p], w[1], w[2]) \in Data
    BY <1>2, <2>1, AssembledIsTyped DEF UpdateNodeDataField
  <2> QED
    BY <2>1, <2>2 DEF UpdateNodeDataField
<1>5. ASSUME NEW i \in DOMAIN ns.slots["in"][p]
      PROVE  i \in Nat /\ ns.slots["in"][p][i].type \in Type
  <2>1. ns.slots["in"][p] \in Seq(Slot)
    BY DEF States, Side
  <2>2. i \in Nat /\ ns.slots["in"][p][i] \in Slot
    BY <1>5, <2>1
  <2> QED
    BY <2>2 DEF Slot
<1>6. CASE \E i \in DOMAIN ns.slots["in"][p] : \E v \in DefaultsAt[p] : SetDefault(p, i, v)
  <2>1. NoneSetAtProxies => \A g \in SubGraph : p # Proxy[g]["in"]
    BY <1>6 DEF NoneSetAtProxies
  <2> QED
    BY <1>2, <1>5, <1>6, <2>1
<1>7. CASE \E i \in DOMAIN ns.slots["in"][p] : \E w \in FieldsAt[p] : SetDefaultField(p, i, w[1], w[2])
  <2>1. PICK i \in DOMAIN ns.slots["in"][p], w \in FieldsAt[p] : SetDefaultField(p, i, w[1], w[2])
    BY <1>7
  <2> DEFINE slot == ns.slots["in"][p][i]
             v == Assembled(slot.type, default[slot.id], w[1], w[2])
  <2>2. SetDefault(p, i, v) /\ Field[slot.type] # {}
    BY <2>1 DEF SetDefaultField
  <2>3. v \in Value
    BY <1>2, <1>5, <2>2, AssembledIsTyped
  <2>4. NoneSetAtProxies => \A g \in SubGraph : p # Proxy[g]["in"]
    BY <1>7 DEF NoneSetAtProxies
  <2> HIDE DEF v
  <2> QED
    BY <1>5, <2>2, <2>3, <2>4
<1>8. CASE \E i \in DOMAIN ns.slots["in"][p] :
             \/ p \in SubGraph /\ \E v \in DefaultsAt[p] : SetSubGraphInputDefault(p, i, v)
             \/ p \in SubGraph /\ ClearSubGraphInputDefault(p, i)
  <2>1. \A g \in SubGraph : p # Proxy[g]["in"]
    BY <1>8, PathAssumption DEF Side
  <2> QED
    BY <1>2, <1>5, <1>8, <2>1 DEF SetSubGraphInputDefault, ClearSubGraphInputDefault
<1> QED
  BY <1>1, <1>3, <1>4, <1>6, <1>7, <1>8

-----------------------------------------------------------------------------
(* What an edit does to the slots that values are filed under.             *)

NodesGone(s, t, P) ==
  /\ t.nodes = s.nodes \ P
  /\ \A d \in Side : \A p \in Path : t.slots[d][p] = IF p \in P THEN <<>> ELSE s.slots[d][p]

LEMMA EditKinds ==
  ASSUME Good(ns), Restructure \/ Rewire
  PROVE  \/ SameTables(ns, ns')
         \/ \E p \in Path \ (SubGraph \cup ns.nodes) : ~ IsProxy(p) /\ NodeAdded(ns, ns', p)
         \/ \E g \in SubGraph : SubGraphAdded(ns, ns', g)
         \/ \E p \in Churn : Subtree(p) \in SUBSET Path /\ NodesGone(ns, ns', Subtree(p))
         \/ \E g \in SubGraph \cap ns.nodes, d \in Side : PortAppended(ns, ns', g, d)
         \/ \E g \in SubGraph \cap ns.nodes, d \in Side, i \in Nat : PortCut(ns, ns', g, d, i)
         \/ \E g \in SubGraph \cap ns.nodes, d \in Side, i \in Nat \ {0} : PortInserted(ns, ns', g, d, i)
<1>1. CASE CreateStep
  <2>1. ASSUME NEW p \in Path \ ns.nodes, CreateNode(p)
        PROVE  p \notin SubGraph /\ ~ IsProxy(p) /\ NodeAdded(ns, ns', p)
    <3>1. \A d \in Side : ns.slots[d][p] = <<>>
      BY <2>1 DEF CreateNode, IsProxy, Good, Vacant
    <3>2. NodeAdded(ns, ns', p)
      BY <2>1, <3>1, CreateNodeStep
    <3> QED
      BY <2>1, <3>2 DEF CreateNode, IsProxy
  <2> QED
    BY <1>1, <2>1, CreateSubGraphStep DEF CreateStep
<1>2. ASSUME NEW p \in Churn, RemoveNodeAt(p)
      PROVE  Subtree(p) \in SUBSET Path /\ NodesGone(ns, ns', Subtree(p))
  <2>1. Sound(ns) /\ ns \in States /\ p \in Path
    BY BoundsAssumption DEF Good, Sound
  <2>2. Subtree(p) \in SUBSET Path
    BY <2>1, SubtreeFacts DEF States
  <2>3. ns' = RemoveNodes(ns, Subtree(p))
    BY <1>2 DEF RemoveNodeAt
  <2> QED
    BY <2>1, <2>2, <2>3, RemoveNodesIsSound DEF NodesGone
<1>3. ASSUME NEW g \in SubGraph, NEW d \in PortSides, NEW type \in Type,
             AddSubGraphPort(g, d, type, FALSE)
      PROVE  g \in ns.nodes /\ d \in Side /\ PortAppended(ns, ns', g, d)
  <2>1. d \in Side /\ FALSE \in BOOLEAN
    BY BoundsAssumption
  <2>2. PortAppended(ns, ns', g, d)
    BY <1>3, <2>1, AddSubGraphPortStep
  <2> QED
    BY <1>3, <2>1, <2>2 DEF AddSubGraphPort, RootSubGraph
<1>4. ASSUME NEW g \in SubGraph, NEW d \in PortSides, NEW i \in 1..MaxPorts,
             RemoveSubGraphPort(g, d, i)
      PROVE  g \in ns.nodes /\ d \in Side /\ i \in Nat /\ PortCut(ns, ns', g, d, i)
  <2>1. d \in Side /\ i \in Nat
    BY BoundsAssumption
  <2>2. PortCut(ns, ns', g, d, i)
    BY <1>4, <2>1, RemoveSubGraphPortStep
  <2> QED
    BY <1>4, <2>1, <2>2 DEF RemoveSubGraphPort, RootSubGraph
<1>5. CASE Rewire
  <2>1. ASSUME NEW e \in EdgeId, NEW w \in Wires[e], Connect(e, w[1], w[2], w[3], w[4])
        PROVE  SameTables(ns, ns')
    <3>1. w[1] \in Path /\ w[3] \in Path
      BY BoundsAssumption
    <3> QED
      BY <2>1, <3>1, ConnectIsGood
  <2> QED
    BY <1>5, <2>1, DisconnectStepIsGood, ReorderStepIsGood DEF Rewire
<1>6. ASSUME NEW g \in SubGraph, NEW d \in PortSides, NEW i \in 1..MaxPorts, NEW type \in Type,
             InsertSubGraphPort(g, d, i, type, FALSE)
      PROVE  g \in ns.nodes /\ d \in Side /\ i \in Nat \ {0} /\ PortInserted(ns, ns', g, d, i)
  <2>1. d \in Side /\ FALSE \in BOOLEAN /\ i \in Nat \ {0}
    BY BoundsAssumption, SlotAssumption
  <2>2. PortInserted(ns, ns', g, d, i)
    BY <1>6, <2>1, InsertSubGraphPortStep
  <2> QED
    BY <1>6, <2>1, <2>2 DEF InsertSubGraphPort, RootSubGraph
<1>7. CASE Restructure
  BY <1>1, <1>2, <1>3, <1>4, <1>6, <1>7 DEF Restructure
<1> QED
  BY <1>5, <1>7

(* The input slot with the id i is there, on some node.                    *)
InputId(s, i) == \E p \in Path : i \in IdsOf(s.slots["in"][p])

LEMMA IdsTellSlots ==
  ASSUME NEW s, Sound(s), NEW d \in Side, NEW p \in Path, NEW k \in DOMAIN s.slots[d][p]
  PROVE  /\ s.slots[d][p][k].id \in SlotId
         /\ \A q \in Path : \A j \in DOMAIN s.slots[d][q] :
              s.slots[d][q][j].id = s.slots[d][p][k].id => q = p /\ j = k
<1>1. s.slots[d][p][k].id \in Ids[p] /\ s.owner[d][s.slots[d][p][k].id] = <<p, k>>
  BY DEF Sound, Owned
<1>2. \A q \in Path : \A j \in DOMAIN s.slots[d][q] : s.owner[d][s.slots[d][q][j].id] = <<q, j>>
  BY DEF Sound, Owned
<1>3. s.slots[d][p][k].id \in SlotId
  BY <1>1 DEF SlotId
<1>4. ASSUME NEW q \in Path, NEW j \in DOMAIN s.slots[d][q],
             s.slots[d][q][j].id = s.slots[d][p][k].id
      PROVE  q = p /\ j = k
  <2>1. <<q, j>> = <<p, k>>
    BY <1>1, <1>2, <1>4
  <2> QED
    BY <2>1
<1> QED
  BY <1>3, <1>4

LEMMA ForgetFacts ==
  ASSUME Forget, NEW i \in SlotId
  PROVE  /\ default'[i] = IF InputId(ns', i) THEN default[i] ELSE None
         /\ cache'[i] = IF \E p \in Path : i \in OutputIds(ns', p) THEN cache[i] ELSE None
<1>1. i \in UNION {IdsOf(ns'.slots["in"][p]) : p \in Path} <=> InputId(ns', i)
  BY DEF InputId
<1>2. i \in UNION {IdsOf(ns'.slots["out"][p]) : p \in Path}
        <=> \E p \in Path : i \in OutputIds(ns', p)
  BY DEF OutputIds
<1> DEFINE inputs == UNION {IdsOf(ns'.slots["in"][p]) : p \in Path}
           outputs == UNION {IdsOf(ns'.slots["out"][p]) : p \in Path}
<1>3. /\ default' = [j \in SlotId |-> IF j \in inputs THEN default[j] ELSE None]
      /\ cache' = [j \in SlotId |-> IF j \in outputs THEN cache[j] ELSE None]
  BY DEF Forget
<1>4. i \in inputs <=> InputId(ns', i)
  BY <1>1
<1>5. i \in outputs <=> \E p \in Path : i \in OutputIds(ns', p)
  BY <1>2
<1> HIDE DEF inputs, outputs
<1>6. default'[i] = IF i \in inputs THEN default[i] ELSE None
  BY <1>3
<1>7. cache'[i] = IF i \in outputs THEN cache[i] ELSE None
  BY <1>3
<1> QED
  BY <1>4, <1>5, <1>6, <1>7

-----------------------------------------------------------------------------
(* A SubGraph's defaults.                                                  *)

(* The k-th slot of a SubGraph has the id a, the one behind it the id b.   *)
PairedAt(s, g, k, a, b) ==
  /\ g \in s.nodes /\ Proxy[g]["in"] \in s.nodes /\ k \in DOMAIN s.slots["in"][g]
  /\ a = s.slots["in"][g][k].id /\ b = s.slots["in"][Proxy[g]["in"]][k].id

Paired(s, a, b) == \E g \in SubGraph : \E k \in Nat : PairedAt(s, g, k, a, b)

(* Two slots that are paired were so before, or are both new.              *)
PairsFollow(s, t) ==
  \A a, b : Paired(t, a, b) => Paired(s, a, b) \/ (~ InputId(s, a) /\ ~ InputId(s, b))

LEMMA InputTables ==
  ASSUME NEW s, Good(s), NEW g \in SubGraph
  PROVE  /\ g \in Path /\ Proxy[g]["in"] \in Path /\ g # Proxy[g]["in"]
         /\ s.slots["in"][g] \in Seq(Slot) /\ s.slots["in"][Proxy[g]["in"]] \in Seq(Slot)
         /\ g \in s.nodes /\ Proxy[g]["in"] \in s.nodes =>
              DOMAIN s.slots["in"][g] = DOMAIN s.slots["in"][Proxy[g]["in"]]
<1>1. g \in Path /\ Proxy[g]["in"] \in Path /\ g # Proxy[g]["in"] /\ "in" \in Side
  BY PathAssumption DEF Side
<1>2. s.slots["in"][g] \in Seq(Slot) /\ s.slots["in"][Proxy[g]["in"]] \in Seq(Slot)
  BY <1>1 DEF Good, Sound, States
<1>3. g \in s.nodes /\ Proxy[g]["in"] \in s.nodes =>
        DOMAIN s.slots["in"][g] = DOMAIN s.slots["in"][Proxy[g]["in"]]
  BY <1>1 DEF Good, SamePorts, Alike
<1> QED
  BY <1>1, <1>2, <1>3

LEMMA SamePairs ==
  ASSUME NEW s, NEW t, NEW g \in SubGraph, g \in s.nodes, Proxy[g]["in"] \in s.nodes,
         t.slots["in"][g] = s.slots["in"][g],
         t.slots["in"][Proxy[g]["in"]] = s.slots["in"][Proxy[g]["in"]],
         NEW k \in Nat, NEW a, NEW b, PairedAt(t, g, k, a, b)
  PROVE  Paired(s, a, b)
<1>1. PairedAt(s, g, k, a, b)
  BY DEF PairedAt
<1> QED
  BY <1>1 DEF Paired

(* The slot at the end of a longer table is new.                           *)
LEMMA LastIsNew ==
  ASSUME NEW s, NEW t, Sound(s), Sound(t), NEW p \in Path, NEW n, n = Len(s.slots["in"][p]),
         Appended(s.slots["in"][p], t.slots["in"][p])
  PROVE  /\ n \in Nat /\ DOMAIN s.slots["in"][p] = 1..n /\ DOMAIN t.slots["in"][p] = 1..(n + 1)
         /\ \A k \in 1..n : t.slots["in"][p][k] = s.slots["in"][p][k]
         /\ ~ InputId(s, t.slots["in"][p][n + 1].id)
<1> DEFINE q == s.slots["in"][p]
           r == t.slots["in"][p]
<1>1. "in" \in Side /\ q \in Seq(Slot)
  BY DEF Sound, States, Side
<1>2. PICK x \in Slot : r = InsertAt(q, n + 1, x)
  BY DEF Appended
<1>3. n = Len(q)
  OBVIOUS
<1> HIDE DEF q, r
<1>4. n \in Nat /\ DOMAIN q = 1..n /\ n + 1 \in 1..(Len(q) + 1)
  BY <1>1, <1>3
<1>5. DOMAIN r = 1..(n + 1) /\ InsertedInto(r, q, n + 1, x)
  <2>1. /\ DOMAIN InsertAt(q, n + 1, x) = 1..(Len(q) + 1)
        /\ InsertedInto(InsertAt(q, n + 1, x), q, n + 1, x)
    BY <1>1, <1>4, InsertAtIsInsertion
  <2> QED
    BY <1>2, <1>3, <2>1
<1>6. \A k \in 1..n : r[k] = q[k]
  <2>1. \A k \in 1..n : k \in 1..(Len(q) + 1) /\ k < n + 1
    BY <1>3, <1>4
  <2> QED
    BY <1>5, <2>1 DEF InsertedInto
<1>7. n + 1 \in DOMAIN r
  BY <1>4, <1>5
<1>8. ASSUME InputId(s, r[n + 1].id)
      PROVE  FALSE
  <2>1. PICK a \in Path : r[n + 1].id \in IdsOf(s.slots["in"][a])
    BY <1>8 DEF InputId
  <2>2. PICK j \in DOMAIN s.slots["in"][a] : s.slots["in"][a][j].id = r[n + 1].id
    BY <2>1 DEF IdsOf
  <2>3. r[n + 1].id \in Ids[a]
    BY <1>1, <2>2 DEF Sound, Owned
  <2>4. r[n + 1].id \in Ids[p]
    BY <1>1, <1>7 DEF Sound, Owned, r
  <2>5. a = p
    BY <2>3, <2>4, SlotAssumption
  <2>6. j \in 1..n /\ q[j].id = r[n + 1].id
    BY <1>4, <2>2, <2>5 DEF q
  <2>7. r[j].id = r[n + 1].id /\ j \in DOMAIN r
    BY <1>4, <1>5, <1>6, <2>6
  <2>8. j = n + 1
    BY <1>1, <1>7, <2>7, IdsTellSlots DEF r
  <2> QED
    BY <1>4, <2>6, <2>8
<1> QED
  BY <1>4, <1>5, <1>6, <1>8 DEF q, r

LEMMA AppendedPairs ==
  ASSUME NEW s, NEW t, Good(s), Good(t), NEW g \in SubGraph, g \in s.nodes, NEW d \in Side,
         PortAppended(s, t, g, d)
  PROVE  PairsFollow(s, t)
<1> SUFFICES ASSUME NEW h \in SubGraph, NEW k \in Nat, NEW a, NEW b, PairedAt(t, h, k, a, b)
             PROVE  Paired(s, a, b) \/ (~ InputId(s, a) /\ ~ InputId(s, b))
  BY DEF PairsFollow, Paired
<1> DEFINE p == Proxy[h]["in"]
<1>1. /\ h \in Path /\ p \in Path /\ h # p /\ "in" \in Side
      /\ s.slots["in"][h] \in Seq(Slot) /\ s.slots["in"][p] \in Seq(Slot)
  BY InputTables DEF Side
<1>2. h \in s.nodes /\ p \in s.nodes
  BY DEF PairedAt, PortAppended, ElsewhereKept
<1>3. DOMAIN s.slots["in"][h] = DOMAIN s.slots["in"][p]
  BY <1>2, InputTables
<1>4. CASE h = g /\ d = "in"
  <2> DEFINE n == Len(s.slots["in"][h])
  <2>1. n = Len(s.slots["in"][p]) /\ n = Len(s.slots["in"][h])
    BY <1>1, <1>3
  <2> HIDE DEF n
  <2>2. Appended(s.slots["in"][h], t.slots["in"][h]) /\ Appended(s.slots["in"][p], t.slots["in"][p])
    BY <1>1, <1>4 DEF PortAppended
  <2>3. /\ n \in Nat /\ DOMAIN s.slots["in"][h] = 1..n /\ DOMAIN t.slots["in"][h] = 1..(n + 1)
        /\ \A j \in 1..n : t.slots["in"][h][j] = s.slots["in"][h][j]
        /\ ~ InputId(s, t.slots["in"][h][n + 1].id)
    BY <1>1, <2>1, <2>2, LastIsNew DEF Good
  <2>4. /\ n \in Nat /\ DOMAIN s.slots["in"][p] = 1..n /\ DOMAIN t.slots["in"][p] = 1..(n + 1)
        /\ \A j \in 1..n : t.slots["in"][p][j] = s.slots["in"][p][j]
        /\ ~ InputId(s, t.slots["in"][p][n + 1].id)
    BY <1>1, <2>1, <2>2, LastIsNew DEF Good
  <2>5. k \in 1..n \/ k = n + 1
    BY <2>3 DEF PairedAt
  <2>6. CASE k \in 1..n
    <3>1. PairedAt(s, h, k, a, b)
      BY <1>2, <2>3, <2>4, <2>6 DEF PairedAt
    <3> QED
      BY <3>1 DEF Paired
  <2>7. CASE k = n + 1
    BY <2>3, <2>4, <2>7 DEF PairedAt
  <2> QED
    BY <2>5, <2>6, <2>7
<1>5. CASE h # g \/ d # "in"
  <2>1. h # Proxy[g][d] /\ p # g
    BY PathAssumption DEF Side
  <2>2. p # Proxy[g][d]
    BY <1>1, <1>5, ProxiesDiffer
  <2>3. t.slots["in"][h] = s.slots["in"][h] /\ t.slots["in"][p] = s.slots["in"][p]
    BY <1>1, <1>5, <2>1, <2>2 DEF PortAppended, ElsewhereKept
  <2> QED
    BY <1>2, <2>3, SamePairs
<1> QED
  BY <1>4, <1>5

(* The slot put into a table of n, at m, is new; the others are those that *)
(* were there.                                                             *)
NewAt(s, t, p, n, m) ==
  /\ n \in Nat /\ m \in 1..(n + 1)
  /\ DOMAIN s.slots["in"][p] = 1..n /\ DOMAIN t.slots["in"][p] = 1..(n + 1)
  /\ \A k \in 1..(n + 1) :
       k # m => t.slots["in"][p][k] = s.slots["in"][p][IF k < m THEN k ELSE k - 1]
  /\ ~ InputId(s, t.slots["in"][p][m].id)

(* Inserting into a table of input slots, as PutInto says, is that.        *)
LEMMA PutIsNew ==
  ASSUME NEW s, NEW t, Sound(s), Sound(t), NEW p \in Path, NEW i \in Nat \ {0},
         NEW n, n = Len(s.slots["in"][p]), NEW m, m = IF i <= n THEN i ELSE n + 1,
         PutInto(s.slots["in"][p], t.slots["in"][p], i)
  PROVE  NewAt(s, t, p, n, m)
<1> DEFINE q == s.slots["in"][p]
           r == t.slots["in"][p]
<1>1. "in" \in Side /\ q \in Seq(Slot)
  BY DEF Sound, States, Side
<1>2. PICK x \in Slot : r = InsertAt(q, m, x)
  BY DEF PutInto, InsertedAt
<1>3. n = Len(q)
  OBVIOUS
<1> HIDE DEF q, r
<1>4. n \in Nat /\ DOMAIN q = 1..n /\ m \in 1..(n + 1) /\ m \in 1..(Len(q) + 1)
  BY <1>1, <1>3
<1>5. DOMAIN r = 1..(n + 1) /\ \A k \in 1..(n + 1) : r[k] = IF k < m THEN q[k] ELSE IF k = m THEN x ELSE q[k - 1]
  <2>1. /\ DOMAIN InsertAt(q, m, x) = 1..(Len(q) + 1)
        /\ InsertedInto(InsertAt(q, m, x), q, m, x)
    BY <1>1, <1>4, InsertAtIsInsertion
  <2> QED
    BY <1>2, <1>3, <2>1 DEF InsertedInto
<1>6. \A k \in 1..(n + 1) : k # m => r[k] = q[IF k < m THEN k ELSE k - 1]
  BY <1>4, <1>5
<1>7. ASSUME InputId(s, r[m].id)
      PROVE  FALSE
  <2>1. PICK a \in Path : r[m].id \in IdsOf(s.slots["in"][a])
    BY <1>7 DEF InputId
  <2>2. PICK j \in DOMAIN s.slots["in"][a] : s.slots["in"][a][j].id = r[m].id
    BY <2>1 DEF IdsOf
  <2>3. r[m].id \in Ids[a]
    BY <1>1, <2>2 DEF Sound, Owned
  <2>4. m \in DOMAIN r /\ r[m].id \in Ids[p]
    BY <1>1, <1>4, <1>5 DEF Sound, Owned, r
  <2>5. a = p
    BY <2>3, <2>4, SlotAssumption
  <2>6. j \in 1..n /\ q[j].id = r[m].id
    BY <1>4, <2>2, <2>5 DEF q
  <2> DEFINE k == IF j < m THEN j ELSE j + 1
  <2>7. k \in 1..(n + 1) /\ k # m /\ (IF k < m THEN k ELSE k - 1) = j
    BY <1>4, <2>6
  <2> HIDE DEF k
  <2>8. k \in DOMAIN r /\ r[k].id = r[m].id
    BY <1>5, <1>6, <2>6, <2>7
  <2>9. k = m
    BY <1>1, <2>4, <2>8, IdsTellSlots DEF r
  <2> QED
    BY <2>7, <2>9
<1> QED
  BY <1>4, <1>5, <1>6, <1>7 DEF q, r, NewAt

LEMMA InsertedPairs ==
  ASSUME NEW s, NEW t, Good(s), Good(t), NEW g \in SubGraph, g \in s.nodes, NEW d \in Side,
         NEW i \in Nat \ {0}, PortInserted(s, t, g, d, i)
  PROVE  PairsFollow(s, t)
<1> SUFFICES ASSUME NEW h \in SubGraph, NEW k \in Nat, NEW a, NEW b, PairedAt(t, h, k, a, b)
             PROVE  Paired(s, a, b) \/ (~ InputId(s, a) /\ ~ InputId(s, b))
  BY DEF PairsFollow, Paired
<1> DEFINE p == Proxy[h]["in"]
<1>1. /\ h \in Path /\ p \in Path /\ h # p /\ "in" \in Side
      /\ s.slots["in"][h] \in Seq(Slot) /\ s.slots["in"][p] \in Seq(Slot)
  BY InputTables DEF Side
<1>2. h \in s.nodes /\ p \in s.nodes
  BY DEF PairedAt, PortInserted, ElsewhereKept
<1>3. DOMAIN s.slots["in"][h] = DOMAIN s.slots["in"][p]
  BY <1>2, InputTables
<1>4. CASE h = g /\ d = "in"
  <2> DEFINE n == Len(s.slots["in"][h])
             m == IF i <= n THEN i ELSE n + 1
  <2>1. n = Len(s.slots["in"][p]) /\ n = Len(s.slots["in"][h]) /\ m = IF i <= n THEN i ELSE n + 1
    BY <1>1, <1>3
  <2> HIDE DEF n, m
  <2>2. PutInto(s.slots["in"][h], t.slots["in"][h], i) /\ PutInto(s.slots["in"][p], t.slots["in"][p], i)
    BY <1>1, <1>4 DEF PortInserted
  <2> Sound(s) /\ Sound(t)
    BY DEF Good
  <2>3. NewAt(s, t, h, n, m)
    BY <1>1, <2>1, <2>2, PutIsNew
  <2>4. NewAt(s, t, p, n, m)
    BY <1>1, <2>1, <2>2, PutIsNew
  <2>5. k \in 1..(n + 1) /\ a = t.slots["in"][h][k].id /\ b = t.slots["in"][p][k].id
    BY <2>3 DEF NewAt, PairedAt
  <2>6. CASE k # m
    <3> DEFINE j == IF k < m THEN k ELSE k - 1
    <3>1. j \in 1..n /\ j \in Nat
      BY <2>3, <2>5, <2>6 DEF NewAt
    <3>2. t.slots["in"][h][k] = s.slots["in"][h][j] /\ t.slots["in"][p][k] = s.slots["in"][p][j]
      BY <2>3, <2>4, <2>5, <2>6 DEF NewAt
    <3> HIDE DEF j
    <3>3. PairedAt(s, h, j, a, b)
      BY <1>2, <2>3, <2>5, <3>1, <3>2 DEF NewAt, PairedAt
    <3> QED
      BY <3>1, <3>3 DEF Paired
  <2>7. CASE k = m
    BY <2>3, <2>4, <2>5, <2>7 DEF NewAt
  <2> QED
    BY <2>6, <2>7
<1>5. CASE h # g \/ d # "in"
  <2>1. h # Proxy[g][d] /\ p # g
    BY PathAssumption DEF Side
  <2>2. p # Proxy[g][d]
    BY <1>1, <1>5, ProxiesDiffer
  <2>3. t.slots["in"][h] = s.slots["in"][h] /\ t.slots["in"][p] = s.slots["in"][p]
    BY <1>1, <1>5, <2>1, <2>2 DEF PortInserted, ElsewhereKept
  <2> QED
    BY <1>2, <2>3, SamePairs
<1> QED
  BY <1>4, <1>5

LEMMA CutPairs ==
  ASSUME NEW s, NEW t, Good(s), Good(t), NEW g \in SubGraph, g \in s.nodes, NEW d \in Side,
         NEW i \in Nat, PortCut(s, t, g, d, i)
  PROVE  PairsFollow(s, t)
<1> SUFFICES ASSUME NEW h \in SubGraph, NEW k \in Nat, NEW a, NEW b, PairedAt(t, h, k, a, b)
             PROVE  Paired(s, a, b)
  BY DEF PairsFollow, Paired
<1> DEFINE p == Proxy[h]["in"]
<1>1. /\ h \in Path /\ p \in Path /\ h # p /\ "in" \in Side
      /\ s.slots["in"][h] \in Seq(Slot) /\ s.slots["in"][p] \in Seq(Slot)
  BY InputTables DEF Side
<1>2. h \in s.nodes /\ p \in s.nodes
  BY DEF PairedAt, PortCut, ElsewhereKept
<1>3. DOMAIN s.slots["in"][h] = DOMAIN s.slots["in"][p]
  BY <1>2, InputTables
<1>4. CASE h = g /\ d = "in" /\ i \in DOMAIN s.slots["in"][h]
  <2> DEFINE q == s.slots["in"][h]
             r == s.slots["in"][p]
             n == Len(q)
  <2>1. n \in Nat /\ DOMAIN q = 1..n /\ Len(r) = n /\ i \in 1..Len(q) /\ i \in 1..Len(r)
    BY <1>1, <1>3, <1>4
  <2>2. t.slots["in"][h] = RemoveAt(q, i) /\ t.slots["in"][p] = RemoveAt(r, i)
    BY <1>1, <1>3, <1>4 DEF PortCut, Cut
  <2>3. q \in Seq(Slot) /\ r \in Seq(Slot)
    BY <1>1
  <2> HIDE DEF q, r, n
  <2>4. /\ DOMAIN RemoveAt(q, i) = 1..(n - 1)
        /\ \A j \in 1..(n - 1) : RemoveAt(q, i)[j] = IF j < i THEN q[j] ELSE q[j + 1]
    BY <2>1, <2>3, RemoveAtFacts DEF n
  <2>5. \A j \in 1..(n - 1) : RemoveAt(r, i)[j] = IF j < i THEN r[j] ELSE r[j + 1]
    BY <2>1, <2>3, RemoveAtFacts
  <2>6. /\ k \in 1..(n - 1) /\ a = RemoveAt(q, i)[k].id /\ b = RemoveAt(r, i)[k].id
    BY <2>2, <2>4 DEF PairedAt
  <2>7. \E j \in 1..n : a = q[j].id /\ b = r[j].id
    <3>1. CASE k < i
      BY <2>1, <2>4, <2>5, <2>6, <3>1
    <3>2. CASE ~ (k < i)
      <4>1. k + 1 \in 1..n
        BY <2>1, <2>6
      <4> QED
        BY <2>4, <2>5, <2>6, <3>2, <4>1
    <3> QED
      BY <3>1, <3>2
  <2>8. PICK j \in 1..n : a = q[j].id /\ b = r[j].id
    BY <2>7
  <2>9. PairedAt(s, h, j, a, b) /\ j \in Nat
    BY <1>2, <2>1, <2>8 DEF PairedAt, q, r
  <2> QED
    BY <2>9 DEF Paired
<1>5. CASE ~ (h = g /\ d = "in" /\ i \in DOMAIN s.slots["in"][h])
  <2>1. CASE h = g /\ d = "in"
    <3>1. t.slots["in"][h] = s.slots["in"][h] /\ t.slots["in"][p] = s.slots["in"][p]
      BY <1>1, <1>3, <1>5, <2>1 DEF PortCut, Cut
    <3> QED
      BY <1>2, <3>1, SamePairs
  <2>2. CASE h # g \/ d # "in"
    <3>1. h # Proxy[g][d] /\ p # g
      BY PathAssumption DEF Side
    <3>2. p # Proxy[g][d]
      BY <1>1, <2>2, ProxiesDiffer
    <3>3. t.slots["in"][h] = s.slots["in"][h] /\ t.slots["in"][p] = s.slots["in"][p]
      BY <1>1, <2>2, <3>1, <3>2 DEF PortCut, ElsewhereKept
    <3> QED
      BY <1>2, <3>3, SamePairs
  <2> QED
    BY <2>1, <2>2
<1> QED
  BY <1>4, <1>5

(* Every edit of an engine's graph keeps pairs together.                   *)
LEMMA EditsKeepPairs ==
  ASSUME Good(ns), Restructure \/ Rewire
  PROVE  PairsFollow(ns, ns')
<1>1. Good(ns')
  BY EditsAreOfTheGraph, GoodStep
<1>2. \A g \in SubGraph : g \in Path /\ Proxy[g]["in"] \in Path /\ "in" \in Side
  BY InputTables DEF Side
<1>3. CASE SameTables(ns, ns')
  BY <1>3 DEF SameTables, PairsFollow, Paired, PairedAt
<1>4. ASSUME NEW p \in Path \ (SubGraph \cup ns.nodes), ~ IsProxy(p), NodeAdded(ns, ns', p)
      PROVE  PairsFollow(ns, ns')
  <2> SUFFICES ASSUME NEW h \in SubGraph, NEW k \in Nat, NEW a, NEW b, PairedAt(ns', h, k, a, b)
               PROVE  Paired(ns, a, b)
    BY DEF PairsFollow, Paired
  <2>1. h # p /\ Proxy[h]["in"] # p
    BY <1>2, <1>4 DEF IsProxy
  <2>2. h \in ns.nodes /\ Proxy[h]["in"] \in ns.nodes
    BY <1>4, <2>1 DEF PairedAt, NodeAdded
  <2>3. /\ ns'.slots["in"][h] = ns.slots["in"][h]
        /\ ns'.slots["in"][Proxy[h]["in"]] = ns.slots["in"][Proxy[h]["in"]]
    BY <1>2, <1>4, <2>1 DEF NodeAdded
  <2> QED
    BY <2>2, <2>3, SamePairs
<1>5. ASSUME NEW g \in SubGraph, SubGraphAdded(ns, ns', g)
      PROVE  PairsFollow(ns, ns')
  <2> SUFFICES ASSUME NEW h \in SubGraph, NEW k \in Nat, NEW a, NEW b, PairedAt(ns', h, k, a, b)
               PROVE  Paired(ns, a, b)
    BY DEF PairsFollow, Paired
  <2>1. /\ ns'.slots["in"][h] = ns.slots["in"][h]
        /\ ns'.slots["in"][Proxy[h]["in"]] = ns.slots["in"][Proxy[h]["in"]]
    BY <1>2, <1>5 DEF SubGraphAdded
  <2>2. h # g
    <3>1. ns.slots["in"][g] = <<>>
      BY <1>2, <1>5 DEF SubGraphAdded
    <3> QED
      BY <2>1, <3>1 DEF PairedAt
  <2>3. h \in ns.nodes /\ Proxy[h]["in"] \in ns.nodes
    <3>1. \A d \in Side : h # Proxy[g][d] /\ Proxy[h]["in"] # g /\ Proxy[h]["in"] # Proxy[g][d]
      BY <1>2, <2>2, ProxiesDiffer, PathAssumption
    <3> QED
      BY <1>5, <2>2, <3>1 DEF PairedAt, SubGraphAdded, Side
  <2> QED
    BY <2>1, <2>3, SamePairs
<1>6. ASSUME NEW P \in SUBSET Path, NodesGone(ns, ns', P)
      PROVE  PairsFollow(ns, ns')
  <2> SUFFICES ASSUME NEW h \in SubGraph, NEW k \in Nat, NEW a, NEW b, PairedAt(ns', h, k, a, b)
               PROVE  Paired(ns, a, b)
    BY DEF PairsFollow, Paired
  <2>1. h \in ns.nodes \ P /\ Proxy[h]["in"] \in ns.nodes \ P
    BY <1>6 DEF PairedAt, NodesGone
  <2>2. /\ ns'.slots["in"][h] = ns.slots["in"][h]
        /\ ns'.slots["in"][Proxy[h]["in"]] = ns.slots["in"][Proxy[h]["in"]]
    BY <1>2, <1>6, <2>1 DEF NodesGone
  <2> QED
    BY <2>1, <2>2, SamePairs
<1> QED
  BY <1>1, <1>3, <1>4, <1>5, <1>6, EditKinds, AppendedPairs, CutPairs, InsertedPairs

(* A pair has ids of slots that are there.                                 *)
LEMMA PairsAreInputs ==
  ASSUME NEW s, Good(s), NEW a, NEW b, Paired(s, a, b)
  PROVE  a \in SlotId /\ b \in SlotId /\ InputId(s, a) /\ InputId(s, b)
<1>1. PICK g \in SubGraph, k \in Nat : PairedAt(s, g, k, a, b)
  BY DEF Paired
<1> DEFINE p == Proxy[g]["in"]
<1>2. g \in Path /\ p \in Path /\ "in" \in Side /\ Sound(s)
  BY InputTables DEF Good, Side
<1>3. k \in DOMAIN s.slots["in"][g] /\ k \in DOMAIN s.slots["in"][p]
  BY <1>1, InputTables DEF PairedAt
<1>4. a = s.slots["in"][g][k].id /\ b = s.slots["in"][p][k].id
  BY <1>1 DEF PairedAt
<1> HIDE DEF p
<1>5. a \in SlotId /\ b \in SlotId
  BY <1>2, <1>3, <1>4, IdsTellSlots
<1>6. InputId(s, a) /\ InputId(s, b)
  BY <1>2, <1>3, <1>4 DEF InputId, IdsOf
<1> QED
  BY <1>5, <1>6

(* A default is filed under a slot that is there, and pairs have the same. *)
MirrorInv ==
  /\ Good(ns)
  /\ \A i \in SlotId : default[i] # None => InputId(ns, i)
  /\ \A a, b : Paired(ns, a, b) => default[a] = default[b]

LEMMA EditsKeepMirrors ==
  ASSUME MirrorInv, Restructure \/ Rewire
  PROVE  MirrorInv'
<1>1. Good(ns) /\ Good(ns') /\ Forget
  BY EditsAreOfTheGraph, GoodStep DEF MirrorInv, Restructure, Rewire
<1>2. \A i \in SlotId : default'[i] = IF InputId(ns', i) THEN default[i] ELSE None
  BY <1>1, ForgetFacts
<1>3. ASSUME NEW a, NEW b, Paired(ns', a, b)
      PROVE  default'[a] = default'[b]
  <2>1. a \in SlotId /\ b \in SlotId /\ InputId(ns', a) /\ InputId(ns', b)
    BY <1>1, <1>3, PairsAreInputs
  <2>2. default'[a] = default[a] /\ default'[b] = default[b]
    BY <1>2, <2>1
  <2>3. CASE Paired(ns, a, b)
    BY <2>2, <2>3 DEF MirrorInv
  <2>4. CASE ~ InputId(ns, a) /\ ~ InputId(ns, b)
    BY <2>1, <2>2, <2>4 DEF MirrorInv
  <2> QED
    BY <1>1, <1>3, <2>3, <2>4, EditsKeepPairs DEF PairsFollow
<1>4. /\ (\A i \in SlotId : default[i] # None => InputId(ns, i))'
      /\ (\A a, b : Paired(ns, a, b) => default[a] = default[b])'
  BY <1>2, <1>3 DEF Paired, PairedAt, InputId
<1> QED
  BY <1>1, <1>4 DEF MirrorInv

LEMMA SettingKeepsMirrors ==
  ASSUME MirrorInv, NEW p \in Path, NEW i, NEW v, SetDefault(p, i, v),
         \A g \in SubGraph : p # Proxy[g]["in"]
  PROVE  MirrorInv'
<1> DEFINE set(j) == \E q \in Mirrored(p) : ns.slots["in"][q][i].id = j
<1>1. /\ \A q \in Mirrored(p) : q \in Path /\ i \in DOMAIN ns.slots["in"][q]
      /\ default' = [j \in SlotId |-> IF set(j) THEN v ELSE default[j]]
      /\ Good(ns) /\ Sound(ns)
  BY MirroredIsPaths DEF SetDefault, HasSlot, MirrorInv, Good
<1>2. Good(ns') /\ ns'.nodes = ns.nodes /\ ns'.slots = ns.slots
  <2> DEFINE C == ns.changed \cup Mirrored(p)
  <2>1. ns' = [ns EXCEPT !.changed = C] /\ C \in SUBSET Path
    BY <1>1, MirroredIsPaths DEF SetDefault, Good, Sound, States
  <2> HIDE DEF C
  <2> QED
    BY <1>1, <2>1, MarkingIsGood
<1>3. ASSUME NEW q \in Path, NEW k \in DOMAIN ns.slots["in"][q]
      PROVE  set(ns.slots["in"][q][k].id) <=> q \in Mirrored(p) /\ k = i
  <2>1. "in" \in Side
    BY DEF Side
  <2>2. ASSUME NEW r \in Mirrored(p)
        PROVE  ns.slots["in"][r][i].id = ns.slots["in"][q][k].id => r = q /\ i = k
    BY <1>1, <1>3, <2>1, <2>2, IdsTellSlots
  <2> QED
    BY <2>2
<1> HIDE DEF set
<1>4. ASSUME NEW a, NEW b, Paired(ns, a, b)
      PROVE  default'[a] = default'[b]
  <2>1. PICK g \in SubGraph, k \in Nat : PairedAt(ns, g, k, a, b)
    BY <1>4 DEF Paired
  <2> DEFINE r == Proxy[g]["in"]
  <2>2. /\ g \in Path /\ r \in Path /\ g \in ns.nodes /\ r \in ns.nodes
        /\ k \in DOMAIN ns.slots["in"][g] /\ k \in DOMAIN ns.slots["in"][r]
        /\ a = ns.slots["in"][g][k].id /\ b = ns.slots["in"][r][k].id
    BY <1>1, <2>1, InputTables DEF PairedAt
  <2>3. a \in SlotId /\ b \in SlotId /\ default[a] = default[b]
    BY <1>1, <1>4, PairsAreInputs DEF MirrorInv
  <2>4. g \in Mirrored(p) <=> p = g
    <3>1. p \in SubGraph => g # Proxy[p]["in"]
      BY PathAssumption DEF Side
    <3> QED
      BY <3>1 DEF Mirrored
  <2>5. r \in Mirrored(p) <=> p = g
    <3>1. p \in SubGraph /\ p # g => r # Proxy[p]["in"]
      BY ProxiesDiffer DEF Side
    <3> QED
      BY <2>2, <3>1 DEF Mirrored
  <2>6. set(a) <=> set(b)
    BY <1>3, <2>2, <2>4, <2>5
  <2> QED
    BY <1>1, <2>3, <2>6
<1>5. ASSUME NEW j \in SlotId, default'[j] # None
      PROVE  InputId(ns, j)
  <2>1. CASE set(j)
    BY <1>1, <2>1 DEF set, InputId, IdsOf
  <2>2. CASE ~ set(j)
    BY <1>1, <1>5, <2>2 DEF MirrorInv
  <2> QED
    BY <2>1, <2>2
<1>6. /\ (\A j \in SlotId : default[j] # None => InputId(ns, j))'
      /\ (\A a, b : Paired(ns, a, b) => default[a] = default[b])'
  BY <1>2, <1>4, <1>5 DEF Paired, PairedAt, InputId
<1> QED
  BY <1>2, <1>6 DEF MirrorInv

(* A pass and a write of data leave the defaults and the slots alone.      *)
LEMMA MarkingKeepsMirrors ==
  ASSUME MirrorInv, NEW C \in SUBSET Path, ns' = [ns EXCEPT !.changed = C], default' = default
  PROVE  MirrorInv'
<1>1. Good(ns') /\ ns'.nodes = ns.nodes /\ ns'.slots = ns.slots
  BY MarkingIsGood DEF MirrorInv
<1>2. /\ (\A j \in SlotId : default[j] # None => InputId(ns, j))'
      /\ (\A a, b : Paired(ns, a, b) => default[a] = default[b])'
  BY <1>1 DEF MirrorInv, Paired, PairedAt, InputId
<1> QED
  BY <1>1, <1>2 DEF MirrorInv

LEMMA MirrorStep ==
  ASSUME NoneSetAtProxies, MirrorInv, [EngineNext]_engine
  PROVE  MirrorInv'
<1>1. CASE Restructure \/ Rewire
  BY <1>1, EditsKeepMirrors
<1>2. CASE SetStep
  <2>1. CASE \E p \in Path, d \in Data : UpdateNodeData(p, d)
    <3>1. PICK p \in Path, d \in Data : UpdateNodeData(p, d)
      BY <2>1
    <3> DEFINE C == ns.changed \cup {p}
    <3>2. ns' = [ns EXCEPT !.changed = C] /\ C \in SUBSET Path /\ default' = default
      BY <3>1 DEF UpdateNodeData, MirrorInv, Good, Sound, States
    <3> HIDE DEF C
    <3> QED
      BY <3>2, MarkingKeepsMirrors
  <2>2. CASE \E p \in Path, i \in Nat, v \in Value \cup {None} :
               SetDefault(p, i, v) /\ \A g \in SubGraph : p # Proxy[g]["in"]
    BY <2>2, SettingKeepsMirrors
  <2> QED
    BY <1>2, <2>1, <2>2, SettingKinds DEF MirrorInv, Good, Sound
<1>3. CASE ExecuteStep
  <2>1. PICK F : Execute(F)
    BY <1>3 DEF ExecuteStep
  <2> DEFINE C == Pass(ns, cache, default, F).failed
  <2>2. ns' = [ns EXCEPT !.changed = C] /\ F \subseteq ns.nodes /\ default' = default
    BY <2>1 DEF Execute
  <2>3. C \subseteq F
    BY PassStaysInPlan DEF MirrorInv
  <2>4. C \in SUBSET Path
    BY <2>2, <2>3 DEF MirrorInv, Good, Sound, States
  <2> HIDE DEF C
  <2> QED
    BY <2>2, <2>4, MarkingKeepsMirrors
<1>4. CASE UNCHANGED engine
  <2>1. ns' = ns /\ default' = default
    BY <1>4 DEF engine
  <2>2. /\ (\A j \in SlotId : default[j] # None => InputId(ns, j))'
        /\ (\A a, b : Paired(ns, a, b) => default[a] = default[b])'
    BY <2>1 DEF MirrorInv
  <2> QED
    BY <2>1, <2>2 DEF MirrorInv
<1> QED
  BY <1>1, <1>2, <1>3, <1>4 DEF EngineNext, EditStep

(* The default that a SubGraph shows on an input is the one its inside     *)
(* reads from the InputProxy, whatever ports come, go and shift between    *)
(* two writes; unless one is set at the InputProxy itself.                 *)
THEOREM DefaultsStayMirrored ==
  ASSUME NoneSetAtProxies
  PROVE  EngineSpec => []DefaultsAreMirrored
<1>1. EngineInit => MirrorInv
  <2> SUFFICES ASSUME EngineInit
               PROVE  MirrorInv
    OBVIOUS
  <2>1. Good(ns) /\ ns.nodes = {} /\ default = [i \in SlotId |-> None]
    BY GoodInit DEF EngineInit, Init, IInv
  <2>2. \A a, b : ~ Paired(ns, a, b)
    BY <2>1 DEF Paired, PairedAt
  <2> QED
    BY <2>1, <2>2 DEF MirrorInv
<1>2. MirrorInv /\ [EngineNext]_engine => MirrorInv'
  BY MirrorStep
<1>3. MirrorInv => DefaultsAreMirrored
  <2> SUFFICES ASSUME MirrorInv, NEW g \in SubGraph \cap ns.nodes,
                      NEW k \in DOMAIN ns.slots["in"][g], Proxy[g]["in"] \in ns.nodes
               PROVE  default[ns.slots["in"][g][k].id] =
                        default[ns.slots["in"][Proxy[g]["in"]][k].id]
    BY DEF DefaultsAreMirrored
  <2>1. k \in Nat
    BY InputTables DEF MirrorInv
  <2>2. PairedAt(ns, g, k, ns.slots["in"][g][k].id, ns.slots["in"][Proxy[g]["in"]][k].id)
    BY DEF PairedAt
  <2>3. Paired(ns, ns.slots["in"][g][k].id, ns.slots["in"][Proxy[g]["in"]][k].id)
    BY <2>1, <2>2 DEF Paired
  <2> QED
    BY <2>3 DEF MirrorInv
<1> QED
  BY <1>1, <1>2, <1>3, PTL DEF EngineSpec

-----------------------------------------------------------------------------
(* Walking back.                                                           *)

(* What is filed by slot id.                                               *)
Filing == [SlotId -> Value \cup {None}]

LEMMA EdgeFacts ==
  ASSUME NEW s, Sound(s), NEW e \in EdgesOf(s)
  PROVE  \A d \in Side : /\ s.edges[e][d] \in End /\ s.edges[e][d].node \in Path
                         /\ s.edges[e][d].slot \in SlotId /\ Resolves(s, d, s.edges[e][d])
<1>1. s.edges[e] \in Edge
  BY DEF Sound, EdgesOf, States
<1>2. \A d \in Side : s.edges[e][d] \in End
  BY <1>1 DEF Edge
<1>3. \A d \in Side : Resolves(s, d, s.edges[e][d])
  BY DEF Sound, Attached
<1> QED
  BY <1>2, <1>3 DEF End

LEMMA FeedersFacts ==
  ASSUME NEW s, Sound(s), NEW p \in Path, NEW i \in DOMAIN s.slots["in"][p],
         NEW slot, slot = s.slots["in"][p][i]
  PROVE  /\ slot.id \in SlotId
         /\ s.conn["in"][slot.id] \in Seq(EdgeId)
         /\ \A k \in DOMAIN s.conn["in"][slot.id] :
              LET e == s.conn["in"][slot.id][k]
              IN  e \in EdgesOf(s) /\ s.edges[e]["in"].node = p /\ s.edges[e]["in"].slot = slot.id
         /\ DOMAIN Feeders(s, slot) = DOMAIN s.conn["in"][slot.id]
         /\ Feeders(s, slot) \in Seq(End)
<1> DEFINE q == s.conn["in"][slot.id]
<1>1. "in" \in Side /\ "out" \in Side /\ s \in States
  BY DEF Sound, Side
<1>2. slot.id \in SlotId
  BY <1>1, IdsTellSlots
<1>3. q \in Seq(EdgeId)
  BY <1>1, <1>2 DEF States
<1>4. ASSUME NEW k \in DOMAIN q
      PROVE  /\ q[k] \in EdgesOf(s) /\ s.edges[q[k]]["in"].node = p /\ s.edges[q[k]]["in"].slot = slot.id
             /\ s.edges[q[k]]["out"] \in End
  <2> DEFINE e == q[k]
  <2>0. Once(q, {f \in EdgesOf(s) : s.edges[f]["in"].slot = slot.id})
    BY <1>1, <1>2 DEF Sound, Filed
  <2> HIDE DEF q
  <2>1. e \in EdgesOf(s) /\ s.edges[e]["in"].slot = slot.id
    BY <2>0, <1>4 DEF Once
  <2> HIDE DEF e
  <2>2. /\ s.edges[e]["in"] \in End /\ s.edges[e]["out"] \in End
        /\ s.edges[e]["in"].node \in Path /\ Resolves(s, "in", s.edges[e]["in"])
    BY <1>1, <2>1, EdgeFacts
  <2> DEFINE a == s.edges[e]["in"].node
             j == s.edges[e]["in"].index
  <2>3. a \in Path /\ j \in DOMAIN s.slots["in"][a] /\ s.slots["in"][a][j].id = slot.id
    BY <2>1, <2>2 DEF Resolves
  <2> HIDE DEF a, j
  <2>4. a = p
    BY <1>1, <2>3, IdsTellSlots
  <2> QED
    BY <2>1, <2>2, <2>4 DEF a, e
<1> HIDE DEF q
<1>5. Feeders(s, slot) = [k \in DOMAIN q |-> s.edges[q[k]]["out"]]
  BY DEF Feeders, q
<1>6. DOMAIN q = 1..Len(q) /\ Len(q) \in Nat
  BY <1>3
<1>7. Feeders(s, slot) \in Seq(End) /\ DOMAIN Feeders(s, slot) = DOMAIN q
  BY <1>4, <1>5, <1>6
<1> QED
  BY <1>2, <1>3, <1>4, <1>7 DEF q

(* A search that tries defaults of slots that are there only.              *)
Backed(s, x) == x.by = "default" => IsInterface(s, x.end.node) /\ HasSlot(s, "in", x.end.node, x.end.index)

Searching(s) == {t \in Search : \A k \in DOMAIN t.todo : Backed(s, t.todo[k])}

LEMMA MoreFacts ==
  ASSUME NEW s, Sound(s), NEW seen, NEW x \in Trial
  PROVE  /\ More(s, seen, x) \in Seq(Trial)
         /\ \A k \in DOMAIN More(s, seen, x) : Backed(s, More(s, seen, x)[k])
         /\ ~ Forwards(s, seen, x) => More(s, seen, x) = <<>>
         /\ Forwards(s, seen, x) =>
              LET feeders == Feeders(s, InputOf(s, x.end))
              IN  /\ Len(feeders) \in Nat /\ DOMAIN feeders = 1..Len(feeders)
                  /\ DOMAIN More(s, seen, x) = 1..(Len(feeders) + 1)
                  /\ More(s, seen, x)[Len(feeders) + 1] = [x EXCEPT !.by = "default"]
                  /\ \A k \in 1..Len(feeders) :
                       More(s, seen, x)[k] = [end |-> feeders[k], by |-> "edge"]
<1> DEFINE feeders == Feeders(s, InputOf(s, x.end))
           tries == [k \in DOMAIN feeders |-> [end |-> feeders[k], by |-> "edge"]]
           last == [x EXCEPT !.by = "default"]
           more == More(s, seen, x)
<1>1. CASE ~ Forwards(s, seen, x)
  <2>1. more = <<>>
    BY <1>1 DEF More
  <2> QED
    BY <1>1, <2>1
<1>2. CASE Forwards(s, seen, x)
  <2>1. x.end \in End /\ x.end.node \in Path /\ x.end.index \in DOMAIN s.slots["in"][x.end.node]
    BY <1>2 DEF Trial, End, Forwards, HasSlot
  <2>2. feeders \in Seq(End)
    <3> DEFINE p == x.end.node
               i == x.end.index
    <3>1. p \in Path /\ i \in DOMAIN s.slots["in"][p]
      BY <2>1
    <3> HIDE DEF p, i
    <3>2. Feeders(s, s.slots["in"][p][i]) \in Seq(End)
      BY <3>1, FeedersFacts
    <3> QED
      BY <3>2 DEF InputOf, p, i
  <2>3. more = Append(tries, last)
    BY <1>2 DEF More
  <2> HIDE DEF feeders, more
  <2>4. tries \in Seq(Trial) /\ DOMAIN tries = 1..Len(feeders) /\ Len(feeders) \in Nat
        /\ Len(tries) = Len(feeders) /\ DOMAIN feeders = 1..Len(feeders)
    <3>1. DOMAIN feeders = 1..Len(feeders) /\ Len(feeders) \in Nat /\ \A k \in 1..Len(feeders) : feeders[k] \in End
      BY <2>2
    <3>2. DOMAIN tries = 1..Len(feeders) /\ \A k \in 1..Len(feeders) : tries[k] \in Trial
      BY <3>1 DEF Trial
    <3> HIDE DEF tries
    <3>3. tries = [k \in 1..Len(feeders) |-> tries[k]]
      BY <3>1 DEF tries
    <3>4. tries \in Seq(Trial)
      BY <3>1, <3>2, <3>3
    <3> QED
      BY <3>1, <3>2, <3>4
  <2>5. last \in Trial /\ last.by = "default" /\ last.end = x.end
    BY DEF Trial
  <2>6. \A k \in 1..Len(feeders) : tries[k] = [end |-> feeders[k], by |-> "edge"]
    BY <2>4
  <2> HIDE DEF tries, last
  <2>7. /\ more \in Seq(Trial) /\ DOMAIN more = 1..(Len(feeders) + 1)
        /\ more[Len(feeders) + 1] = last
        /\ \A k \in 1..Len(feeders) : more[k] = [end |-> feeders[k], by |-> "edge"]
    BY <2>3, <2>4, <2>5, <2>6
  <2>8. Backed(s, last)
    BY <1>2, <2>5 DEF Backed, Forwards
  <2>9. ASSUME NEW k \in DOMAIN more
        PROVE  Backed(s, more[k])
    <3>1. CASE k = Len(feeders) + 1
      BY <2>7, <2>8, <3>1
    <3>2. CASE k \in 1..Len(feeders)
      <4>1. more[k] = [end |-> feeders[k], by |-> "edge"]
        BY <2>7, <3>2
      <4>2. more[k].by = "edge"
        BY <4>1
      <4> QED
        BY <4>2 DEF Backed
    <3> QED
      BY <2>4, <2>7, <3>1, <3>2
  <2> QED
    BY <1>2, <2>4, <2>7, <2>9 DEF more, feeders, last
<1> QED
  BY <1>1, <1>2

LEMMA ReadIsTyped ==
  ASSUME NEW s, Sound(s), NEW c \in Filing, NEW def \in Filing, NEW seen, NEW x \in Trial, Backed(s, x)
  PROVE  Read(s, c, def, seen, x) \in Value \cup {None}
<1>1. x.end \in End /\ x.end.node \in Path /\ x.end.slot \in SlotId
  BY DEF Trial, End
<1>2. CASE x.by = "default"
  <2>1. x.end.index \in DOMAIN s.slots["in"][x.end.node]
    BY <1>2 DEF Backed, HasSlot
  <2>2. InputOf(s, x.end).id \in SlotId
    BY <1>1, <2>1, IdsTellSlots DEF InputOf, Side
  <2>3. Read(s, c, def, seen, x) = def[InputOf(s, x.end).id]
    BY <1>2 DEF Read
  <2> QED
    BY <2>2, <2>3 DEF Filing
<1>3. CASE x.by = "edge" /\ Port(x.end) \notin seen /\ ~ IsInterface(s, x.end.node)
  <2>1. Read(s, c, def, seen, x) = c[x.end.slot]
    BY <1>3 DEF Read
  <2> QED
    BY <1>1, <2>1 DEF Filing
<1>4. CASE x.by = "edge" /\ ~ (Port(x.end) \notin seen /\ ~ IsInterface(s, x.end.node))
  <2>1. Read(s, c, def, seen, x) = None
    BY <1>4 DEF Read
  <2> QED
    BY <2>1
<1> QED
  BY <1>2, <1>3, <1>4 DEF Trial

LEMMA TryStays ==
  ASSUME NEW s, Sound(s), NEW c \in Filing, NEW def \in Filing,
         NEW t \in Searching(s), t.todo # <<>>
  PROVE  Try(s, c, def, t) \in Searching(s)
<1> DEFINE x == Head(t.todo)
           more == More(s, t.seen, x)
           rest == Tail(t.todo)
           u == Try(s, c, def, t)
<1>1. t.todo \in Seq(Trial) /\ t.seen \in SUBSET (Path \X Nat)
  BY DEF Searching, Search
<1>2. x \in Trial /\ Backed(s, x) /\ rest \in Seq(Trial) /\ \A k \in DOMAIN rest : Backed(s, rest[k])
  <2>1. \A k \in DOMAIN t.todo : Backed(s, t.todo[k])
    BY DEF Searching
  <2>2. 1 \in DOMAIN t.todo /\ x = t.todo[1] /\ x \in Trial /\ rest \in Seq(Trial)
        /\ \A k \in DOMAIN rest : k + 1 \in DOMAIN t.todo /\ rest[k] = t.todo[k + 1]
    BY <1>1
  <2> HIDE DEF x, rest
  <2> QED
    BY <2>1, <2>2
<1>3. more \in Seq(Trial) /\ \A k \in DOMAIN more : Backed(s, more[k])
  BY <1>2, MoreFacts
<1>4. Read(s, c, def, t.seen, x) \in Value \cup {None}
  BY <1>2, ReadIsTyped
<1>5. Port(x.end) \in Path \X Nat
  BY <1>2 DEF Port, Trial, End
<1>6. u = [todo |-> more \o rest, seen |-> t.seen \cup {Port(x.end)}, value |-> Read(s, c, def, t.seen, x)]
  BY DEF Try
<1> HIDE DEF more, rest, x, u
<1>7. more \o rest \in Seq(Trial) /\ \A k \in DOMAIN (more \o rest) : Backed(s, (more \o rest)[k])
  <2>1. /\ Len(more) \in Nat /\ Len(rest) \in Nat
        /\ DOMAIN more = 1..Len(more) /\ DOMAIN rest = 1..Len(rest)
        /\ DOMAIN (more \o rest) = 1..(Len(more) + Len(rest))
        /\ more \o rest \in Seq(Trial)
    BY <1>2, <1>3
  <2>2. \A k \in 1..Len(more) : (more \o rest)[k] = more[k]
    BY <1>2, <1>3
  <2>3. \A k \in DOMAIN (more \o rest) : k \notin 1..Len(more) =>
          k - Len(more) \in 1..Len(rest) /\ (more \o rest)[k] = rest[k - Len(more)]
    BY <1>2, <1>3, <2>1
  <2> QED
    BY <1>2, <1>3, <2>1, <2>2, <2>3
<1>8. u \in Search
  BY <1>1, <1>4, <1>5, <1>6, <1>7 DEF Search
<1>9. u.todo = more \o rest
  BY <1>6
<1>10. \A k \in DOMAIN u.todo : Backed(s, u.todo[k])
  BY <1>7, <1>9
<1> QED
  BY <1>8, <1>10 DEF Searching, u

(* A step of the search, as the loop has it.                               *)
Turn(s, c, def) ==
  [t \in Search |-> IF t.value # None \/ t.todo = <<>> THEN t ELSE Try(s, c, def, t)]

Start(from) == [todo |-> <<[end |-> from, by |-> "edge"]>>, seen |-> {}, value |-> None]

LEMMA ResolveIsLoop ==
  ASSUME NEW s, NEW c, NEW def, NEW from
  PROVE  Resolve(s, c, def, from) = Iterate(Turn(s, c, def), Start(from), Steps).value
BY DEF Resolve, Turn, Start

LEMMA StepsAreMany == Steps \in Nat
<1>1. Cardinality(EdgeId) \in Nat
  BY FiniteAssumption, FS_CardinalityType
<1> QED
  BY <1>1 DEF Steps

LEMMA StartIsSearch ==
  ASSUME NEW s, NEW from \in End
  PROVE  /\ Start(from) \in Searching(s)
         /\ DOMAIN Start(from).todo = {1} /\ Start(from).todo[1] = [end |-> from, by |-> "edge"]
         /\ Start(from).seen = {} /\ Start(from).value = None
<1> DEFINE x == [end |-> from, by |-> "edge"]
<1>1. x \in Trial /\ x.by = "edge"
  BY DEF Trial
<1> HIDE DEF x
<1>2. <<x>> \in Seq(Trial) /\ DOMAIN <<x>> = {1} /\ <<x>>[1] = x
  BY <1>1
<1>3. Start(from) = [todo |-> <<x>>, seen |-> {}, value |-> None]
  BY DEF Start, x
<1>4. Start(from) \in Search
  BY <1>2, <1>3 DEF Search
<1>5. \A k \in DOMAIN Start(from).todo : Backed(s, Start(from).todo[k])
  <2>1. Backed(s, x)
    BY <1>1 DEF Backed
  <2> QED
    BY <1>2, <1>3, <2>1
<1> QED
  BY <1>2, <1>3, <1>4, <1>5 DEF Searching, x

LEMMA TurnFacts ==
  ASSUME NEW s, Sound(s), NEW c \in Filing, NEW def \in Filing, NEW t \in Searching(s)
  PROVE  /\ t \in Search /\ Turn(s, c, def)[t] \in Searching(s)
         /\ t.value # None \/ t.todo = <<>> => Turn(s, c, def)[t] = t
         /\ t.value = None /\ t.todo # <<>> => Turn(s, c, def)[t] = Try(s, c, def, t)
<1>1. t \in Search
  BY DEF Searching
<1>2. Turn(s, c, def)[t] = IF t.value # None \/ t.todo = <<>> THEN t ELSE Try(s, c, def, t)
  BY <1>1 DEF Turn
<1> QED
  BY <1>1, <1>2, TryStays

LEMMA ResolveIsTyped ==
  ASSUME NEW s, Sound(s), NEW c \in Filing, NEW def \in Filing, NEW from \in End
  PROVE  Resolve(s, c, def, from) \in Value \cup {None}
<1> DEFINE F == Turn(s, c, def)
           x == Start(from)
<1>1. x \in Searching(s) /\ \A t \in Searching(s) : F[t] \in Searching(s)
  BY StartIsSearch, TurnFacts
<1> HIDE DEF F, x
<1>2. Iterate(F, x, Steps) \in Searching(s)
  BY <1>1, StepsAreMany, IterateKeeps
<1>3. Iterate(F, x, Steps).value \in Value \cup {None}
  BY <1>2 DEF Searching, Search
<1> QED
  BY <1>3, ResolveIsLoop DEF F, x

-----------------------------------------------------------------------------
(* Two walks that go the same way.                                         *)

EndsMatch(E, q, r) == DOMAIN q = DOMAIN r /\ \A k \in DOMAIN q : <<q[k], r[k]>> \in E

TrialsMatch(E, q, r) ==
  DOMAIN q = DOMAIN r /\ \A k \in DOMAIN q : q[k].by = r[k].by /\ <<q[k].end, r[k].end>> \in E

LEMMA JoinedMatch ==
  ASSUME NEW E, NEW q \in Seq(Trial), NEW r \in Seq(Trial), NEW a \in Seq(Trial), NEW b \in Seq(Trial),
         TrialsMatch(E, q, r), TrialsMatch(E, a, b)
  PROVE  TrialsMatch(E, q \o a, r \o b)
<1>1. /\ Len(q) \in Nat /\ Len(a) \in Nat /\ Len(r) = Len(q) /\ Len(b) = Len(a)
      /\ DOMAIN q = 1..Len(q) /\ DOMAIN a = 1..Len(a)
  BY DEF TrialsMatch
<1>2. DOMAIN (q \o a) = 1..(Len(q) + Len(a)) /\ DOMAIN (r \o b) = 1..(Len(q) + Len(a))
  BY <1>1
<1>3. ASSUME NEW k \in 1..(Len(q) + Len(a))
      PROVE  (q \o a)[k].by = (r \o b)[k].by /\ <<(q \o a)[k].end, (r \o b)[k].end>> \in E
  <2>1. CASE k \in 1..Len(q)
    <3>1. (q \o a)[k] = q[k] /\ (r \o b)[k] = r[k]
      BY <1>1, <2>1
    <3> QED
      BY <1>1, <2>1, <3>1 DEF TrialsMatch
  <2>2. CASE k \notin 1..Len(q)
    <3>1. k - Len(q) \in 1..Len(a)
      BY <1>1, <2>2
    <3>2. (q \o a)[k] = a[k - Len(q)] /\ (r \o b)[k] = b[k - Len(q)]
      BY <1>1, <2>2
    <3> QED
      BY <1>1, <3>1, <3>2 DEF TrialsMatch
  <2> QED
    BY <2>1, <2>2
<1> QED
  BY <1>2, <1>3 DEF TrialsMatch

LEMMA SplitMatch ==
  ASSUME NEW E, NEW q \in Seq(Trial), NEW r \in Seq(Trial), TrialsMatch(E, q, r), q # <<>>
  PROVE  /\ r # <<>> /\ Head(q) \in Trial /\ Head(r) \in Trial
         /\ Tail(q) \in Seq(Trial) /\ Tail(r) \in Seq(Trial)
         /\ Head(q).by = Head(r).by /\ <<Head(q).end, Head(r).end>> \in E
         /\ TrialsMatch(E, Tail(q), Tail(r))
<1>1. /\ Len(q) \in Nat /\ Len(r) = Len(q) /\ DOMAIN q = 1..Len(q) /\ DOMAIN r = 1..Len(q)
      /\ Len(q) # 0 /\ 1 \in 1..Len(q)
  BY DEF TrialsMatch
<1>2. r # <<>> /\ Head(q) = q[1] /\ Head(r) = r[1] /\ q[1] \in Trial /\ r[1] \in Trial
  BY <1>1
<1>3. /\ Tail(q) \in Seq(Trial) /\ Tail(r) \in Seq(Trial)
      /\ DOMAIN Tail(q) = 1..(Len(q) - 1) /\ DOMAIN Tail(r) = 1..(Len(q) - 1)
      /\ \A k \in 1..(Len(q) - 1) : Tail(q)[k] = q[k + 1] /\ Tail(r)[k] = r[k + 1]
  BY <1>1, <1>2
<1>4. \A k \in 1..(Len(q) - 1) : k + 1 \in 1..Len(q)
  BY <1>1
<1> QED
  BY <1>1, <1>2, <1>3, <1>4 DEF TrialsMatch

(* The ends a, in s, and b, in u, deliver the same, if what E pairs does.  *)
Alternates(E, s, c, def, u, k, dflt, a, b) ==
  /\ IsInterface(s, a.node) <=> IsInterface(u, b.node)
  /\ ~ IsInterface(s, a.node) => c[a.slot] = k[b.slot]
  /\ IsInterface(s, a.node) =>
       (HasSlot(s, "in", a.node, a.index) <=> HasSlot(u, "in", b.node, b.index))
  /\ IsInterface(s, a.node) /\ HasSlot(s, "in", a.node, a.index) =>
       /\ def[InputOf(s, a).id] = dflt[InputOf(u, b).id]
       /\ EndsMatch(E, Feeders(s, InputOf(s, a)), Feeders(u, InputOf(u, b)))

(* E pairs ends of the graph s, with the cache c and the defaults def,     *)
(* with such of the graph u that deliver the same.                         *)
Pairing(E, s, c, def, u, k, dflt) ==
  /\ E \subseteq End \X End
  /\ \A a, b, v, w : <<a, b>> \in E /\ <<v, w>> \in E => (Port(a) = Port(v) <=> Port(b) = Port(w))
  /\ \A a, b : <<a, b>> \in E => Alternates(E, s, c, def, u, k, dflt, a, b)

SearchesMatch(E, t, r) ==
  /\ TrialsMatch(E, t.todo, r.todo) /\ t.value = r.value
  /\ \A a, b : <<a, b>> \in E => (Port(a) \in t.seen <=> Port(b) \in r.seen)

LEMMA ForwardsMatch ==
  ASSUME NEW E, NEW s, NEW c, NEW def, NEW u, NEW k, NEW dflt, Pairing(E, s, c, def, u, k, dflt),
         NEW seen, NEW been, \A a, b : <<a, b>> \in E => (Port(a) \in seen <=> Port(b) \in been),
         NEW x \in Trial, NEW y \in Trial, x.by = y.by, <<x.end, y.end>> \in E
  PROVE  /\ Forwards(s, seen, x) <=> Forwards(u, been, y)
         /\ Forwards(s, seen, x) => EndsMatch(E, Feeders(s, InputOf(s, x.end)), Feeders(u, InputOf(u, y.end)))
<1>1. Alternates(E, s, c, def, u, k, dflt, x.end, y.end)
  BY DEF Pairing
<1>2. Port(x.end) \in seen <=> Port(y.end) \in been
  OBVIOUS
<1> QED
  BY <1>1, <1>2 DEF Alternates, Forwards

LEMMA MoreMatches ==
  ASSUME NEW E, NEW s, NEW c, NEW def, NEW u, NEW k, NEW dflt, Pairing(E, s, c, def, u, k, dflt),
         Sound(s), Sound(u),
         NEW seen, NEW been, \A a, b : <<a, b>> \in E => (Port(a) \in seen <=> Port(b) \in been),
         NEW x \in Trial, NEW y \in Trial, x.by = y.by, <<x.end, y.end>> \in E
  PROVE  TrialsMatch(E, More(s, seen, x), More(u, been, y))
<1> DEFINE f == Feeders(s, InputOf(s, x.end))
           g == Feeders(u, InputOf(u, y.end))
           m == More(s, seen, x)
           n == More(u, been, y)
<1>1. /\ Forwards(s, seen, x) <=> Forwards(u, been, y)
      /\ Forwards(s, seen, x) => EndsMatch(E, f, g)
  BY ForwardsMatch
<1>2. CASE ~ Forwards(s, seen, x)
  <2>1. m = <<>> /\ n = <<>>
    BY <1>1, <1>2, MoreFacts
  <2> QED
    BY <2>1 DEF TrialsMatch
<1>3. CASE Forwards(s, seen, x)
  <2>1. /\ Len(f) \in Nat /\ DOMAIN f = 1..Len(f)
        /\ DOMAIN m = 1..(Len(f) + 1)
        /\ m[Len(f) + 1] = [x EXCEPT !.by = "default"]
        /\ \A j \in 1..Len(f) : m[j] = [end |-> f[j], by |-> "edge"]
    BY <1>3, MoreFacts
  <2>2. /\ Len(g) \in Nat /\ DOMAIN g = 1..Len(g)
        /\ DOMAIN n = 1..(Len(g) + 1)
        /\ n[Len(g) + 1] = [y EXCEPT !.by = "default"]
        /\ \A j \in 1..Len(g) : n[j] = [end |-> g[j], by |-> "edge"]
    BY <1>1, <1>3, MoreFacts
  <2>3. EndsMatch(E, f, g)
    BY <1>1, <1>3
  <2> HIDE DEF f, g, m, n
  <2>4. Len(f) = Len(g)
    <3>1. 1..Len(f) = 1..Len(g)
      BY <2>1, <2>2, <2>3 DEF EndsMatch
    <3>2. Len(f) \in 1..Len(f) \/ Len(f) = 0
      BY <2>1
    <3>3. Len(g) \in 1..Len(g) \/ Len(g) = 0
      BY <2>2
    <3>4. ASSUME NEW i \in Nat, NEW j \in Nat, i \in 1..j \/ i = 0, j \in 1..i \/ j = 0
          PROVE  i = j
      BY <3>4
    <3>5. Len(f) \in 1..Len(g) \/ Len(f) = 0
      BY <3>1, <3>2
    <3>6. Len(g) \in 1..Len(f) \/ Len(g) = 0
      BY <3>1, <3>3
    <3>7. Len(f) \in Nat /\ Len(g) \in Nat
      BY <2>1, <2>2
    <3> QED
      BY <3>4, <3>5, <3>6, <3>7
  <2>5. \A j \in 1..Len(f) : <<f[j], g[j]>> \in E
    BY <2>1, <2>3 DEF EndsMatch
  <2>6. ASSUME NEW j \in 1..(Len(f) + 1)
        PROVE  m[j].by = n[j].by /\ <<m[j].end, n[j].end>> \in E
    <3>1. CASE j = Len(f) + 1
      <4>1. m[j] = [x EXCEPT !.by = "default"] /\ n[j] = [y EXCEPT !.by = "default"]
        BY <2>1, <2>2, <2>4, <3>1
      <4>2. m[j].by = "default" /\ n[j].by = "default" /\ m[j].end = x.end /\ n[j].end = y.end
        BY <4>1 DEF Trial
      <4> QED
        BY <4>2
    <3>2. CASE j \in 1..Len(f)
      <4>1. m[j] = [end |-> f[j], by |-> "edge"] /\ n[j] = [end |-> g[j], by |-> "edge"]
        BY <2>1, <2>2, <2>4, <3>2
      <4>2. m[j].by = "edge" /\ n[j].by = "edge" /\ m[j].end = f[j] /\ n[j].end = g[j]
        BY <4>1
      <4> QED
        BY <2>5, <3>2, <4>2
    <3> QED
      BY <2>1, <3>1, <3>2
  <2> QED
    BY <2>1, <2>2, <2>4, <2>6 DEF TrialsMatch, m, n
<1> QED
  BY <1>2, <1>3

LEMMA ReadMatches ==
  ASSUME NEW E, NEW s, NEW c, NEW def, NEW u, NEW k, NEW dflt, Pairing(E, s, c, def, u, k, dflt),
         NEW seen, NEW been, \A a, b : <<a, b>> \in E => (Port(a) \in seen <=> Port(b) \in been),
         NEW x \in Trial, NEW y \in Trial, x.by = y.by, <<x.end, y.end>> \in E,
         Backed(s, x), Backed(u, y)
  PROVE  Read(s, c, def, seen, x) = Read(u, k, dflt, been, y)
<1>1. Alternates(E, s, c, def, u, k, dflt, x.end, y.end)
  BY DEF Pairing
<1>2. Port(x.end) \in seen <=> Port(y.end) \in been
  OBVIOUS
<1>3. CASE x.by = "default"
  <2>1. IsInterface(s, x.end.node) /\ HasSlot(s, "in", x.end.node, x.end.index)
    BY <1>3 DEF Backed
  <2>2. def[InputOf(s, x.end).id] = dflt[InputOf(u, y.end).id]
    BY <1>1, <2>1 DEF Alternates
  <2>3. Read(s, c, def, seen, x) = def[InputOf(s, x.end).id]
    BY <1>3 DEF Read
  <2>4. Read(u, k, dflt, been, y) = dflt[InputOf(u, y.end).id]
    BY <1>3 DEF Read
  <2> QED
    BY <2>2, <2>3, <2>4
<1>4. CASE x.by = "edge" /\ Port(x.end) \notin seen /\ ~ IsInterface(s, x.end.node)
  <2>1. Read(s, c, def, seen, x) = c[x.end.slot]
    BY <1>4 DEF Read
  <2>2. y.by = "edge" /\ Port(y.end) \notin been /\ ~ IsInterface(u, y.end.node)
    BY <1>1, <1>2, <1>4 DEF Alternates
  <2>3. Read(u, k, dflt, been, y) = k[y.end.slot]
    BY <2>2 DEF Read
  <2> QED
    BY <1>1, <1>4, <2>1, <2>3 DEF Alternates
<1>5. CASE x.by = "edge" /\ ~ (Port(x.end) \notin seen /\ ~ IsInterface(s, x.end.node))
  <2>1. Read(s, c, def, seen, x) = None
    BY <1>5 DEF Read
  <2>2. y.by = "edge" /\ ~ (Port(y.end) \notin been /\ ~ IsInterface(u, y.end.node))
    BY <1>1, <1>2, <1>5 DEF Alternates
  <2>3. Read(u, k, dflt, been, y) = None
    BY <2>2 DEF Read
  <2> QED
    BY <2>1, <2>3
<1> QED
  BY <1>3, <1>4, <1>5 DEF Trial

LEMMA TriesMatch ==
  ASSUME NEW E, NEW s, NEW c \in Filing, NEW def \in Filing,
         NEW u, NEW k \in Filing, NEW dflt \in Filing, Pairing(E, s, c, def, u, k, dflt),
         Sound(s), Sound(u), NEW t \in Searching(s), NEW r \in Searching(u),
         SearchesMatch(E, t, r), t.todo # <<>>
  PROVE  SearchesMatch(E, Try(s, c, def, t), Try(u, k, dflt, r))
<1> DEFINE x == Head(t.todo)
           y == Head(r.todo)
           m == More(s, t.seen, x)
           n == More(u, r.seen, y)
           after == Try(s, c, def, t)
           behind == Try(u, k, dflt, r)
<1>1. t.todo \in Seq(Trial) /\ r.todo \in Seq(Trial) /\ TrialsMatch(E, t.todo, r.todo)
      /\ \A a, b : <<a, b>> \in E => (Port(a) \in t.seen <=> Port(b) \in r.seen)
  BY DEF SearchesMatch, Searching, Search
<1>2. /\ r.todo # <<>> /\ x \in Trial /\ y \in Trial
      /\ Tail(t.todo) \in Seq(Trial) /\ Tail(r.todo) \in Seq(Trial)
      /\ x.by = y.by /\ <<x.end, y.end>> \in E
      /\ TrialsMatch(E, Tail(t.todo), Tail(r.todo))
  BY <1>1, SplitMatch
<1>3. Backed(s, x) /\ Backed(u, y)
  <2>1. /\ \A j \in DOMAIN t.todo : Backed(s, t.todo[j])
        /\ \A j \in DOMAIN r.todo : Backed(u, r.todo[j])
    BY DEF Searching
  <2>2. 1 \in DOMAIN t.todo /\ x = t.todo[1] /\ 1 \in DOMAIN r.todo /\ y = r.todo[1]
    BY <1>1, <1>2
  <2> HIDE DEF x, y
  <2> QED
    BY <2>1, <2>2
<1>4. after = [todo |-> m \o Tail(t.todo), seen |-> t.seen \cup {Port(x.end)},
               value |-> Read(s, c, def, t.seen, x)]
  BY DEF Try
<1>5. behind = [todo |-> n \o Tail(r.todo), seen |-> r.seen \cup {Port(y.end)},
                value |-> Read(u, k, dflt, r.seen, y)]
  BY DEF Try
<1> HIDE DEF x, y, after, behind
<1>6. m \in Seq(Trial) /\ n \in Seq(Trial)
  BY <1>2, MoreFacts
<1>7. TrialsMatch(E, m, n)
  BY <1>1, <1>2, MoreMatches
<1> HIDE DEF m, n
<1>8. TrialsMatch(E, m \o Tail(t.todo), n \o Tail(r.todo))
  BY <1>2, <1>6, <1>7, JoinedMatch
<1>9. Read(s, c, def, t.seen, x) = Read(u, k, dflt, r.seen, y)
  BY <1>1, <1>2, <1>3, ReadMatches
<1>10. ASSUME NEW a, NEW b, <<a, b>> \in E
       PROVE  Port(a) \in t.seen \cup {Port(x.end)} <=> Port(b) \in r.seen \cup {Port(y.end)}
  <2>1. Port(a) = Port(x.end) <=> Port(b) = Port(y.end)
    BY <1>2, <1>10 DEF Pairing
  <2> QED
    BY <1>1, <1>10, <2>1
<1>11. TrialsMatch(E, after.todo, behind.todo) /\ after.value = behind.value
  BY <1>4, <1>5, <1>8, <1>9
<1>12. \A a, b : <<a, b>> \in E => (Port(a) \in after.seen <=> Port(b) \in behind.seen)
  BY <1>4, <1>5, <1>10
<1>13. SearchesMatch(E, after, behind)
  BY <1>11, <1>12 DEF SearchesMatch
<1> QED
  BY <1>13 DEF after, behind

(* Ends that are paired deliver the same value.                            *)
LEMMA ResolveAgrees ==
  ASSUME NEW E, NEW s, NEW c \in Filing, NEW def \in Filing,
         NEW u, NEW k \in Filing, NEW dflt \in Filing, Pairing(E, s, c, def, u, k, dflt),
         Sound(s), Sound(u), NEW a, NEW b, <<a, b>> \in E
  PROVE  Resolve(s, c, def, a) = Resolve(u, k, dflt, b)
<1> DEFINE F == Turn(s, c, def)
           G == Turn(u, k, dflt)
           at(n) == Iterate(F, Start(a), n)
           on(n) == Iterate(G, Start(b), n)
           I == {n \in Nat : SearchesMatch(E, at(n), on(n))}
<1>1. a \in End /\ b \in End
  BY DEF Pairing
<1>2. /\ Start(a) \in Searching(s) /\ \A t \in Searching(s) : F[t] \in Searching(s)
      /\ Start(b) \in Searching(u) /\ \A t \in Searching(u) : G[t] \in Searching(u)
  BY <1>1, StartIsSearch, TurnFacts
<1>3. SearchesMatch(E, Start(a), Start(b))
  <2> DEFINE x == [end |-> a, by |-> "edge"]
             y == [end |-> b, by |-> "edge"]
  <2>1. /\ DOMAIN Start(a).todo = {1} /\ Start(a).todo[1] = x
        /\ DOMAIN Start(b).todo = {1} /\ Start(b).todo[1] = y
        /\ Start(a).seen = {} /\ Start(b).seen = {} /\ Start(a).value = Start(b).value
    BY <1>1, StartIsSearch
  <2>2. x.by = y.by /\ x.end = a /\ y.end = b
    OBVIOUS
  <2> HIDE DEF x, y
  <2>3. TrialsMatch(E, Start(a).todo, Start(b).todo)
    BY <2>1, <2>2 DEF TrialsMatch
  <2> QED
    BY <2>1, <2>3 DEF SearchesMatch
<1>4. ASSUME NEW t \in Searching(s), NEW r \in Searching(u), SearchesMatch(E, t, r)
      PROVE  SearchesMatch(E, F[t], G[r])
  <2>1. t.value = r.value /\ (t.todo = <<>> <=> r.todo = <<>>)
    <3>1. TrialsMatch(E, t.todo, r.todo) /\ t.value = r.value
      BY <1>4 DEF SearchesMatch
    <3>2. t.todo \in Seq(Trial) /\ r.todo \in Seq(Trial)
      BY DEF Searching, Search
    <3> QED
      BY <3>1, <3>2 DEF TrialsMatch
  <2>2. CASE t.value # None \/ t.todo = <<>>
    <3>1. F[t] = t /\ G[r] = r
      BY <2>1, <2>2, TurnFacts
    <3> QED
      BY <1>4, <3>1
  <2>3. CASE t.value = None /\ t.todo # <<>>
    <3>1. F[t] = Try(s, c, def, t) /\ G[r] = Try(u, k, dflt, r)
      BY <2>1, <2>3, TurnFacts
    <3>2. SearchesMatch(E, Try(s, c, def, t), Try(u, k, dflt, r))
      BY <1>4, <2>3, TriesMatch
    <3> QED
      BY <3>1, <3>2
  <2> QED
    BY <2>2, <2>3
<1> HIDE DEF F, G
<1>5. \A n \in Nat : at(n) \in Searching(s) /\ on(n) \in Searching(u)
  <2>1. \A n \in Nat : at(n) \in Searching(s)
    BY <1>2, IterateKeeps
  <2>2. \A n \in Nat : on(n) \in Searching(u)
    BY <1>2, IterateKeeps
  <2> QED
    BY <2>1, <2>2
<1>6. /\ at(0) = Start(a) /\ on(0) = Start(b)
      /\ \A n \in Nat : at(n + 1) = F[at(n)] /\ on(n + 1) = G[on(n)]
  BY IterateFacts
<1>7. Resolve(s, c, def, a) = at(Steps).value /\ Resolve(u, k, dflt, b) = on(Steps).value
  BY ResolveIsLoop DEF F, G
<1> HIDE DEF at, on
<1>8. 0 \in I
  BY <1>3, <1>6
<1>9. ASSUME NEW n \in Nat, n \in I
      PROVE  n + 1 \in I
  <2>1. SearchesMatch(E, F[at(n)], G[on(n)])
    BY <1>4, <1>5, <1>9
  <2> QED
    BY <1>6, <2>1
<1> HIDE DEF I
<1>10. \A n \in Nat : n \in I
  BY <1>8, <1>9, SetInduction
<1>11. SearchesMatch(E, at(Steps), on(Steps))
  BY <1>10, StepsAreMany DEF I
<1> QED
  BY <1>7, <1>11 DEF SearchesMatch

-----------------------------------------------------------------------------
(* What a run is given.                                                    *)

LEMMA DeliveredIsTyped ==
  ASSUME NEW s, Sound(s), NEW c \in Filing, NEW def \in Filing, NEW e \in EdgesOf(s)
  PROVE  Delivered(s, c, def, e) \in Value \cup {None}
<1>1. s.edges[e]["out"] \in End
  BY EdgeFacts DEF Side
<1> QED
  BY <1>1, ResolveIsTyped DEF Delivered

LEMMA SlotValuesAreTyped ==
  ASSUME NEW s, Sound(s), NEW c \in Filing, NEW def \in Filing,
         NEW p \in Path, NEW i \in DOMAIN s.slots["in"][p]
  PROVE  SlotValues(s, c, def, s.slots["in"][p][i]) \in Seq(Value)
<1> DEFINE slot == s.slots["in"][p][i]
           q == s.conn["in"][slot.id]
           got == [k \in DOMAIN q |-> Delivered(s, c, def, q[k])]
           values == Without(got, {None})
<1>1. /\ slot.id \in SlotId /\ q \in Seq(EdgeId) /\ \A k \in DOMAIN q : q[k] \in EdgesOf(s)
  BY FeedersFacts
<1>2. SlotValues(s, c, def, slot) =
        IF values = <<>> /\ def[slot.id] # None THEN <<def[slot.id]>> ELSE values
  BY DEF SlotValues
<1>3. def[slot.id] \in Value \cup {None}
  BY <1>1 DEF Filing
<1> HIDE DEF slot, q
<1>4. got \in Seq(Value \cup {None})
  <2>1. \A k \in DOMAIN q : got[k] \in Value \cup {None}
    BY <1>1, DeliveredIsTyped
  <2>2. DOMAIN q = 1..Len(q) /\ Len(q) \in Nat /\ got = [k \in 1..Len(q) |-> got[k]]
    BY <1>1
  <2> HIDE DEF got
  <2> QED
    BY <2>1, <2>2
<1> HIDE DEF got
<1>5. values \in Seq(Value)
  <2>1. /\ values \in Seq(Value \cup {None})
        /\ \A k \in DOMAIN values : \E j \in DOMAIN got : got[j] \notin {None} /\ values[k] = got[j]
    BY <1>4, WithoutFacts
  <2> HIDE DEF values
  <2>2. \A k \in DOMAIN values : values[k] \in Value
    BY <1>4, <2>1
  <2>3. DOMAIN values = 1..Len(values) /\ Len(values) \in Nat /\ values = [k \in 1..Len(values) |-> values[k]]
    BY <2>1
  <2> QED
    BY <2>2, <2>3
<1> HIDE DEF values
<1>6. CASE values = <<>> /\ def[slot.id] # None
  <2>1. <<def[slot.id]>> \in Seq(Value)
    BY <1>3, <1>6
  <2> QED
    BY <1>2, <1>6, <2>1 DEF slot
<1>7. CASE ~ (values = <<>> /\ def[slot.id] # None)
  BY <1>2, <1>5, <1>7 DEF slot
<1> QED
  BY <1>6, <1>7

LEMMA InputValuesAreTyped ==
  ASSUME NEW s, Sound(s), NEW c \in Filing, NEW def \in Filing, NEW p \in Path
  PROVE  InputValues(s, c, def, p) \in [DOMAIN s.slots["in"][p] -> Seq(Value)]
BY SlotValuesAreTyped DEF InputValues

(* Only the nodes that take part in its making have slots, and as many as  *)
(* they were made with.                                                    *)
Shaped(s) ==
  /\ \A g \in SubGraph, d \in Side : Proxy[g][d] \in s.nodes <=> g \in s.nodes
  /\ \A p \in Path \ s.nodes, d \in Side : s.slots[d][p] = <<>>
  /\ \A p \in s.nodes \ (Interface \cup SubGraph), d \in Side :
       DOMAIN s.slots[d][p] = 1..Len(Defs[p][d])

LEMMA EditsKeepShape ==
  ASSUME ProxiesAreKept, Good(ns), Shaped(ns), Restructure \/ Rewire
  PROVE  Shaped(ns')
<1>1. Good(ns')
  BY EditsAreOfTheGraph, GoodStep
<1>2. /\ \A g \in SubGraph, d \in Side : Proxy[g][d] \in Path /\ g \in Path /\ IsProxy(Proxy[g][d])
                                         /\ Proxy[g][d] \in Interface
      /\ ns.nodes \in SUBSET Path /\ ns \in States
  BY PathAssumption DEF Good, Sound, States, IsProxy
<1>3. CASE SameTables(ns, ns')
  BY <1>3 DEF SameTables, Shaped
<1>4. ASSUME NEW p \in Path \ (SubGraph \cup ns.nodes), ~ IsProxy(p), NodeAdded(ns, ns', p)
      PROVE  Shaped(ns')
  <2>1. \A g \in SubGraph, d \in Side : Proxy[g][d] \in ns'.nodes <=> g \in ns'.nodes
    BY <1>2, <1>4 DEF NodeAdded, Shaped
  <2>2. \A q \in Path \ ns'.nodes, d \in Side : ns'.slots[d][q] = <<>>
    BY <1>4 DEF NodeAdded, Shaped
  <2>3. \A q \in ns'.nodes \ (Interface \cup SubGraph), d \in Side :
          DOMAIN ns'.slots[d][q] = 1..Len(Defs[q][d])
    BY <1>2, <1>4 DEF NodeAdded, Shaped
  <2> QED
    BY <2>1, <2>2, <2>3 DEF Shaped
<1>5. ASSUME NEW g \in SubGraph, SubGraphAdded(ns, ns', g)
      PROVE  Shaped(ns')
  <2> DEFINE paths == {g, Proxy[g]["in"], Proxy[g]["out"]}
  <2>1. /\ ns'.nodes = ns.nodes \cup paths
        /\ \A d \in Side : \A q \in Path : ns'.slots[d][q] = ns.slots[d][q]
    BY <1>5 DEF SubGraphAdded
  <2>2. ASSUME NEW h \in SubGraph, NEW d \in Side
        PROVE  Proxy[h][d] \in ns'.nodes <=> h \in ns'.nodes
    <3>1. CASE h = g
      BY <2>1, <3>1 DEF Side
    <3>2. CASE h # g
      <4>1. \A c \in Side : h # Proxy[g][c] /\ Proxy[h][d] # g /\ Proxy[h][d] # Proxy[g][c]
        BY <1>2, <3>2, ProxiesDiffer, PathAssumption
      <4> QED
        BY <2>1, <3>2, <4>1 DEF Side, Shaped
    <3> QED
      BY <3>1, <3>2
  <2>3. \A q \in Path \ ns'.nodes, d \in Side : ns'.slots[d][q] = <<>>
    BY <2>1 DEF Shaped
  <2>4. \A q \in paths : q \in Interface \cup SubGraph
    BY <1>2 DEF Side
  <2>5. \A q \in ns'.nodes \ (Interface \cup SubGraph), d \in Side :
          DOMAIN ns'.slots[d][q] = 1..Len(Defs[q][d])
    BY <1>2, <2>1, <2>4 DEF Shaped
  <2> QED
    BY <2>2, <2>3, <2>5 DEF Shaped
<1>6. ASSUME NEW p \in Churn, Subtree(p) \in SUBSET Path, NodesGone(ns, ns', Subtree(p))
      PROVE  Shaped(ns')
  <2>1. ns'.nodes = ns.nodes \ Subtree(p)
        /\ \A d \in Side : \A q \in Path : ns'.slots[d][q] = IF q \in Subtree(p) THEN <<>> ELSE ns.slots[d][q]
    BY <1>6 DEF NodesGone
  <2>2. ASSUME NEW h \in SubGraph, NEW d \in Side
        PROVE  Proxy[h][d] \in ns'.nodes <=> h \in ns'.nodes
    <3> DEFINE q == Proxy[h][d]
    <3>1. Parent[q] = h /\ q # p /\ p \in Path /\ (q \in ns.nodes <=> h \in ns.nodes)
      BY PathAssumption, BoundsAssumption DEF ProxiesAreKept, Shaped
    <3> HIDE DEF q
    <3>2. q \in ns.nodes => (q \in Subtree(p) <=> h \in Subtree(p))
      BY <1>2, <3>1, SubtreeFacts
    <3> QED
      BY <2>1, <3>1, <3>2 DEF q
  <2>3. \A q \in Path \ ns'.nodes, d \in Side : ns'.slots[d][q] = <<>>
    BY <2>1 DEF Shaped
  <2>4. \A q \in ns'.nodes \ (Interface \cup SubGraph), d \in Side :
          DOMAIN ns'.slots[d][q] = 1..Len(Defs[q][d])
    BY <1>2, <2>1 DEF Shaped
  <2> QED
    BY <2>2, <2>3, <2>4 DEF Shaped
<1>7. ASSUME NEW g \in SubGraph \cap ns.nodes, NEW d \in Side, ElsewhereKept(ns, ns', g, d)
      PROVE  Shaped(ns')
  <2>1. /\ ns'.nodes = ns.nodes /\ g \in ns.nodes /\ Proxy[g][d] \in ns.nodes
        /\ \A c \in Side : \A a \in Path : a # Proxy[g][d] /\ a # g => ns'.slots[c][a] = ns.slots[c][a]
    BY <1>7 DEF ElsewhereKept, Shaped
  <2>2. \A q \in Path \ ns'.nodes, c \in Side : ns'.slots[c][q] = <<>>
    BY <2>1 DEF Shaped
  <2>3. \A q \in ns'.nodes \ (Interface \cup SubGraph), c \in Side :
          DOMAIN ns'.slots[c][q] = 1..Len(Defs[q][c])
    BY <1>2, <2>1 DEF Shaped
  <2> QED
    BY <2>1, <2>2, <2>3 DEF Shaped
<1> QED
  BY <1>1, <1>3, <1>4, <1>5, <1>6, <1>7, EditKinds DEF PortAppended, PortCut, PortInserted

-----------------------------------------------------------------------------
(* What a run leaves in the cache.                                         *)

RunOf(s, c, def, p) == Compute(p, data[p], InputValues(s, c, def, p))

Runnable(P) == P \ (Interface \cup SubGraph)

LEMMA WrittenFacts ==
  ASSUME NEW s, Sound(s), NEW c, NEW def, NEW P \in SUBSET Path
  PROVE  /\ Written(s, c, def, P) = [i \in SlotId |-> Written(s, c, def, P)[i]]
         /\ \A p \in Runnable(P) : \A k \in DOMAIN s.slots["out"][p] :
              LET id == s.slots["out"][p][k].id
                  v == RunOf(s, c, def, p)[k]
              IN  id \in SlotId /\ Written(s, c, def, P)[id] = IF v # None THEN v ELSE c[id]
         /\ \A i \in SlotId : (\A p \in Runnable(P) : i \notin OutputIds(s, p)) =>
              Written(s, c, def, P)[i] = c[i]
<1> DEFINE out(p) == Compute(p, data[p], InputValues(s, c, def, p))
           ends == UNION {{<<p, k>> : k \in DOMAIN s.slots["out"][p]} : p \in P \ (Interface \cup SubGraph)}
           at(i) == {x \in ends : s.slots["out"][x[1]][x[2]].id = i /\ out(x[1])[x[2]] # None}
           w == Written(s, c, def, P)
<1>1. w = [i \in SlotId |-> IF at(i) = {} THEN c[i]
                            ELSE LET x == CHOOSE x \in at(i) : TRUE IN out(x[1])[x[2]]]
  BY DEF Written
<1>2. "out" \in Side
  BY DEF Side
<1>3. \A x \in ends : \E p \in Runnable(P) : \E k \in DOMAIN s.slots["out"][p] : x = <<p, k>>
  BY DEF Runnable
<1>10. \A i : \A x \in at(i) : \E p \in Runnable(P) : \E k \in DOMAIN s.slots["out"][p] :
         x = <<p, k>> /\ s.slots["out"][p][k].id = i /\ out(p)[k] # None
  <2> SUFFICES ASSUME NEW i, NEW x \in at(i)
               PROVE  \E p \in Runnable(P) : \E k \in DOMAIN s.slots["out"][p] :
                        x = <<p, k>> /\ s.slots["out"][p][k].id = i /\ out(p)[k] # None
    OBVIOUS
  <2> HIDE DEF ends, out
  <2>1. x \in ends /\ s.slots["out"][x[1]][x[2]].id = i /\ out(x[1])[x[2]] # None
    OBVIOUS
  <2> HIDE DEF at
  <2>2. PICK p \in Runnable(P) : \E k \in DOMAIN s.slots["out"][p] : x = <<p, k>>
    BY <1>3, <2>1
  <2>5. PICK k \in DOMAIN s.slots["out"][p] : x = <<p, k>>
    BY <2>2
  <2>3. x[1] = p /\ x[2] = k
    BY <2>5
  <2>4. s.slots["out"][p][k].id = i /\ out(p)[k] # None
    BY <2>1, <2>3
  <2> QED
    BY <2>4, <2>5
<1>4. ASSUME NEW p \in Runnable(P), NEW k \in DOMAIN s.slots["out"][p],
             NEW id, id = s.slots["out"][p][k].id
      PROVE  /\ id \in SlotId
             /\ out(p)[k] # None => at(id) = {<<p, k>>}
             /\ out(p)[k] = None => at(id) = {}
  <2>1. p \in Path /\ <<p, k>> \in ends
    BY DEF Runnable
  <2>2. id \in SlotId /\ \A q \in Path : \A j \in DOMAIN s.slots["out"][q] :
          s.slots["out"][q][j].id = id => q = p /\ j = k
    BY <1>2, <1>4, <2>1, IdsTellSlots
  <2>3. ASSUME NEW x \in at(id)
        PROVE  x = <<p, k>> /\ out(p)[k] # None
    <3> HIDE DEF at, out
    <3>1. PICK q \in Runnable(P) : \E j \in DOMAIN s.slots["out"][q] :
            x = <<q, j>> /\ s.slots["out"][q][j].id = id /\ out(q)[j] # None
      BY <1>10
    <3>4. PICK j \in DOMAIN s.slots["out"][q] :
            x = <<q, j>> /\ s.slots["out"][q][j].id = id /\ out(q)[j] # None
      BY <3>1
    <3>2. s.slots["out"][q][j].id = id /\ out(q)[j] # None /\ q \in Path
      BY <3>4 DEF Runnable
    <3>3. q = p /\ j = k
      BY <2>2, <3>2
    <3> QED
      BY <3>2, <3>3, <3>4
  <2>4. out(p)[k] # None => <<p, k>> \in at(id)
    BY <1>4, <2>1
  <2> HIDE DEF at, out
  <2> QED
    BY <2>2, <2>3, <2>4
<1>5. ASSUME NEW i \in SlotId, \A p \in Runnable(P) : i \notin OutputIds(s, p)
      PROVE  at(i) = {}
  <2> SUFFICES ASSUME NEW x \in at(i)
               PROVE  FALSE
    OBVIOUS
  <2> HIDE DEF at, out
  <2>1. PICK q \in Runnable(P) : \E j \in DOMAIN s.slots["out"][q] :
          s.slots["out"][q][j].id = i
    BY <1>10
  <2> QED
    BY <1>5, <2>1 DEF OutputIds, IdsOf
<1> HIDE DEF at, w, ends
<1>6. \A i \in SlotId : at(i) = {} => w[i] = c[i]
  BY <1>1
<1>7. \A i \in SlotId : \A y : at(i) = {y} => w[i] = out(y[1])[y[2]]
  BY <1>1
<1>8. w = [i \in SlotId |-> w[i]]
  BY <1>1
<1>9. ASSUME NEW p \in Runnable(P), NEW k \in DOMAIN s.slots["out"][p],
             NEW id, id = s.slots["out"][p][k].id
      PROVE  id \in SlotId /\ w[id] = IF out(p)[k] # None THEN out(p)[k] ELSE c[id]
  <2>1. CASE out(p)[k] # None
    <3>1. id \in SlotId /\ at(id) = {<<p, k>>}
      BY <1>4, <1>9, <2>1
    <3>2. w[id] = out(<<p, k>>[1])[<<p, k>>[2]]
      BY <1>7, <3>1
    <3> QED
      BY <2>1, <3>1, <3>2
  <2>2. CASE out(p)[k] = None
    BY <1>4, <1>6, <1>9, <2>2
  <2> QED
    BY <2>1, <2>2
<1> QED
  BY <1>5, <1>6, <1>8, <1>9 DEF w, RunOf

(* Every value is filed under an output that is there.                     *)
Stocked(s, c) ==
  c \in Filing /\ \A i \in SlotId : c[i] # None => \E p \in Path : i \in OutputIds(s, p)

LEMMA WritingStocks ==
  ASSUME RunsAreTyped, data \in [Path -> Data],
         NEW s, Sound(s), Shaped(s), NEW c, Stocked(s, c), NEW def \in Filing, NEW P \in SUBSET s.nodes
  PROVE  Stocked(s, Written(s, c, def, P))
<1> DEFINE w == Written(s, c, def, P)
<1>1. P \in SUBSET Path /\ c \in Filing
  BY DEF Sound, States, Stocked
<1>2. /\ w = [i \in SlotId |-> w[i]]
      /\ \A p \in Runnable(P) : \A k \in DOMAIN s.slots["out"][p] :
           LET id == s.slots["out"][p][k].id
               v == RunOf(s, c, def, p)[k]
           IN  id \in SlotId /\ w[id] = IF v # None THEN v ELSE c[id]
      /\ \A i \in SlotId : (\A p \in Runnable(P) : i \notin OutputIds(s, p)) => w[i] = c[i]
  BY <1>1, WrittenFacts
<1> HIDE DEF w
<1>3. ASSUME NEW p \in Runnable(P), NEW k \in DOMAIN s.slots["out"][p]
      PROVE  RunOf(s, c, def, p)[k] \in Value \cup {None}
  <2>1. p \in s.nodes \ (Interface \cup SubGraph) /\ p \in Path
    BY <1>1 DEF Runnable
  <2>2. DOMAIN s.slots["in"][p] = 1..Len(Defs[p]["in"]) /\ DOMAIN s.slots["out"][p] = 1..Len(Defs[p]["out"])
    BY <2>1 DEF Shaped, Side
  <2>3. InputValues(s, c, def, p) \in [1..Len(Defs[p]["in"]) -> Seq(Value)]
    BY <1>1, <2>1, <2>2, InputValuesAreTyped
  <2>4. data[p] \in Data
    BY <2>1
  <2> QED
    BY <1>3, <2>1, <2>2, <2>3, <2>4 DEF RunsAreTyped, RunsAreTypedOn, RunOf
<1>4. ASSUME NEW i \in SlotId
      PROVE  /\ w[i] \in Value \cup {None}
             /\ w[i] # None => \E p \in Path : i \in OutputIds(s, p)
  <2>1. c[i] \in Value \cup {None} /\ (c[i] # None => \E p \in Path : i \in OutputIds(s, p))
    BY DEF Stocked, Filing
  <2>2. CASE \A p \in Runnable(P) : i \notin OutputIds(s, p)
    BY <1>2, <2>1, <2>2
  <2>3. CASE \E p \in Runnable(P) : i \in OutputIds(s, p)
    <3>1. PICK p \in Runnable(P) : i \in OutputIds(s, p)
      BY <2>3
    <3>2. PICK k \in DOMAIN s.slots["out"][p] : s.slots["out"][p][k].id = i
      BY <3>1 DEF OutputIds, IdsOf
    <3> DEFINE v == RunOf(s, c, def, p)[k]
    <3>3. v \in Value \cup {None}
      BY <1>3
    <3>4. w[i] = IF v # None THEN v ELSE c[i]
      BY <1>2, <3>2
    <3>5. p \in Path
      BY <1>1 DEF Runnable
    <3> HIDE DEF v
    <3> QED
      BY <2>1, <3>1, <3>3, <3>4, <3>5
  <2> QED
    BY <2>2, <2>3
<1>5. w \in Filing
  <2>1. \A i \in SlotId : w[i] \in Value \cup {None}
    BY <1>4
  <2> QED
    BY <1>2, <2>1 DEF Filing
<1> QED
  BY <1>4, <1>5 DEF Stocked, w
(* Each level of a pass files the values of what it runs.                  *)
LEMMA PassStocks ==
  ASSUME RunsAreTyped, data \in [Path -> Data],
         NEW s, Good(s), Shaped(s), NEW c, Stocked(s, c), NEW def \in Filing, NEW F
  PROVE  Stocked(s, Pass(s, c, def, F).cache)
<1> DEFINE P == Downstream(s, s.changed)
           levels == Sort(s, P)
           n == Len(levels)
<1>1. s \in States /\ s.changed \in SUBSET Path /\ Sound(s)
  BY DEF Good, Sound, States
<1>2. P \in SUBSET Path
  BY <1>1, DownstreamFacts
<1> HIDE DEF P
<1>3. levels \in Seq(SUBSET P)
  BY <1>2, SortFacts
<1> HIDE DEF levels
<1>4. n \in Nat
  BY <1>3
<1> HIDE DEF n
<1>5. PICK f : /\ f[0] = NothingRun(c)
               /\ \A k \in 1..n : f[k] = RunLevel(s, def, s.changed, F, f[k - 1], levels[k])
               /\ Pass(s, c, def, F) = f[n]
  BY <1>4, PassFacts DEF P, levels, n
<1> DEFINE S == {k \in Nat : k <= n => Stocked(s, f[k].cache)}
<1>6. 0 \in S
  BY <1>5 DEF NothingRun
<1>7. ASSUME NEW k \in Nat, k \in S
      PROVE  k + 1 \in S
  <2>1. CASE k + 1 <= n
    <3>1. k + 1 \in 1..n /\ (k + 1) - 1 = k /\ k <= n
      BY <1>4, <2>1
    <3>2. f[k + 1] = RunLevel(s, def, s.changed, F, f[k], levels[k + 1])
      BY <1>5, <3>1
    <3> DEFINE Q == ({p \in levels[k + 1] : MustExecute(s, s.changed, f[k].moved, p)} \cap s.nodes) \ F
    <3>3. f[k + 1].cache = Written(s, f[k].cache, def, Q)
      BY <3>2 DEF RunLevel
    <3>4. Q \in SUBSET s.nodes
      OBVIOUS
    <3>5. Stocked(s, f[k].cache)
      BY <1>7, <3>1
    <3> HIDE DEF Q
    <3>6. Stocked(s, Written(s, f[k].cache, def, Q))
      BY <1>1, <3>4, <3>5, WritingStocks
    <3> QED
      BY <3>3, <3>6
  <2> QED
    BY <2>1
<1> HIDE DEF S
<1>8. \A k \in Nat : k \in S
  BY <1>6, <1>7, SetInduction
<1>9. Stocked(s, f[n].cache)
  BY <1>4, <1>8 DEF S
<1> QED
  BY <1>5, <1>9

-----------------------------------------------------------------------------
(* What is filed, and where.                                               *)

TypeInv ==
  /\ Good(ns) /\ Shaped(ns)
  /\ data \in [Path -> Data]
  /\ default \in Filing /\ \A i \in SlotId : default[i] # None => InputId(ns, i)
  /\ Stocked(ns, cache)
  /\ DOMAIN shown.out = Path /\ DOMAIN shown.edge = EdgeId

LEMMA EditsKeepTypes ==
  ASSUME ProxiesAreKept, TypeInv, Restructure \/ Rewire
  PROVE  TypeInv'
<1>1. Good(ns') /\ Shaped(ns') /\ Forget
  BY EditsAreOfTheGraph, EditsKeepShape, GoodStep DEF TypeInv, Restructure, Rewire
<1>2. ASSUME NEW i \in SlotId
      PROVE  /\ default'[i] = IF InputId(ns', i) THEN default[i] ELSE None
             /\ cache'[i] = IF \E p \in Path : i \in OutputIds(ns', p) THEN cache[i] ELSE None
             /\ default[i] \in Value \cup {None} /\ cache[i] \in Value \cup {None}
  BY <1>1, ForgetFacts DEF TypeInv, Stocked, Filing
<1>3. default' = [i \in SlotId |-> default'[i]] /\ cache' = [i \in SlotId |-> cache'[i]]
  <2> DEFINE inputs == UNION {IdsOf(ns'.slots["in"][p]) : p \in Path}
             outputs == UNION {IdsOf(ns'.slots["out"][p]) : p \in Path}
  <2>1. /\ default' = [j \in SlotId |-> IF j \in inputs THEN default[j] ELSE None]
        /\ cache' = [j \in SlotId |-> IF j \in outputs THEN cache[j] ELSE None]
    BY <1>1 DEF Forget
  <2> HIDE DEF inputs, outputs
  <2> QED
    BY <2>1
<1>4. default' \in Filing /\ cache' \in Filing
  <2>1. \A i \in SlotId : default'[i] \in Value \cup {None} /\ cache'[i] \in Value \cup {None}
    BY <1>2
  <2> QED
    BY <1>3, <2>1 DEF Filing
<1>5. data' \in [Path -> Data]
  BY <1>1, EngineAssumption DEF Forget, TypeInv
<1>6. DOMAIN shown'.out = Path /\ DOMAIN shown'.edge = EdgeId
  BY <1>1 DEF Forget, Kept
<1>7. /\ (Good(ns) /\ Shaped(ns))'
      /\ (default \in Filing /\ \A i \in SlotId : default[i] # None => InputId(ns, i))'
      /\ (Stocked(ns, cache))'
      /\ (DOMAIN shown.out = Path /\ DOMAIN shown.edge = EdgeId)'
  BY <1>1, <1>2, <1>4, <1>6 DEF Stocked
<1> QED
  BY <1>5, <1>7 DEF TypeInv

(* Marking nodes moves no slot.                                            *)
LEMMA MarkingKeepsTypes ==
  ASSUME TypeInv, NEW C \in SUBSET Path, ns' = [ns EXCEPT !.changed = C]
  PROVE  /\ Good(ns') /\ Shaped(ns')
         /\ \A i \in SlotId : InputId(ns', i) <=> InputId(ns, i)
         /\ \A c : Stocked(ns', c) <=> Stocked(ns, c)
<1>1. Good(ns') /\ ns'.nodes = ns.nodes /\ ns'.slots = ns.slots
  BY MarkingIsGood DEF TypeInv
<1>2. Shaped(ns')
  BY <1>1 DEF TypeInv, Shaped
<1>3. \A i \in SlotId : InputId(ns', i) <=> InputId(ns, i)
  BY <1>1 DEF InputId
<1>4. \A c : Stocked(ns', c) <=> Stocked(ns, c)
  BY <1>1 DEF Stocked, OutputIds
<1> QED
  BY <1>1, <1>2, <1>3, <1>4

LEMMA SettingKeepsTypes ==
  ASSUME TypeInv, SetStep
  PROVE  TypeInv'
<1>1. ns \in States /\ ns.changed \in SUBSET Path
  BY DEF TypeInv, Good, Sound, States
<1>2. ASSUME NEW p \in Path, NEW d \in Data, UpdateNodeData(p, d)
      PROVE  TypeInv'
  <2> DEFINE C == ns.changed \cup {p}
  <2>1. ns' = [ns EXCEPT !.changed = C] /\ C \in SUBSET Path /\ data' = [data EXCEPT ![p] = d]
        /\ default' = default /\ cache' = cache /\ shown' = shown
    BY <1>1, <1>2 DEF UpdateNodeData
  <2> HIDE DEF C
  <2>2. /\ Good(ns') /\ Shaped(ns') /\ Stocked(ns', cache)
        /\ \A i \in SlotId : InputId(ns', i) <=> InputId(ns, i)
    BY <2>1, MarkingKeepsTypes DEF TypeInv
  <2>3. data' \in [Path -> Data]
    BY <2>1 DEF TypeInv
  <2>4. /\ (Good(ns) /\ Shaped(ns))'
        /\ (default \in Filing /\ \A i \in SlotId : default[i] # None => InputId(ns, i))'
        /\ (Stocked(ns, cache))'
        /\ (DOMAIN shown.out = Path /\ DOMAIN shown.edge = EdgeId)'
    BY <2>1, <2>2 DEF TypeInv
  <2> QED
    BY <2>3, <2>4 DEF TypeInv
<1>3. ASSUME NEW p \in Path, NEW i \in Nat, NEW v \in Value \cup {None}, SetDefault(p, i, v)
      PROVE  TypeInv'
  <2> DEFINE C == ns.changed \cup Mirrored(p)
             set(j) == \E q \in Mirrored(p) : ns.slots["in"][q][i].id = j
  <2>1. ns' = [ns EXCEPT !.changed = C] /\ C \in SUBSET Path
        /\ data' = data /\ cache' = cache /\ shown' = shown
        /\ default' = [j \in SlotId |-> IF set(j) THEN v ELSE default[j]]
        /\ \A q \in Mirrored(p) : q \in Path /\ i \in DOMAIN ns.slots["in"][q]
    BY <1>1, <1>3, MirroredIsPaths DEF SetDefault, HasSlot
  <2> HIDE DEF C
  <2>2. /\ Good(ns') /\ Shaped(ns') /\ Stocked(ns', cache)
        /\ \A j \in SlotId : InputId(ns', j) <=> InputId(ns, j)
    BY <2>1, MarkingKeepsTypes DEF TypeInv
  <2>3. \A j \in SlotId : set(j) => InputId(ns, j)
    BY <2>1 DEF InputId, IdsOf
  <2> HIDE DEF set
  <2>4. default' \in Filing
    BY <2>1 DEF TypeInv, Filing
  <2>5. \A j \in SlotId : default'[j] # None => InputId(ns', j)
    BY <2>1, <2>2, <2>3 DEF TypeInv
  <2>6. /\ (Good(ns) /\ Shaped(ns))' /\ (data \in [Path -> Data])'
        /\ (default \in Filing /\ \A j \in SlotId : default[j] # None => InputId(ns, j))'
        /\ (Stocked(ns, cache))'
        /\ (DOMAIN shown.out = Path /\ DOMAIN shown.edge = EdgeId)'
    BY <2>1, <2>2, <2>4, <2>5 DEF TypeInv
  <2> QED
    BY <2>6 DEF TypeInv
<1> QED
  BY <1>1, <1>2, <1>3, SettingKinds

LEMMA ExecutingKeepsTypes ==
  ASSUME RunsAreTyped, TypeInv, NEW F, Execute(F)
  PROVE  TypeInv'
<1> DEFINE t == Pass(ns, cache, default, F)
           C == t.failed
<1>1. ns' = [ns EXCEPT !.changed = C] /\ F \subseteq ns.nodes /\ data' = data /\ default' = default
      /\ cache' = t.cache /\ shown' = Fold(ns, t.cache, default, t.ran)
  BY DEF Execute
<1>2. C \in SUBSET Path
  BY <1>1, PassStaysInPlan DEF TypeInv, Good, Sound, States
<1>3. Stocked(ns, t.cache)
  BY PassStocks DEF TypeInv
<1> HIDE DEF t, C
<1>4. /\ Good(ns') /\ Shaped(ns') /\ Stocked(ns', cache')
      /\ \A i \in SlotId : InputId(ns', i) <=> InputId(ns, i)
  BY <1>1, <1>2, <1>3, MarkingKeepsTypes
<1>5. DOMAIN shown'.out = Path /\ DOMAIN shown'.edge = EdgeId
  BY <1>1 DEF Fold
<1>6. /\ (Good(ns) /\ Shaped(ns))' /\ (data \in [Path -> Data])'
      /\ (default \in Filing /\ \A i \in SlotId : default[i] # None => InputId(ns, i))'
      /\ (Stocked(ns, cache))'
      /\ (DOMAIN shown.out = Path /\ DOMAIN shown.edge = EdgeId)'
  BY <1>1, <1>4, <1>5 DEF TypeInv
<1> QED
  BY <1>6 DEF TypeInv

LEMMA TypeStep ==
  ASSUME ProxiesAreKept, RunsAreTyped, TypeInv, [EngineNext]_engine
  PROVE  TypeInv'
<1>1. CASE Restructure \/ Rewire
  BY <1>1, EditsKeepTypes
<1>2. CASE SetStep
  BY <1>2, SettingKeepsTypes
<1>3. CASE ExecuteStep
  BY <1>3, ExecutingKeepsTypes DEF ExecuteStep
<1>4. CASE UNCHANGED engine
  <2>1. ns' = ns /\ data' = data /\ default' = default /\ cache' = cache /\ shown' = shown
    BY <1>4 DEF engine
  <2>2. /\ (Good(ns) /\ Shaped(ns))' /\ (data \in [Path -> Data])'
        /\ (default \in Filing /\ \A i \in SlotId : default[i] # None => InputId(ns, i))'
        /\ (Stocked(ns, cache))'
        /\ (DOMAIN shown.out = Path /\ DOMAIN shown.edge = EdgeId)'
    BY <2>1 DEF TypeInv
  <2> QED
    BY <2>2 DEF TypeInv
<1> QED
  BY <1>1, <1>2, <1>3, <1>4 DEF EngineNext, EditStep

LEMMA TypeInit ==
  ASSUME EngineInit
  PROVE  TypeInv
<1>1. /\ Good(ns) /\ ns.nodes = {} /\ \A d \in Side : \A p \in Path : ns.slots[d][p] = <<>>
      /\ data = [p \in Path |-> DefaultData]
      /\ default = [i \in SlotId |-> None] /\ cache = [i \in SlotId |-> None]
      /\ shown = [out |-> [p \in Path |-> Absent], edge |-> [e \in EdgeId |-> Absent]]
  BY GoodInit DEF EngineInit, Init, IInv
<1>2. Shaped(ns)
  <2>1. \A g \in SubGraph, d \in Side : Proxy[g][d] \notin ns.nodes /\ g \notin ns.nodes
    BY <1>1
  <2> QED
    BY <1>1, <2>1 DEF Shaped
<1>3. data \in [Path -> Data]
  BY <1>1, EngineAssumption
<1>4. default \in Filing /\ cache \in Filing
  BY <1>1 DEF Filing
<1>5. Stocked(ns, cache)
  BY <1>1, <1>4 DEF Stocked
<1>6. DOMAIN shown.out = Path /\ DOMAIN shown.edge = EdgeId
  BY <1>1
<1> QED
  BY <1>1, <1>2, <1>3, <1>4, <1>5, <1>6 DEF TypeInv

(* Values, defaults and data are of their kinds, and none stays filed      *)
(* under the slot of a node that is gone: ids are not reused, so what a    *)
(* removal left there would stay for ever.                                 *)
THEOREM EngineIsTyped ==
  ASSUME ProxiesAreKept, RunsAreTyped
  PROVE  EngineSpec => []EngineTypeOK
<1>1. TypeInv => EngineTypeOK
  <2> SUFFICES ASSUME TypeInv
               PROVE  EngineTypeOK
    OBVIOUS
  <2>1. \A p \in Path, d \in Side : ns.slots[d][p] # <<>> => p \in ns.nodes
    BY DEF TypeInv, Shaped
  <2>2. \A p \in Path, d \in Side : \A i \in IdsOf(ns.slots[d][p]) : p \in ns.nodes
    <3>1. IdsOf(<<>>) = {}
      BY DEF IdsOf
    <3> QED
      BY <2>1, <3>1
  <2>3. \A i \in SlotId : cache[i] # None => \E p \in ns.nodes : i \in OutputIds(ns, p)
    BY <2>2 DEF TypeInv, Stocked, OutputIds, Side
  <2>4. \A i \in SlotId : default[i] # None => \E p \in ns.nodes : i \in IdsOf(ns.slots["in"][p])
    BY <2>2 DEF TypeInv, InputId, Side
  <2> QED
    BY <2>3, <2>4 DEF EngineTypeOK, TypeInv, Stocked, Filing
<1>2. EngineInit => TypeInv
  BY TypeInit
<1>3. TypeInv /\ [EngineNext]_engine => TypeInv'
  BY TypeStep
<1> QED
  BY <1>1, <1>2, <1>3, PTL DEF EngineSpec

=============================================================================
