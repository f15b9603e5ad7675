----------------------------- MODULE MemoProofs -----------------------------
(* The promise is worth making: for every graph and every computation, what *)
(* is owed nothing is up to date.                                           *)
EXTENDS Memo, TLAPS

(* What the argument needs of the types: names are nodes, and a connection  *)
(* leads from a node.                                                       *)
Shape ==
  /\ live \subseteq Node /\ owed \subseteq live
  /\ cache \in [Node -> Value \cup {NoValue}]

LEMMA SameReads ==
  ASSUME NEW n \in Node,
         data'[n] = data[n], conn'[n] = conn[n], cache'[n] = cache[n],
         \A m \in SourcesOf(n) : cache'[m] = cache[m],
         Fresh(n)
  PROVE  Fresh(n)'
<1>1. \A i \in DOMAIN conn[n] : cache'[conn[n][i]] = cache[conn[n][i]]
  BY DEF SourcesOf
<1>2. Delivered(n)' = Delivered(n)
  BY <1>1 DEF Delivered
<1> QED
  BY <1>2 DEF Fresh

LEMMA EditKeeps ==
  ASSUME Shape, OwedIfStale, Edit
  PROVE  OwedIfStale'
<1> SUFFICES ASSUME NEW n \in live', n \notin owed'
             PROVE  Fresh(n)'
  BY DEF OwedIfStale
<1>1. /\ n \in Node /\ n \in live
      /\ data'[n] = data[n] /\ conn'[n] = conn[n]
      /\ \A m \in SourcesOf(n) : cache'[m] = cache[m]
  BY DEF Edit
<1>2. n \notin owed /\ cache'[n] = cache[n]
  BY <1>1 DEF Edit
<1>3. Fresh(n)
  BY <1>1, <1>2 DEF OwedIfStale
<1> QED
  BY <1>1, <1>2, <1>3, SameReads

LEMMA RunKeeps ==
  ASSUME Shape, OwedIfStale, NEW k \in Node, Run(k)
  PROVE  OwedIfStale'
<1> SUFFICES ASSUME NEW n \in live, n \notin owed'
             PROVE  Fresh(n)'
  BY DEF OwedIfStale, Run
<1>1. CASE n = k
  BY <1>1 DEF Run
<1>2. CASE n # k
  <2>1. n \in Node /\ n \notin owed /\ Fresh(n)
    BY <1>2 DEF Shape, OwedIfStale, Run
  <2>2. \A m \in Node : m # k => cache'[m] = cache[m]
    BY DEF Shape, Run
  <2>3. k \in SourcesOf(n) => cache'[k] = cache[k]
    BY DEF Run
  <2>4. \A i \in DOMAIN conn[n] : cache'[conn[n][i]] = cache[conn[n][i]]
    <3>1. SUFFICES ASSUME NEW i \in DOMAIN conn[n]
                   PROVE  cache'[conn[n][i]] = cache[conn[n][i]]
      OBVIOUS
    <3>2. conn[n][i] \in SourcesOf(n)
      BY DEF SourcesOf
    <3>3. CASE conn[n][i] = k
      BY <3>2, <3>3, <2>3
    <3>4. CASE conn[n][i] # k
      BY <3>4 DEF Shape, Run
    <3> QED
      BY <3>3, <3>4
  <2>5. \A m \in SourcesOf(n) : cache'[m] = cache[m]
    BY <2>4 DEF SourcesOf
  <2> QED
    BY <2>1, <2>2, <2>5, <1>2, SameReads DEF Run
<1> QED
  BY <1>1, <1>2

LEMMA ShapeStep ==
  ASSUME Shape, [Next]_memo
  PROVE  Shape'
<1>1. CASE Edit
  BY <1>1 DEF Edit, Shape
<1>2. ASSUME NEW n \in Node, Run(n)
      PROVE  Shape'
  BY <1>2 DEF Run, Shape
<1>3. CASE UNCHANGED memo
  BY <1>3 DEF memo, Shape
<1> QED
  BY <1>1, <1>2, <1>3 DEF Next

(* In every system that keeps the promise, whatever its plan and the order  *)
(* of its runs, a live node that is owed nothing has in the cache what a    *)
(* run of it would write.                                                   *)
THEOREM OnlyOwedNodesAreStale == Spec => []OwedIfStale
<1>1. Init => Shape /\ OwedIfStale
  BY DEF Init, Shape, OwedIfStale
<1>2. Shape /\ OwedIfStale /\ [Next]_memo => Shape' /\ OwedIfStale'
  <2> SUFFICES ASSUME Shape, OwedIfStale, [Next]_memo
               PROVE  OwedIfStale'
    BY ShapeStep
  <2>1. CASE UNCHANGED memo
    BY <2>1 DEF memo, OwedIfStale, Fresh, Delivered
  <2> QED
    BY <2>1, EditKeeps, RunKeeps DEF Next
<1> QED
  BY <1>1, <1>2, PTL DEF Spec
=============================================================================
