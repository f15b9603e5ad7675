-------------------------- MODULE LifecycleProofs --------------------------
(***************************************************************************)
(* Lifecycle: the tables follow the nodes, the errors and the consumer     *)
(* too, and keys are kept, whatever is made over what.  A node may be made *)
(* over a live one here, which leaves owners and edges of its old slots    *)
(* behind: of NodeStates' own invariant only Standing is left, and for     *)
(* these theorems it is enough.                                            *)
(***************************************************************************)
EXTENDS Lifecycle, NodeStatesProofs

(* What every step keeps of the tables of NodeStates.                      *)
Standing(s) ==
  /\ s \in States
  /\ \A p \in Path \ s.nodes : \A d \in Side : s.slots[d][p] = <<>>
  /\ \A e \in EdgesOf(s) : s.edges[e]["in"].node \in s.nodes

KeysAreKept == registry \cap OwnedName \subseteq leaked /\ (saved \in OwnedName => saved \in leaked)

(* What is dirty is there, or is gone and yet to be reported, unless the   *)
(* report was lost.                                                        *)
Pending == Leaves(ns.changed) \subseteq Live \cup removed \cup lost

LInv ==
  /\ Standing(ns) /\ LifecycleTypeOK /\ TablesAgree /\ KeysAreKept
  /\ ErrorsAreOfLiveNodes /\ ConsumerIsCurrent /\ Pending

-----------------------------------------------------------------------------
(* Walks.                                                                  *)

(* The walk over the path index stays among the paths.                     *)
LEMMA WalkIsAmongPaths ==
  ASSUME NEW p \in Path
  PROVE  Walk(p) \in SUBSET Path
<1> DEFINE more(P) == {q \in Path : Parent[q] \in P /\ Leaf[q] \in children[Parent[q]]}
           F == [P \in SUBSET Path |-> P \cup more(P)]
<1>1. \A P \in SUBSET Path : F[P] \in SUBSET Path
  OBVIOUS
<1>2. Walk(p) = Iterate(F, {p}, Cardinality(Path))
  BY DEF Walk
<1> HIDE DEF F
<1>3. Cardinality(Path) \in Nat
  BY FiniteAssumption, FS_CardinalityType
<1>4. {p} \in SUBSET Path
  OBVIOUS
<1>5. \A n \in Nat : Iterate(F, {p}, n) \in SUBSET Path
  BY <1>1, <1>4, IterateKeeps
<1> QED
  BY <1>2, <1>3, <1>5

(* What is planned is dirty, or fed by an edge.                            *)
LEMMA PlannedAreThere ==
  ASSUME Standing(ns)
  PROVE  Planned \subseteq ns.changed \cup ns.nodes
<1> DEFINE F == [P \in SUBSET Path |-> P \cup Successors(ns, P)]
           Y == ns.changed \cup ns.nodes
<1>1. Y \in SUBSET Path /\ ns.changed \in SUBSET Path
  BY DEF Standing, States
<1>2. \A P : Successors(ns, P) \subseteq ns.nodes
  BY DEF Successors, Standing
<1>3. \A P \in SUBSET Y : F[P] \in SUBSET Y
  BY <1>1, <1>2
<1>4. Planned = Iterate(F, ns.changed, Cardinality(Path))
  BY DEF Planned, Downstream
<1> HIDE DEF F
<1>5. Cardinality(Path) \in Nat
  BY FiniteAssumption, FS_CardinalityType
<1>6. ns.changed \in SUBSET Y
  OBVIOUS
<1> HIDE DEF Y
<1>7. \A n \in Nat : Iterate(F, ns.changed, n) \in SUBSET Y
  BY <1>3, <1>6, IterateKeeps
<1>8. Planned \in SUBSET Y
  BY <1>4, <1>5, <1>7
<1> QED
  BY <1>8 DEF Y

-----------------------------------------------------------------------------
(* What the methods of NodeStates keep.                                    *)

(* A node made at p, over whatever was there.                              *)
LEMMA AddNodeFacts ==
  ASSUME NEW s \in States, NEW p \in Path,
         \A d \in Side : Cardinality(Unused(s, d, p)) >= Len(Defs[p][d]),
         NEW t, t = AddNode(s, p)
  PROVE  /\ t \in States /\ t.nodes = s.nodes \cup {p} /\ t.changed = s.changed \cup {p}
         /\ t.edges = s.edges
         /\ \A d \in Side : \A q \in Path : q # p => t.slots[d][q] = s.slots[d][q]
         /\ \A d \in Side : \A k \in DOMAIN t.slots[d][p] : s.owner[d][t.slots[d][p][k].id] = None
<1> DEFINE u == Fill(s, "in", p)
           v == Fill(u, "out", p)
<1>1. "in" \in Side /\ "out" \in Side /\ "in" # "out" /\ \A d \in Side : d = "in" \/ d = "out"
  BY DEF Side
<1>2. Filled(s, u, "in", p)
  BY <1>1, FillFacts
<1>3. t = [v EXCEPT !.nodes = v.nodes \cup {p}, !.changed = v.changed \cup {p}]
  BY DEF AddNode
<1> HIDE DEF u
<1>4. /\ u \in States /\ u.nodes = s.nodes /\ u.conn = s.conn /\ u.changed = s.changed
      /\ u.edges = s.edges /\ u.owner["out"] = s.owner["out"]
      /\ \A q \in Path : u.slots["out"][q] = s.slots["out"][q]
      /\ \A q \in Path : q # p => u.slots["in"][q] = s.slots["in"][q]
      /\ \A k \in DOMAIN u.slots["in"][p] : s.owner["in"][u.slots["in"][p][k].id] = None
  BY <1>1, <1>2 DEF Filled, OneTable
<1>5. Unused(u, "out", p) = Unused(s, "out", p)
  <2>1. EdgesOf(u) = EdgesOf(s)
    BY <1>4 DEF EdgesOf
  <2> QED
    BY <1>4, <2>1 DEF Unused
<1>6. Filled(u, v, "out", p)
  BY <1>1, <1>4, <1>5, FillFacts
<1> HIDE DEF v
<1>7. /\ v \in States /\ v.nodes = u.nodes /\ v.changed = u.changed /\ v.edges = u.edges
      /\ \A q \in Path : v.slots["in"][q] = u.slots["in"][q]
      /\ \A q \in Path : q # p => v.slots["out"][q] = u.slots["out"][q]
      /\ \A k \in DOMAIN v.slots["out"][p] : u.owner["out"][v.slots["out"][p][k].id] = None
  BY <1>1, <1>6 DEF Filled, OneTable
<1>8. /\ t \in States /\ t.nodes = v.nodes \cup {p} /\ t.changed = v.changed \cup {p}
      /\ t.edges = v.edges /\ t.slots = v.slots
  <2>1. v \in States /\ v.nodes \cup {p} \in SUBSET Path /\ v.changed \cup {p} \in SUBSET Path
    BY <1>7 DEF States
  <2> QED
    BY <1>3, <2>1 DEF States
<1> QED
  BY <1>1, <1>4, <1>7, <1>8, SMTT(60)

(* From s to t the nodes of P are added, and marked.                       *)
Added(s, t, P) ==
  Standing(t) /\ t.nodes = s.nodes \cup P /\ t.changed = s.changed \cup P

LEMMA AddNodeAdds ==
  ASSUME NEW s, Standing(s), NEW p \in Path,
         \A d \in Side : Cardinality(Unused(s, d, p)) >= Len(Defs[p][d])
  PROVE  Added(s, AddNode(s, p), {p})
<1> DEFINE t == AddNode(s, p)
<1>1. /\ t \in States /\ t.nodes = s.nodes \cup {p} /\ t.changed = s.changed \cup {p}
      /\ t.edges = s.edges
      /\ \A d \in Side : \A q \in Path : q # p => t.slots[d][q] = s.slots[d][q]
  BY AddNodeFacts DEF Standing
<1> HIDE DEF t
<1>2. \A e \in EdgesOf(t) : e \in EdgesOf(s) /\ t.edges[e]["in"].node \in t.nodes
  BY <1>1 DEF EdgesOf, Standing
<1> QED
  BY <1>1, <1>2 DEF Added, Standing, t

LEMMA AddPortlessNode ==
  ASSUME NEW s, Standing(s), NEW p \in SubGraph \cup Interface
  PROVE  Added(s, AddNode(s, p), {p})
<1>1. p \in Path /\ \A d \in Side : Defs[p][d] = <<>>
  BY PathAssumption, PortDefsAssumption
<1>2. \A d \in Side : Cardinality(Unused(s, d, p)) >= Len(Defs[p][d])
  <2>1. \A d \in Side : Cardinality(Unused(s, d, p)) \in Nat
    BY <1>1, UnusedFacts
  <2>2. Len(<<>>) = 0
    OBVIOUS
  <2> QED
    BY <1>1, <2>1, <2>2
<1> QED
  BY <1>1, <1>2, AddNodeAdds

LEMMA AddSubGraphAdds ==
  ASSUME Standing(ns), NEW g \in SubGraph, CreateSubGraph(g)
  PROVE  Added(ns, ns', {g} \cup {Proxy[g][d] : d \in Side})
<1> DEFINE a == Proxy[g]["in"]
           b == Proxy[g]["out"]
           t == AddNode(ns, g)
           u == AddNode(t, a)
<1>1. a \in Interface /\ b \in Interface
  BY PathAssumption DEF Side
<1>2. ns' = AddNode(u, b)
  BY DEF CreateSubGraph
<1>3. {g} \cup {Proxy[g][d] : d \in Side} = {g, a, b}
  BY DEF Side
<1> HIDE DEF a, b
<1>4. Added(ns, t, {g})
  BY AddPortlessNode
<1> HIDE DEF t
<1>5. Added(t, u, {a})
  BY <1>1, <1>4, AddPortlessNode DEF Added
<1> HIDE DEF u
<1>6. Added(u, ns', {b})
  BY <1>1, <1>2, <1>5, AddPortlessNode DEF Added
<1>7. Added(ns, ns', {g, a, b})
  BY <1>4, <1>5, <1>6 DEF Added
<1> QED
  BY <1>3, <1>7

(* From s to t the nodes of P are gone; what they fed is marked.           *)
Taken(s, t, P) ==
  /\ Standing(t) /\ t.nodes = s.nodes \ P
  /\ s.changed \subseteq t.changed /\ t.changed \subseteq s.changed \cup s.nodes

LEMMA RemoveNodesTakes ==
  ASSUME NEW s, Standing(s), NEW P \in SUBSET Path
  PROVE  Taken(s, RemoveNodes(s, P), P)
<1> DEFINE t == RemoveNodes(s, P)
           u == RemoveEdges(s, {e \in EdgesOf(s) : \E d \in Side : s.edges[e][d].node \in P})
<1>1. s \in States
  BY DEF Standing
<1> HIDE DEF u
<1>2. /\ t \in States /\ t.nodes = s.nodes \ P /\ t.changed = u.changed
      /\ \A d \in Side : \A p \in Path : t.slots[d][p] = IF p \in P THEN <<>> ELSE s.slots[d][p]
      /\ EdgesOf(t) \subseteq EdgesOf(s)
      /\ \A e \in EdgesOf(t) :
           t.edges[e] = s.edges[e] /\ \A d \in Side : t.edges[e][d].node \notin P
      /\ t.changed \subseteq s.changed \cup {s.edges[e]["in"].node : e \in EdgesOf(s)}
  <2>1. PICK r : r = t
    OBVIOUS
  <2>2. r = RemoveNodes(s, P)
    BY <2>1
  <2> HIDE DEF t
  <2> USE DEF u
  <2>3. /\ r \in States /\ r.nodes = s.nodes \ P /\ r.changed = u.changed
        /\ \A d \in Side : \A p \in Path : r.slots[d][p] = IF p \in P THEN <<>> ELSE s.slots[d][p]
        /\ EdgesOf(r) \subseteq EdgesOf(s)
        /\ \A e \in EdgesOf(r) :
             r.edges[e] = s.edges[e] /\ \A d \in Side : r.edges[e][d].node \notin P
        /\ r.changed \subseteq s.changed \cup {s.edges[e]["in"].node : e \in EdgesOf(s)}
    BY <1>1, <2>2, RemoveNodesFacts, SMTT(60)
  <2> QED
    BY <2>1, <2>3
<1>3. s.changed \subseteq u.changed
  BY <1>1, RemoveEdgesFacts DEF u
<1> HIDE DEF t
<1>4. \A p \in Path \ t.nodes : \A d \in Side : t.slots[d][p] = <<>>
  BY <1>2 DEF Standing
<1>5. \A e \in EdgesOf(t) : t.edges[e]["in"].node \in t.nodes
  BY <1>2 DEF Standing, Side
<1>6. t.changed \subseteq s.changed \cup s.nodes
  BY <1>2 DEF Standing
<1> QED
  BY <1>2, <1>3, <1>4, <1>5, <1>6 DEF Taken, Standing, t

(* From s to t the nodes are the same, and more of them are marked.        *)
Rewired(s, t) ==
  /\ Standing(t) /\ t.nodes = s.nodes
  /\ s.changed \subseteq t.changed /\ t.changed \subseteq s.changed \cup s.nodes

LEMMA DisconnectRewires ==
  ASSUME Standing(ns), NEW e \in EdgeId, Disconnect(e)
  PROVE  Rewired(ns, ns')
<1>1. ns \in States /\ ns' = RemoveEdges(ns, {e})
  BY DEF Standing, Disconnect
<1>2. /\ ns' \in States /\ ns'.nodes = ns.nodes /\ ns'.slots = ns.slots
      /\ EdgesOf(ns') \subseteq EdgesOf(ns)
      /\ \A f \in EdgesOf(ns') : ns'.edges[f] = ns.edges[f]
      /\ ns'.changed = ns.changed \cup {ns.edges[f]["in"].node : f \in {e} \cap EdgesOf(ns)}
  BY <1>1, RemoveEdgesFacts
<1>3. ns'.changed \subseteq ns.changed \cup ns.nodes
  BY <1>2 DEF Standing
<1> QED
  BY <1>2, <1>3 DEF Standing, Rewired

(* The end that add_edge_with_id files is one.                             *)
LEMMA FiledEnd ==
  ASSUME NEW s \in States, s = ns, NEW d \in Side, NEW a \in s.nodes, NEW i, HasSlot(s, d, a, i)
  PROVE  Endpoint(d, a, i) \in End /\ Endpoint(d, a, i).node = a
<1>1. a \in Path /\ s.slots[d][a] \in Seq(Slot)
  BY DEF States
<1>2. i \in Nat \ {0} /\ s.slots[d][a][i] \in Slot
  BY <1>1 DEF HasSlot
<1>3. s.slots[d][a][i].id \in SlotId
  BY <1>2 DEF Slot
<1> QED
  BY <1>1, <1>2, <1>3 DEF Endpoint, End

LEMMA ConnectRewires ==
  ASSUME Standing(ns), NEW e \in EdgeId, NEW p, NEW q, NEW i, NEW j, Connect(e, p, i, q, j)
  PROVE  Rewired(ns, ns')
<1> DEFINE x == [d \in Side |-> IF d = "out" THEN Endpoint(d, p, i) ELSE Endpoint(d, q, j)]
           y == [d \in Side |-> Retargeted(d, x[d])]
           a == Retarget("out", p)
           b == Retarget("in", q)
<1>1. "in" \in Side /\ "out" \in Side /\ "in" # "out" /\ \A d \in Side : d = "in" \/ d = "out"
  BY DEF Side
<1>2. x["out"] = Endpoint("out", p, i) /\ x["in"] = Endpoint("in", q, j)
  BY <1>1
<1>3. InsertEdge(e, x)
  BY DEF Connect
<1> HIDE DEF x
<1>4. /\ x["out"].node = p /\ x["out"].index = i
      /\ x["in"].node = q /\ x["in"].index = j
  BY <1>2 DEF Endpoint
<1>5. y["out"] = Retargeted("out", x["out"]) /\ y["in"] = Retargeted("in", x["in"])
  BY <1>1
<1>6. y["out"] = Endpoint("out", a, i) /\ y["in"] = Endpoint("in", b, j)
  BY <1>2, <1>5, RetargetedEnd
<1>7. \A d \in Side : Retarget(d, x[d].node) \in ns.nodes
                      /\ HasSlot(ns, d, Retarget(d, x[d].node), x[d].index)
  BY <1>3 DEF InsertEdge
<1>8. a \in ns.nodes /\ HasSlot(ns, "out", a, i) /\ b \in ns.nodes /\ HasSlot(ns, "in", b, j)
  BY <1>1, <1>4, <1>7
<1>9. ns.edges[e] = None /\ ns' = AddEdge(ns, e, y)
  BY <1>3 DEF InsertEdge
<1>10. y = [d \in Side |-> y[d]]
  OBVIOUS
<1> HIDE DEF y, a, b
<1>11. ns \in States
  BY DEF Standing
<1>12. y["out"] \in End /\ y["in"] \in End /\ y["in"].node = b
  BY <1>1, <1>6, <1>8, <1>11, FiledEnd
<1>13. y \in Edge
  BY <1>1, <1>10, <1>12 DEF Edge
<1>14. /\ ns' \in States /\ ns'.nodes = ns.nodes /\ ns'.slots = ns.slots
       /\ EdgesOf(ns') = EdgesOf(ns) \cup {e}
       /\ ns'.edges[e] = y /\ \A f \in EdgesOf(ns) : ns'.edges[f] = ns.edges[f]
       /\ ns'.changed = ns.changed \cup {y["in"].node}
  BY <1>9, <1>11, <1>13, AddEdgeFacts
<1>15. \A f \in EdgesOf(ns') : ns'.edges[f]["in"].node \in ns'.nodes
  BY <1>8, <1>12, <1>14 DEF Standing
<1> QED
  BY <1>8, <1>12, <1>14, <1>15 DEF Standing, Rewired

-----------------------------------------------------------------------------
(* The leaves of sets of paths.                                            *)

LEMMA LeavesFacts ==
  /\ \A P, Q : Leaves(P \cup Q) = Leaves(P) \cup Leaves(Q)
  /\ \A P, Q : P \subseteq Q => Leaves(P) \subseteq Leaves(Q)
  /\ \A P : \A p \in P : Leaf[p] \in Leaves(P)
  /\ \A p : Leaves({p}) = {Leaf[p]}
  /\ Leaves({}) = {}
BY DEF Leaves

(* Siblings differ in their leaves, so that each can be taken alone.       *)
LEMMA LeavesOfSiblings ==
  ASSUME NEW N \in SUBSET Path, NEW P \in SUBSET Path, NEW q
  PROVE  Leaves(Below(q, N \ P)) = Leaves(Below(q, N)) \ Leaves(Below(q, P))
<1>1. ASSUME NEW l \in Leaves(Below(q, N \ P))
      PROVE  l \in Leaves(Below(q, N)) \ Leaves(Below(q, P))
  <2>1. PICK p \in N \ P : Parent[p] = q /\ l = Leaf[p]
    BY DEF Leaves, Below
  <2>2. ASSUME NEW a \in P, Parent[a] = q, l = Leaf[a]
        PROVE  FALSE
    <3>1. a = p
      BY <2>1, <2>2, LifecycleAssumption
    <3> QED
      BY <2>1, <3>1
  <2> QED
    BY <2>1, <2>2 DEF Leaves, Below
<1>2. ASSUME NEW l \in Leaves(Below(q, N)), l \notin Leaves(Below(q, P))
      PROVE  l \in Leaves(Below(q, N \ P))
  BY <1>2 DEF Leaves, Below
<1> QED
  BY <1>1, <1>2

LEMMA ParentsAreThere ==
  \A p \in Path : Parent[p] \in Parents
BY PathAssumption DEF Parents

-----------------------------------------------------------------------------
(* What the kinds of steps keep.                                           *)

LEMMA GrownKeeps ==
  ASSUME LInv, NEW P \in SUBSET Path, Added(ns, ns', P), entities' = entities \cup P,
         children' = [q \in Parents |-> children[q] \cup Leaves(Below(q, P))],
         UNCHANGED <<factories, books>>
  PROVE  LInv'
<1>1. /\ UNCHANGED <<registry, leaked, saved, errors, removed, known, lost>>
      /\ ns'.nodes = ns.nodes \cup P /\ ns'.changed = ns.changed \cup P /\ Standing(ns)'
      /\ ns.nodes \in SUBSET Path /\ ns.changed \in SUBSET Path
  BY DEF factories, told, books, Added, LInv, Standing, States
<1>2. Live' = Live \cup Leaves(P) /\ Leaves(ns.changed)' = Leaves(ns.changed) \cup Leaves(P)
  BY <1>1, LeavesFacts DEF Live
<1>3. LifecycleTypeOK'
  <2>1. \A q \in Parents :
          children[q] \cup Leaves(Below(q, P)) \in SUBSET Leaves(Path)
    <3>1. \A q \in Parents : children[q] \in SUBSET Leaves(Path)
      BY DEF LInv, LifecycleTypeOK
    <3>2. \A q \in Parents : Leaves(Below(q, P)) \in SUBSET Leaves(Path)
      BY LeavesFacts DEF Below
    <3> QED
      BY <3>1, <3>2
  <2>2. children' \in [Parents -> SUBSET Leaves(Path)]
    BY <2>1
  <2>3. entities' \subseteq Path
    BY DEF LInv, LifecycleTypeOK
  <2> QED
    BY <1>1, <2>2, <2>3 DEF LInv, LifecycleTypeOK
<1>4. TablesAgree'
  <2>1. entities' = ns'.nodes
    BY <1>1 DEF LInv, TablesAgree
  <2>2. ASSUME NEW q \in Parents
        PROVE  children'[q] = Leaves(Below(q, ns'.nodes))
    <3>1. children'[q] = children[q] \cup Leaves(Below(q, P))
      OBVIOUS
    <3>2. children[q] = Leaves(Below(q, ns.nodes))
      BY DEF LInv, TablesAgree
    <3>3. Below(q, ns'.nodes) = Below(q, ns.nodes) \cup Below(q, P)
      BY <1>1 DEF Below
    <3> QED
      BY <3>1, <3>2, <3>3, LeavesFacts
  <2> QED
    BY <2>1, <2>2 DEF TablesAgree
<1>5. KeysAreKept'
  BY <1>1 DEF LInv, KeysAreKept
<1>6. ErrorsAreOfLiveNodes'
  BY <1>1, <1>2 DEF LInv, ErrorsAreOfLiveNodes
<1>7. ConsumerIsCurrent'
  <2>1. known' \subseteq Live' \cup removed' \cup lost'
    BY <1>1, <1>2 DEF LInv, ConsumerIsCurrent
  <2>2. \A p \in ns'.nodes \ ns'.changed : Leaf[p] \in known'
    BY <1>1 DEF LInv, ConsumerIsCurrent
  <2> QED
    BY <2>1, <2>2 DEF ConsumerIsCurrent
<1>8. Pending'
  BY <1>1, <1>2 DEF LInv, Pending
<1> QED
  BY <1>1, <1>3, <1>4, <1>5, <1>6, <1>7, <1>8 DEF LInv

LEMMA ShrunkKeeps ==
  ASSUME LInv, NEW P \in SUBSET Path, Leave(P), ClearErrors(Leaves(P)), RecordRemoval(Leaves(P)),
         UNCHANGED <<factories, told>>
  PROVE  LInv'
<1>1. /\ UNCHANGED <<registry, leaked, saved, known, lost>>
      /\ ns' = RemoveNodes(ns, P) /\ entities' = entities \ P /\ children' = Unindexed(P)
      /\ removed' = removed \cup Leaves(P)
  BY DEF factories, told, Leave, RecordRemoval
<1>2. Taken(ns, ns', P) /\ ns.nodes \in SUBSET Path /\ ns.changed \in SUBSET Path
  BY <1>1, RemoveNodesTakes DEF LInv, Standing, States
<1>3. /\ Standing(ns)' /\ ns'.nodes = ns.nodes \ P /\ ns.changed \subseteq ns'.changed
      /\ ns'.changed \subseteq ns.changed \cup ns.nodes
  BY <1>2 DEF Taken
<1>4. Live \subseteq Live' \cup Leaves(P) /\ Leaves(ns.changed)' \subseteq Leaves(ns.changed) \cup Live
  <2>1. Leaves(ns.nodes) \subseteq Leaves(ns'.nodes \cup P)
    BY <1>3, LeavesFacts
  <2>2. Leaves(ns'.changed) \subseteq Leaves(ns.changed \cup ns.nodes)
    BY <1>3, LeavesFacts
  <2>3. Live' = Leaves(ns'.nodes) /\ Leaves(ns.changed)' = Leaves(ns'.changed)
    BY DEF Live
  <2> QED
    BY <2>1, <2>2, <2>3, LeavesFacts DEF Live
<1>5. /\ errors \in [node : SUBSET Leaves(Path), input : SUBSET Leaves(Path)]
      /\ errors' = [node |-> errors.node \ Leaves(P), input |-> errors.input \ Leaves(P)]
  BY DEF LInv, LifecycleTypeOK, ClearErrors
<1>6. LifecycleTypeOK'
  <2>1. \A q \in Parents : children[q] \in SUBSET Leaves(Path)
    BY DEF LInv, LifecycleTypeOK
  <2>2. children' \in [Parents -> SUBSET Leaves(Path)]
    BY <1>1, <2>1 DEF Unindexed
  <2>3. Leaves(P) \subseteq Leaves(Path)
    BY LeavesFacts
  <2>4. errors' \in [node : SUBSET Leaves(Path), input : SUBSET Leaves(Path)]
    BY <1>5
  <2>5. entities' \subseteq Path /\ removed' \subseteq Leaves(Path)
    BY <1>1, <2>3 DEF LInv, LifecycleTypeOK
  <2> QED
    BY <1>1, <2>2, <2>4, <2>5 DEF LInv, LifecycleTypeOK
<1>7. TablesAgree'
  <2>1. entities' = ns'.nodes
    BY <1>1, <1>3 DEF LInv, TablesAgree
  <2>2. ASSUME NEW q \in Parents
        PROVE  children'[q] = Leaves(Below(q, ns'.nodes))
    <3>1. children'[q] = children[q] \ Leaves(Below(q, P))
      BY <1>1 DEF Unindexed
    <3>2. children[q] = Leaves(Below(q, ns.nodes))
      BY DEF LInv, TablesAgree
    <3>3. Leaves(Below(q, ns.nodes \ P))
            = Leaves(Below(q, ns.nodes)) \ Leaves(Below(q, P))
      BY <1>2, LeavesOfSiblings
    <3> QED
      BY <1>3, <3>1, <3>2, <3>3
  <2> QED
    BY <2>1, <2>2 DEF TablesAgree
<1>8. KeysAreKept'
  BY <1>1 DEF LInv, KeysAreKept
<1>9. ErrorsAreOfLiveNodes'
  <2>1. errors'.node = errors.node \ Leaves(P) /\ errors'.input = errors.input \ Leaves(P)
    BY <1>5
  <2>2. errors.node \cup errors.input \subseteq Live
    BY DEF LInv, ErrorsAreOfLiveNodes
  <2> QED
    BY <1>4, <2>1, <2>2 DEF ErrorsAreOfLiveNodes
<1>10. ConsumerIsCurrent'
  <2>1. known' \subseteq Live' \cup removed' \cup lost'
    BY <1>1, <1>4 DEF LInv, ConsumerIsCurrent
  <2>2. \A p \in ns'.nodes \ ns'.changed : Leaf[p] \in known'
    BY <1>1, <1>3 DEF LInv, ConsumerIsCurrent
  <2> QED
    BY <2>1, <2>2 DEF ConsumerIsCurrent
<1>11. Pending'
  BY <1>1, <1>4 DEF LInv, Pending
<1> QED
  BY <1>3, <1>6, <1>7, <1>8, <1>9, <1>10, <1>11 DEF LInv

(* Edges come and go; an error is noted, or one forgotten.                 *)
LEMMA RewiredKeeps ==
  ASSUME LInv, Rewired(ns, ns'), UNCHANGED <<entities, children, factories, removed, told>>,
         NEW L \in SUBSET Live, NEW M,
         errors' = errors \/ errors' = [errors EXCEPT !.input = (@ \cup L) \ M]
  PROVE  LInv'
<1>1. /\ UNCHANGED <<registry, leaked, saved, known, lost, removed, entities, children>>
      /\ Standing(ns)' /\ ns'.nodes = ns.nodes /\ ns.changed \subseteq ns'.changed
      /\ ns'.changed \subseteq ns.changed \cup ns.nodes
  BY DEF factories, told, Rewired
<1>2. Live' = Live /\ Leaves(ns.changed)' \subseteq Leaves(ns.changed) \cup Live
  <2>1. Leaves(ns'.changed) \subseteq Leaves(ns.changed \cup ns.nodes)
    BY <1>1, LeavesFacts
  <2>2. Live' = Leaves(ns'.nodes) /\ Leaves(ns.changed)' = Leaves(ns'.changed)
    BY DEF Live
  <2> QED
    BY <1>1, <2>1, <2>2, LeavesFacts DEF Live
<1>3. Live \subseteq Leaves(Path)
  <2>1. ns.nodes \subseteq Path
    BY DEF LInv, Standing, States
  <2> QED
    BY <2>1, LeavesFacts DEF Live
<1>4. /\ errors' \in [node : SUBSET Leaves(Path), input : SUBSET Leaves(Path)]
      /\ errors'.node \cup errors'.input \subseteq errors.node \cup errors.input \cup Live
  <2>1. errors \in [node : SUBSET Leaves(Path), input : SUBSET Leaves(Path)]
    BY DEF LInv, LifecycleTypeOK
  <2> QED
    BY <1>3, <2>1
<1>5. LifecycleTypeOK'
  BY <1>1, <1>4 DEF LInv, LifecycleTypeOK
<1>6. TablesAgree'
  BY <1>1 DEF LInv, TablesAgree
<1>7. KeysAreKept'
  BY <1>1 DEF LInv, KeysAreKept
<1>8. ErrorsAreOfLiveNodes'
  BY <1>2, <1>4 DEF LInv, ErrorsAreOfLiveNodes
<1>9. ConsumerIsCurrent'
  <2>1. known' \subseteq Live' \cup removed' \cup lost'
    BY <1>1, <1>2 DEF LInv, ConsumerIsCurrent
  <2>2. \A p \in ns'.nodes \ ns'.changed : Leaf[p] \in known'
    BY <1>1 DEF LInv, ConsumerIsCurrent
  <2> QED
    BY <2>1, <2>2 DEF ConsumerIsCurrent
<1>10. Pending'
  BY <1>1, <1>2 DEF LInv, Pending
<1> QED
  BY <1>1, <1>5, <1>6, <1>7, <1>8, <1>9, <1>10 DEF LInv

-----------------------------------------------------------------------------
(* The invariant.                                                          *)

LEMMA LInitially == LifecycleInit => LInv
<1> SUFFICES ASSUME LifecycleInit
             PROVE  LInv
  OBVIOUS
<1>1. /\ ns.nodes = {} /\ ns.changed = {} /\ EdgesOf(ns) = {}
      /\ \A d \in Side : \A p \in Path : ns.slots[d][p] = <<>>
  BY DEF LifecycleInit, Init, EdgesOf
<1>2. ns \in States
  BY GoodInit DEF LifecycleInit, IInv, Good, Sound
<1>3. Standing(ns)
  BY <1>1, <1>2 DEF Standing
<1>4. Leaves({}) = {} /\ \A q : Below(q, {}) = {}
  BY DEF Leaves, Below
<1>5. Live = {}
  BY <1>1, <1>4 DEF Live
<1>6. LifecycleTypeOK
  BY DEF LifecycleInit, LifecycleTypeOK
<1>7. TablesAgree
  BY <1>1, <1>4 DEF LifecycleInit, TablesAgree
<1>8. KeysAreKept
  BY LifecycleAssumption DEF LifecycleInit, KeysAreKept
<1>9. ErrorsAreOfLiveNodes
  BY <1>5 DEF LifecycleInit, ErrorsAreOfLiveNodes
<1>10. ConsumerIsCurrent
  BY <1>1 DEF LifecycleInit, ConsumerIsCurrent
<1>11. Pending
  BY <1>1, <1>4 DEF Pending
<1> QED
  BY <1>3, <1>6, <1>7, <1>8, <1>9, <1>10, <1>11 DEF LInv

(* A name that is registered has a key, so that it can be put back; the    *)
(* key of a name built at run time is never let go.                        *)
LEMMA FactoryStepKeeps ==
  ASSUME LInv, FactoryStep
  PROVE  LInv'
<1>1. UNCHANGED <<ns, entities, children, errors, removed, known, lost>>
  BY DEF FactoryStep, Register, Unregister, Restore, vars, told, books
<1>2. /\ KeysAreKept'
      /\ registry' \subseteq Name /\ leaked' \subseteq OwnedName /\ saved' \in Name \cup {None}
  <2>1. /\ registry \subseteq Name /\ leaked \subseteq OwnedName /\ saved \in Name \cup {None}
        /\ registry \cap OwnedName \subseteq leaked /\ (saved \in OwnedName => saved \in leaked)
        /\ None \notin OwnedName
    BY LifecycleAssumption DEF LInv, LifecycleTypeOK, KeysAreKept
  <2>2. CASE \E n \in Name \ registry : Register(n)
    BY <2>1, <2>2 DEF Register, KeysAreKept
  <2>3. CASE \E n \in Name : Unregister(n)
    BY <2>1, <2>3 DEF Unregister, KeysAreKept
  <2>4. CASE Restore
    BY <2>1, <2>4 DEF Restore, KeysAreKept
  <2> QED
    BY <2>2, <2>3, <2>4 DEF FactoryStep
<1>3. LifecycleTypeOK'
  BY <1>1, <1>2 DEF LInv, LifecycleTypeOK
<1>4. (Standing(ns) /\ TablesAgree /\ ErrorsAreOfLiveNodes /\ ConsumerIsCurrent /\ Pending)'
  BY <1>1 DEF LInv, TablesAgree, ErrorsAreOfLiveNodes, ConsumerIsCurrent, Pending, Live
<1> QED
  BY <1>2, <1>3, <1>4 DEF LInv

(* The index after one path, as after a set of one.                        *)
LEMMA IndexedAlone ==
  ASSUME LInv, NEW p \in Path
  PROVE  Indexed(p) = [q \in Parents |-> children[q] \cup Leaves(Below(q, {p}))]
<1>1. children \in [Parents -> SUBSET Leaves(Path)] /\ Parent[p] \in Parents
  BY ParentsAreThere DEF LInv, LifecycleTypeOK
<1>2. \A q : Leaves(Below(q, {p})) = IF Parent[p] = q THEN {Leaf[p]} ELSE {}
  BY DEF Leaves, Below
<1> QED
  BY <1>1, <1>2 DEF Indexed

LEMMA CreateAdds ==
  ASSUME LInv, NEW p \in Path, CreateNode(p)
  PROVE  Added(ns, ns', {p})
<1>1. ns' = AddNode(ns, p) /\ \A d \in Side : Cardinality(Unused(ns, d, p)) >= Len(Defs[p][d])
  BY DEF CreateNode, Fits
<1> QED
  BY <1>1, AddNodeAdds DEF LInv

(* A node without known slots, entered where there was none.               *)
LEMMA EnteredFacts ==
  ASSUME LInv, NEW p \in Path, AddNodeAt(p)
  PROVE  /\ p \notin ns.nodes /\ p \notin SubGraph \cup Interface
         /\ ns' \in States /\ ns'.nodes = ns.nodes \cup {p} /\ ns'.changed = ns.changed \cup {p}
         /\ ns'.slots = ns.slots /\ ns'.owner = ns.owner /\ ns'.edges = ns.edges
         /\ ns'.conn = ns.conn /\ ns'.touching = ns.touching
<1>1. p \notin ns.nodes /\ p \notin SubGraph \cup Interface /\ Standing(ns)
  BY DEF AddNodeAt, Enter, LInv, TablesAgree
<1>2. ns \in States /\ \A d \in Side : ns.slots[d][p] = <<>>
  BY <1>1 DEF Standing
<1>3. [d \in Side |-> [ns.slots[d] EXCEPT ![p] = <<>>]] = ns.slots
  <2>1. ASSUME NEW d \in Side
        PROVE  [ns.slots[d] EXCEPT ![p] = <<>>] = ns.slots[d]
    <3>1. PICK row \in [Path -> Seq(Slot)] : row = ns.slots[d]
      BY <1>2 DEF States
    <3>2. row[p] = <<>>
      BY <1>2, <3>1
    <3>3. [row EXCEPT ![p] = row[p]] = row
      OBVIOUS
    <3> QED
      BY <3>1, <3>2, <3>3
  <2> QED
    BY <1>2, <2>1 DEF States
<1>4. ns' = [ns EXCEPT !.nodes = ns.nodes \cup {p}, !.changed = ns.changed \cup {p}, !.slots = ns.slots]
  BY <1>3 DEF AddNodeAt
<1>5. /\ ns' \in States /\ ns'.nodes = ns.nodes \cup {p} /\ ns'.changed = ns.changed \cup {p}
      /\ ns'.slots = ns.slots /\ ns'.owner = ns.owner /\ ns'.edges = ns.edges
      /\ ns'.conn = ns.conn /\ ns'.touching = ns.touching
  <2>1. ns.nodes \cup {p} \in SUBSET Path /\ ns.changed \cup {p} \in SUBSET Path
    BY <1>2 DEF States
  <2> QED
    BY <1>2, <1>4, <2>1 DEF States
<1> QED
  BY <1>1, <1>5

LEMMA MakeStepKeeps ==
  ASSUME LInv, MakeStep
  PROVE  LInv'
<1>1. ASSUME NEW p \in Path, NEW n \in Name, CreateByName(p, n)
      PROVE  LInv'
  <2>1. KeyName(n)
    BY <1>1 DEF CreateByName, KeyName, HasKey
  <2>2. CreateNode(p) /\ children' = Indexed(p) /\ entities' = entities \cup {p}
        /\ UNCHANGED <<factories, books>>
    BY <1>1, <2>1 DEF CreateByName
  <2> QED
    BY <2>2, CreateAdds, IndexedAlone, GrownKeeps
<1>2. ASSUME NEW p \in Path, CreateByType(p)
      PROVE  LInv'
  <2>1. CreateNode(p) /\ children' = Indexed(p) /\ entities' = entities \cup {p}
        /\ UNCHANGED <<factories, books>>
    BY <1>2 DEF CreateByType
  <2> QED
    BY <2>1, CreateAdds, IndexedAlone, GrownKeeps
<1>3. ASSUME NEW p \in Path, AddNodeAt(p)
      PROVE  LInv'
  <2>1. /\ entities' = entities \cup {p}
        /\ children' = [q \in Parents |-> children[q] \cup Leaves(Below(q, {p}))]
        /\ UNCHANGED <<factories, books>>
    BY <1>3 DEF AddNodeAt, Enter
  <2>2. /\ ns' \in States /\ ns'.nodes = ns.nodes \cup {p} /\ ns'.changed = ns.changed \cup {p}
        /\ ns'.slots = ns.slots /\ ns'.edges = ns.edges
    BY <1>3, EnteredFacts
  <2>3. EdgesOf(ns') = EdgesOf(ns)
    BY <2>2 DEF EdgesOf
  <2>4. Added(ns, ns', {p})
    BY <2>2, <2>3 DEF LInv, Standing, Added
  <2> QED
    BY <2>1, <2>4, GrownKeeps
<1>4. ASSUME NEW g \in SubGraph, AddSubGraph(g)
      PROVE  LInv'
  <2> DEFINE P == {g} \cup {Proxy[g][d] : d \in Side}
  <2>1. CreateSubGraph(g) /\ Enter(P) /\ UNCHANGED <<factories, books>>
    BY <1>4 DEF AddSubGraph
  <2>2. Added(ns, ns', P)
    BY <2>1, AddSubGraphAdds DEF LInv
  <2>3. P \in SUBSET Path
    BY PathAssumption
  <2> HIDE DEF P
  <2> QED
    BY <2>1, <2>2, <2>3, GrownKeeps DEF Enter
<1> QED
  BY <1>1, <1>2, <1>3, <1>4 DEF MakeStep

LEMMA UnmakeStepKeeps ==
  ASSUME LInv, UnmakeStep
  PROVE  LInv'
<1>1. PICK p \in Path : RemoveRootNode(p) \/ RemoveTree(p)
  BY DEF UnmakeStep
<1>2. CASE RemoveRootNode(p)
  <2>1. Leaves({p}) = {Leaf[p]}
    BY LeavesFacts
  <2> QED
    BY <1>2, <2>1, ShrunkKeeps DEF RemoveRootNode
<1>3. CASE RemoveTree(p)
  <2>1. PICK P : P = Walk(p)
    OBVIOUS
  <2>2. P \in SUBSET Path
    BY <2>1, WalkIsAmongPaths
  <2>3. /\ Leave(P) /\ ClearErrors(Leaves(P)) /\ RecordRemoval(Leaves(P))
        /\ UNCHANGED <<factories, told>>
    BY <1>3, <2>1 DEF RemoveTree
  <2> QED
    BY <2>2, <2>3, ShrunkKeeps
<1> QED
  BY <1>1, <1>2, <1>3

LEMMA WireStepKeeps ==
  ASSUME LInv, WireStep
  PROVE  LInv'
<1>1. Standing(ns)
  BY DEF LInv
<1>2. PICK e \in EdgeId : Unwire(e) \/ \E w \in Ends : Wire(e, w[1], w[2])
  BY DEF WireStep
<1>3. CASE Unwire(e)
  <2>1. Rewired(ns, ns') /\ UNCHANGED <<entities, children, factories, removed, told, errors>>
    BY <1>1, <1>3, DisconnectRewires DEF Unwire, told, books
  <2> QED
    BY <2>1, RewiredKeeps
<1>4. ASSUME NEW w \in Ends, Wire(e, w[1], w[2])
      PROVE  LInv'
  <2> DEFINE p == w[1]
             q == w[2]
  <2>1. p \in Path /\ q \in Path
    BY LifecycleAssumption
  <2> HIDE DEF p, q
  <2>2. HasSlot(ns, "in", q, 1) /\ UNCHANGED <<entities, children, factories, removed, told>>
    BY <1>4 DEF Wire, p, q
  <2>3. q \in ns.nodes
    <3>1. ns.slots["in"][q] # <<>>
      BY <2>2 DEF HasSlot
    <3> QED
      BY <1>1, <2>1, <3>1 DEF Standing, Side
  <2>4. Leaf[q] \in Live
    BY <2>3, LeavesFacts DEF Live
  <2>5. \/ /\ Connect(e, p, 1, q, 1)
           /\ errors' = [errors EXCEPT !.input = @ \ {Leaf[q]}]
        \/ /\ UNCHANGED vars
           /\ errors' = [errors EXCEPT !.input = @ \cup {Leaf[q]}]
    BY <1>4 DEF Wire, p, q
  <2>6. CASE Connect(e, p, 1, q, 1) /\ errors' = [errors EXCEPT !.input = @ \ {Leaf[q]}]
    <3>1. Rewired(ns, ns')
      BY <1>1, <2>6, ConnectRewires
    <3>2. errors' = [errors EXCEPT !.input = (@ \cup {}) \ {Leaf[q]}]
      BY <2>6
    <3> QED
      BY <2>2, <3>1, <3>2, RewiredKeeps
  <2>7. CASE UNCHANGED vars /\ errors' = [errors EXCEPT !.input = @ \cup {Leaf[q]}]
    <3>1. Rewired(ns, ns')
      BY <1>1, <2>7 DEF Rewired, vars
    <3>2. errors' = [errors EXCEPT !.input = (@ \cup {Leaf[q]}) \ {}]
      BY <2>7
    <3>3. {Leaf[q]} \in SUBSET Live
      BY <2>4
    <3> QED
      BY <2>2, <3>1, <3>2, <3>3, RewiredKeeps
  <2> QED
    BY <2>5, <2>6, <2>7
<1> QED
  BY <1>2, <1>3, <1>4

(* A pass reports what is gone and not back; what it has run is current,   *)
(* and what failed is dirty again.  A call that is refused only loses the  *)
(* report.                                                                 *)
LEMMA PassStepKeeps ==
  ASSUME LInv, PassStep
  PROVE  LInv'
<1>1. /\ ns \in States /\ ns.nodes \in SUBSET Path /\ ns.changed \in SUBSET Path
      /\ entities = ns.nodes /\ known \subseteq Live \cup removed \cup lost
      /\ \A p \in ns.nodes \ ns.changed : Leaf[p] \in known
      /\ removed \cup lost \subseteq Leaves(Path)
  BY DEF LInv, Standing, States, TablesAgree, ConsumerIsCurrent, LifecycleTypeOK
<1>2. \A p \in ns.nodes : Leaf[p] \in Live
  BY LeavesFacts DEF Live
<1>5. CASE Refuse
  <2>1. /\ UNCHANGED <<ns, entities, children, registry, leaked, saved, errors, known>>
        /\ removed' = {} /\ lost' = lost \cup (removed \ Live)
    BY <1>5 DEF Refuse, vars, factories, Reported
  <2>2. (Standing(ns) /\ TablesAgree /\ KeysAreKept /\ ErrorsAreOfLiveNodes)' /\ Live' = Live
    BY <2>1 DEF LInv, TablesAgree, KeysAreKept, ErrorsAreOfLiveNodes, Live
  <2>3. LifecycleTypeOK'
    BY <1>1, <2>1 DEF LInv, LifecycleTypeOK
  <2>4. Live \cup removed \cup lost = Live' \cup removed' \cup lost'
    BY <2>1, <2>2
  <2>5. ConsumerIsCurrent'
    BY <1>1, <2>1, <2>4 DEF ConsumerIsCurrent
  <2>6. Pending'
    BY <2>1, <2>4 DEF LInv, Pending
  <2> QED
    BY <2>2, <2>3, <2>5, <2>6 DEF LInv
<1>3. CASE ExecuteNothing
  <2>1. /\ UNCHANGED <<ns, entities, children, registry, leaked, saved, errors>>
        /\ removed' = {} /\ known' = known \ Reported /\ ns.changed = {}
        /\ lost' = lost \ Reported
    BY <1>3 DEF ExecuteNothing, vars, factories
  <2>2. (Standing(ns) /\ TablesAgree /\ KeysAreKept /\ ErrorsAreOfLiveNodes)' /\ Live' = Live
    BY <2>1 DEF LInv, TablesAgree, KeysAreKept, ErrorsAreOfLiveNodes, Live
  <2>3. LifecycleTypeOK'
    BY <1>1, <2>1 DEF LInv, LifecycleTypeOK
  <2>4. ConsumerIsCurrent'
    <3>1. known' \subseteq Live' \cup removed' \cup lost'
      BY <1>1, <2>1, <2>2 DEF Reported
    <3>2. \A p \in ns'.nodes \ ns'.changed : Leaf[p] \in known'
      BY <1>1, <1>2, <2>1 DEF Reported
    <3> QED
      BY <3>1, <3>2 DEF ConsumerIsCurrent
  <2>5. Pending'
    BY <2>1, LeavesFacts DEF Pending
  <2> QED
    BY <2>2, <2>3, <2>4, <2>5 DEF LInv
<1>4. ASSUME NEW ran \in SUBSET Planned, NEW F \in SUBSET Fallible, Pass(ran, F)
      PROVE  LInv'
  <2>1. /\ UNCHANGED <<entities, children, registry, leaked, saved>>
        /\ ns.changed \subseteq ran /\ F \subseteq ran \cap entities
        /\ ns' = [ns EXCEPT !.changed = F] /\ errors' = [errors EXCEPT !.node = Leaves(F)]
        /\ removed' = {} /\ known' = (known \cup Leaves(ran)) \ Reported
        /\ lost' = lost \ Reported
    BY <1>4 DEF Pass, factories
  <2>2. F \in SUBSET ns.nodes /\ F \in SUBSET Path
    BY <1>1, <2>1
  <2>3. /\ ns' \in States /\ ns'.nodes = ns.nodes /\ ns'.changed = F
        /\ ns'.slots = ns.slots /\ ns'.edges = ns.edges
    BY <1>1, <2>1, <2>2 DEF States
  <2>4. EdgesOf(ns') = EdgesOf(ns)
    BY <2>3 DEF EdgesOf
  <2>5. Standing(ns)'
    BY <2>3, <2>4 DEF LInv, Standing
  <2>6. Live' = Live
    BY <2>3 DEF Live
  <2>7. ran \subseteq ns.changed \cup ns.nodes
    BY PlannedAreThere DEF LInv
  <2>8. Leaves(ran) \subseteq Live \cup removed \cup lost
    <3>1. Leaves(ran) \subseteq Leaves(ns.changed \cup ns.nodes)
      BY <2>7, LeavesFacts
    <3> QED
      BY <3>1, LeavesFacts DEF LInv, Pending, Live
  <2>9. Leaves(F) \subseteq Live /\ Live \subseteq Leaves(Path) /\ Leaves(ran) \subseteq Leaves(Path)
    <3>1. Leaves(F) \subseteq Leaves(ns.nodes) /\ Leaves(ns.nodes) \subseteq Leaves(Path)
      BY <1>1, <2>2, LeavesFacts
    <3>2. ran \subseteq Path
      BY <1>1, <2>7
    <3> QED
      BY <3>1, <3>2, LeavesFacts DEF Live
  <2>10. /\ errors' \in [node : SUBSET Leaves(Path), input : SUBSET Leaves(Path)]
         /\ errors'.node = Leaves(F) /\ errors'.input = errors.input
    <3>1. errors \in [node : SUBSET Leaves(Path), input : SUBSET Leaves(Path)]
      BY DEF LInv, LifecycleTypeOK
    <3>2. Leaves(F) \in SUBSET Leaves(Path)
      BY <2>9
    <3> QED
      BY <2>1, <3>1, <3>2
  <2>11. LifecycleTypeOK'
    <3>1. removed' \cup known' \cup lost' \subseteq Leaves(Path)
      BY <1>1, <2>1, <2>9 DEF LInv, LifecycleTypeOK
    <3> QED
      BY <2>1, <2>10, <3>1 DEF LInv, LifecycleTypeOK
  <2>12. TablesAgree' /\ KeysAreKept'
    BY <2>1, <2>3 DEF LInv, TablesAgree, KeysAreKept
  <2>13. ErrorsAreOfLiveNodes'
    BY <2>6, <2>9, <2>10 DEF LInv, ErrorsAreOfLiveNodes
  <2>14. ConsumerIsCurrent'
    <3>1. known' \subseteq Live' \cup removed' \cup lost'
      BY <1>1, <2>1, <2>6, <2>8 DEF Reported
    <3>2. ASSUME NEW p \in ns'.nodes \ ns'.changed
          PROVE  Leaf[p] \in known'
      <4>1. p \in ns.nodes /\ Leaf[p] \in Live
        BY <1>2, <2>3
      <4>2. Leaf[p] \in known \/ Leaf[p] \in Leaves(ran)
        BY <1>1, <2>1, <4>1, LeavesFacts
      <4> QED
        BY <2>1, <4>1, <4>2 DEF Reported
    <3> QED
      BY <3>1, <3>2 DEF ConsumerIsCurrent
  <2>15. Pending'
    <3>1. Leaves(ns.changed)' = Leaves(F)
      BY <2>3
    <3> QED
      BY <2>6, <2>9, <3>1 DEF Pending
  <2> QED
    BY <2>5, <2>11, <2>12, <2>13, <2>14, <2>15 DEF LInv
<1> QED
  BY <1>3, <1>4, <1>5 DEF PassStep, Execute

(* LInv holds: what the manager, the tables, the path index, the registry  *)
(* and the books say of one another, after every call of the API.          *)
THEOREM LifecycleStaysRight == LifecycleSpec => []LInv
<1>1. LInv /\ [LifecycleNext]_lifecycle => LInv'
  <2>1. ASSUME LInv, LifecycleNext
        PROVE  LInv'
    BY <2>1, FactoryStepKeeps, MakeStepKeeps, UnmakeStepKeeps, WireStepKeeps, PassStepKeeps
       DEF LifecycleNext
  <2>2. ASSUME LInv, UNCHANGED lifecycle
        PROVE  LInv'
    <3>1. UNCHANGED <<ns, entities, children, registry, leaked, saved, errors, removed, known, lost>>
      BY <2>2 DEF lifecycle, vars, factories, told, books
    <3> QED
      BY <2>2, <3>1 DEF LInv, LifecycleTypeOK, TablesAgree, KeysAreKept, ErrorsAreOfLiveNodes,
                        ConsumerIsCurrent, Pending, Live
  <2> QED
    BY <2>1, <2>2
<1> QED
  BY <1>1, LInitially, PTL DEF LifecycleSpec

(* The tables and the books are of their kinds, and only names built at    *)
(* run time are leaked, each once, however often they are registered.      *)
THEOREM LifecycleIsTyped == LifecycleSpec => []LifecycleTypeOK
BY LifecycleStaysRight, PTL DEF LInv

(* The NodeManager, NodeStates and the PathIndex hold the same nodes after *)
(* every call, though each is written by a call of its own.                *)
THEOREM TablesStayAgreed == LifecycleSpec => []TablesAgree
BY LifecycleStaysRight, PTL DEF LInv

(* No error outlives the node it is about.                                 *)
THEOREM ErrorsGoWithTheirNodes == LifecycleSpec => []ErrorsAreOfLiveNodes
BY LifecycleStaysRight, PTL DEF LInv

(* A consumer who follows the results of the calls that succeed holds      *)
(* every clean node, and nothing that is gone but what the next pass will  *)
(* report and what a refused call has lost.                                *)
THEOREM ConsumersStayCurrent == LifecycleSpec => []ConsumerIsCurrent
BY LifecycleStaysRight, PTL DEF LInv

(* An entry taken out of the registry can always be put back.              *)
THEOREM TakenEntriesCanReturn == LifecycleSpec => []TakenEntriesReturn
<1>1. LInv => TakenEntriesReturn
  BY DEF LInv, KeysAreKept, TakenEntriesReturn, HasKey
<1> QED
  BY <1>1, LifecycleStaysRight, PTL

-----------------------------------------------------------------------------
(* Copies.                                                                 *)

(* A copy of a SubGraph made from its children and subgraph_edges misses   *)
(* no edge inside it, and takes nothing that leads out.  (It may take one  *)
(* that leads in, from a node elsewhere under the id of a child, which the *)
(* documentation of subgraph_edges says it does not.)                      *)
CopiesAreComplete ==
  \A g \in SubGraph :
    LET into(e) == Parent[ns.edges[e]["in"].node] = g
        from(e) == Parent[ns.edges[e]["out"].node] = g
    IN  /\ {e \in EdgesOf(ns) : into(e) /\ from(e)} \subseteq SubGraphEdges(g)
        /\ \A e \in SubGraphEdges(g) : into(e)

(* No node with slots is made over: its slots stay as long as it does.     *)
SlotsStay ==
  \A p \in ns.nodes \cap ns'.nodes : \A d \in Side :
    ns.slots[d][p] = <<>> \/ ns'.slots[d][p] = ns.slots[d][p]

LEMMA CreatedIsGood ==
  ASSUME LInv, Good(ns), NEW p \in Path, CreateNode(p), SlotsStay
  PROVE  Good(ns')
<1>1. CASE \A d \in Side : ns.slots[d][p] = <<>>
  BY <1>1, CreateNodeStep
<1>2. ASSUME NEW d \in Side, ns.slots[d][p] # <<>>
      PROVE  FALSE
  <2>1. /\ ns' = AddNode(ns, p) /\ ns \in States /\ p \in ns.nodes
        /\ \A c \in Side : Cardinality(Unused(ns, c, p)) >= Len(Defs[p][c])
    BY <1>2 DEF CreateNode, Fits, LInv, Standing
  <2>2. /\ ns'.nodes = ns.nodes \cup {p}
        /\ \A k \in DOMAIN ns'.slots[d][p] : ns.owner[d][ns'.slots[d][p][k].id] = None
    BY <2>1, AddNodeFacts
  <2>3. ns'.slots[d][p] = ns.slots[d][p]
    BY <1>2, <2>1, <2>2 DEF SlotsStay
  <2>4. ns.slots[d][p] \in Seq(Slot)
    BY <2>1 DEF States
  <2>5. 1 \in DOMAIN ns.slots[d][p]
    BY <1>2, <2>4
  <2>6. ns.owner[d][ns.slots[d][p][1].id] = <<p, 1>>
    BY <2>5 DEF Good, Sound, Owned
  <2>7. <<p, 1>> # None
    BY NoneAssumption
  <2> QED
    BY <2>2, <2>3, <2>5, <2>6, <2>7
<1> QED
  BY <1>1, <1>2

LEMMA EnteredIsGood ==
  ASSUME LInv, Good(ns), NEW p \in Path, AddNodeAt(p)
  PROVE  Good(ns')
<1>1. /\ p \notin ns.nodes /\ p \notin SubGraph \cup Interface
      /\ ns' \in States /\ ns'.nodes = ns.nodes \cup {p}
      /\ ns'.slots = ns.slots /\ ns'.owner = ns.owner /\ ns'.edges = ns.edges
      /\ ns'.conn = ns.conn /\ ns'.touching = ns.touching
  BY EnteredFacts
<1>2. Filed(ns')
  BY <1>1, FiledElsewhere DEF Good, Sound
<1>3. Sound(ns')
  BY <1>1, <1>2, SoundElsewhere DEF Good
<1>4. Vacant(ns')
  BY <1>1 DEF Good, Vacant
<1>5. SamePorts(ns')
  <2>1. \A g \in SubGraph : \A d \in Side : Proxy[g][d] # p
    BY <1>1, PathAssumption
  <2> QED
    BY <1>1, <2>1 DEF Good, SamePorts
<1> QED
  BY <1>3, <1>4, <1>5 DEF Good

(* While no node with slots is made over, the tables of NodeStates stay    *)
(* as they are to be.                                                      *)
LEMMA CopiedStep ==
  ASSUME LInv, Good(ns), [LifecycleNext]_lifecycle, [SlotsStay]_vars
  PROVE  Good(ns')
<1>1. CASE UNCHANGED vars
  BY <1>1 DEF vars
<1>2. CASE ~ UNCHANGED vars
  <2>1. SlotsStay /\ LifecycleNext
    BY <1>2 DEF lifecycle, vars
  <2>2. CASE FactoryStep
    BY <1>2, <2>2 DEF FactoryStep, Register, Unregister, Restore
  <2>3. CASE MakeStep
    <3>1. ASSUME NEW p \in Path, NEW n \in Name, CreateByName(p, n)
          PROVE  Good(ns')
      <4>1. CreateNode(p)
        BY <3>1, <1>2 DEF CreateByName
      <4> QED
        BY <2>1, <4>1, CreatedIsGood
    <3>2. ASSUME NEW p \in Path, CreateByType(p)
          PROVE  Good(ns')
      BY <2>1, <3>2, CreatedIsGood DEF CreateByType
    <3>3. ASSUME NEW g \in SubGraph, AddSubGraph(g)
          PROVE  Good(ns')
      BY <3>3, CreateSubGraphStep DEF AddSubGraph
    <3> QED
      BY <2>3, <3>1, <3>2, <3>3, EnteredIsGood DEF MakeStep
  <2>4. CASE UnmakeStep
    <3>1. PICK p \in Path : RemoveRootNode(p) \/ RemoveTree(p)
      BY <2>4 DEF UnmakeStep
    <3>2. PICK P \in SUBSET Path : ns' = RemoveNodes(ns, P)
      BY <3>1, WalkIsAmongPaths DEF RemoveRootNode, RemoveTree, Leave
    <3> QED
      BY <3>2, RemovalIsGood
  <2>5. CASE WireStep
    <3>1. PICK e \in EdgeId : Unwire(e) \/ \E w \in Ends : Wire(e, w[1], w[2])
      BY <2>5 DEF WireStep
    <3>2. CASE Unwire(e)
      BY <3>2, DisconnectStepIsGood DEF Unwire, DisconnectStep
    <3>3. ASSUME NEW w \in Ends, Wire(e, w[1], w[2])
          PROVE  Good(ns')
      <4>1. w[1] \in Path /\ w[2] \in Path
        BY LifecycleAssumption
      <4>2. Connect(e, w[1], 1, w[2], 1)
        BY <1>2, <3>3 DEF Wire
      <4> QED
        BY <4>1, <4>2, ConnectIsGood
    <3> QED
      BY <3>1, <3>2, <3>3
  <2>6. CASE PassStep
    <3>1. PICK F \in SUBSET Fallible, ran \in SUBSET Planned : Pass(ran, F)
      BY <1>2, <2>6 DEF PassStep, ExecuteNothing, Refuse, Execute
    <3>2. F \in SUBSET Path /\ ns' = [ns EXCEPT !.changed = F]
      BY <3>1, LifecycleAssumption DEF Pass
    <3>3. Sound(ns') /\ ns'.nodes = ns.nodes /\ ns'.slots = ns.slots
      BY <3>2, MarkingIsSound DEF Good
    <3> QED
      BY <3>3, GoodElsewhere
  <2> QED
    BY <2>1, <2>2, <2>3, <2>4, <2>5, <2>6 DEF LifecycleNext
<1> QED
  BY <1>1, <1>2

(* What is listed at an input slot of c leads into c.                      *)
LEMMA ListedLeadIn ==
  ASSUME NEW s, Sound(s), NEW c \in Path, NEW i \in IdsOf(s.slots["in"][c]),
         NEW k \in DOMAIN s.conn["in"][i]
  PROVE  /\ s.conn["in"][i][k] \in EdgesOf(s)
         /\ s.edges[s.conn["in"][i][k]]["in"].node = c
<1>1. "in" \in Side
  BY DEF Side
<1>2. i \in Ids[c]
  BY <1>1, SMTT(60) DEF Sound, Owned, IdsOf
<1>3. i \in SlotId
  BY <1>2 DEF SlotId
<1>4. Once(s.conn["in"][i], {e \in EdgesOf(s) : s.edges[e]["in"].slot = i})
  BY <1>1, <1>3 DEF Sound, Filed
<1>5. s.conn["in"][i][k] \in EdgesOf(s) /\ s.edges[s.conn["in"][i][k]]["in"].slot = i
  BY <1>4 DEF Once
<1> QED
  BY <1>1, <1>2, <1>5, FiledUnderItsNode

(* An edge is listed at the input slot it leads to.                        *)
LEMMA LeadingInAreListed ==
  ASSUME NEW s, Sound(s), NEW e \in EdgesOf(s)
  PROVE  \E i \in IdsOf(s.slots["in"][s.edges[e]["in"].node]) :
           \E k \in DOMAIN s.conn["in"][i] : s.conn["in"][i][k] = e
<1> DEFINE x == s.edges[e]["in"]
<1>1. "in" \in Side /\ Resolves(s, "in", x)
  BY DEF Side, Sound, Attached
<1>2. x.slot \in IdsOf(s.slots["in"][x.node])
  BY <1>1 DEF Resolves, IdsOf
<1>3. x.node \in Path
  BY <1>1 DEF Resolves, Sound, States
<1>4. x.slot \in SlotId
  <2>1. x.slot \in Ids[x.node]
    BY <1>1, <1>3 DEF Sound, Owned, Resolves
  <2> QED
    BY <1>3, <2>1 DEF SlotId
<1>5. Once(s.conn["in"][x.slot], {f \in EdgesOf(s) : s.edges[f]["in"].slot = x.slot})
  BY <1>1, <1>4 DEF Sound, Filed
<1>6. \E k \in DOMAIN s.conn["in"][x.slot] : s.conn["in"][x.slot][k] = e
  BY <1>5 DEF Once
<1> QED
  BY <1>2, <1>6

(* A copy of a SubGraph takes every edge inside it, and none that leads    *)
(* out, as long as no node with slots is made over.                        *)
THEOREM CopiesStayComplete == LifecycleSpec /\ [][SlotsStay]_vars => []CopiesAreComplete
<1>1. LifecycleInit => Good(ns)
  BY GoodInit DEF LifecycleInit, IInv
<1>2. LInv /\ Good(ns) /\ [LifecycleNext]_lifecycle /\ [SlotsStay]_vars => Good(ns)'
  BY CopiedStep
<1>3. LInv /\ Good(ns) => CopiesAreComplete
  <2> SUFFICES ASSUME LInv, Good(ns), NEW g \in SubGraph
               PROVE  LET into(e) == Parent[ns.edges[e]["in"].node] = g
                          from(e) == Parent[ns.edges[e]["out"].node] = g
                      IN  /\ {e \in EdgesOf(ns) : into(e) /\ from(e)} \subseteq SubGraphEdges(g)
                          /\ \A e \in SubGraphEdges(g) : into(e)
    BY DEF CopiesAreComplete
  <2>1. Sound(ns)
    BY DEF Good
  <2>2. \A p \in ns.nodes : Parent[p] = g => Leaf[p] \in children[g]
    <3>1. children[g] = Leaves(Below(g, ns.nodes))
      BY PathAssumption DEF LInv, TablesAgree, Parents
    <3> QED
      BY <3>1 DEF Leaves, Below
  <2>3. \A e \in EdgesOf(ns) : /\ ns.edges[e]["in"].node \in ns.nodes
                               /\ ns.edges[e]["out"].node \in ns.nodes
                               /\ ns.edges[e]["in"].node \in Path
    BY <2>1 DEF Sound, Attached, Resolves, States, Side
  <2>4. ASSUME NEW e \in EdgesOf(ns), Parent[ns.edges[e]["in"].node] = g,
               Parent[ns.edges[e]["out"].node] = g
        PROVE  e \in SubGraphEdges(g)
    <3>1. /\ Leaf[ns.edges[e]["out"].node] \in children[g]
          /\ Leaf[ns.edges[e]["in"].node] \in children[g]
      BY <2>2, <2>3, <2>4
    <3>2. \E i \in IdsOf(ns.slots["in"][ns.edges[e]["in"].node]) :
            \E k \in DOMAIN ns.conn["in"][i] : ns.conn["in"][i][k] = e
      BY <2>1, LeadingInAreListed
    <3> QED
      BY <2>3, <2>4, <3>1, <3>2 DEF SubGraphEdges
  <2>5. ASSUME NEW e \in SubGraphEdges(g)
        PROVE  Parent[ns.edges[e]["in"].node] = g
    <3>1. PICK c \in Path : /\ Parent[c] = g
                            /\ \E i \in IdsOf(ns.slots["in"][c]) :
                                 \E k \in DOMAIN ns.conn["in"][i] : ns.conn["in"][i][k] = e
      BY DEF SubGraphEdges
    <3>2. ns.edges[e]["in"].node = c
      BY <2>1, <3>1, ListedLeadIn
    <3> QED
      BY <3>1, <3>2
  <2> QED
    BY <2>4, <2>5
<1> QED
  BY <1>1, <1>2, <1>3, LifecycleStaysRight, PTL DEF LifecycleSpec

=============================================================================
