---------------------------- MODULE NodeStates ----------------------------
(***************************************************************************)
(* NodeStates (src/node_graph/node_state.rs): the nodes, their slot        *)
(* tables, the edges, and the maps that restate them (slot owners, the     *)
(* connections of a slot, the edges of a node); with the calls that edit   *)
(* them: creating and removing nodes and subtrees, subgraph and interface  *)
(* ports, connecting, reordering.                                          *)
(*                                                                         *)
(* The struct is one record, ns, and each of its &mut self methods is an   *)
(* operator from records to records; an action is a call of the graph's    *)
(* API, made of those methods under one write lock.  What the code writes  *)
(* twice, once for inputs and once for outputs, is written once here, with *)
(* the side d.                                                             *)
(*                                                                         *)
(* Labels, node data and slot defaults are left out; of a lock there is    *)
(* only the dirty mark that setting it makes.  Slot indexes start at 1.    *)
(***************************************************************************)
EXTENDS Integers, Vec, Loop, SequencesExt

CONSTANTS
  Path,        \* node paths other than the root
  Root,        \* the root path
  Parent,      \* Parent[p]: the path p is a child of
  SubGraph,    \* paths of SubGraphNodes
  Proxy,       \* Proxy[g][d]: the InterfaceNode behind the slots of g on side d
  Interface,   \* paths of InterfaceNodes, the proxies included
  Defs,        \* Defs[p][d]: the SlotDefs a node at p is created with
  Type,        \* data types of slots
  Ids,         \* bound: Ids[p] are the ids that slots of p are given
  EdgeId,
  MaxPorts,    \* bound: ports on an InterfaceNode
  None         \* Option::None

Side == {"in", "out"}
SlotId == UNION {Ids[p] : p \in Path}

Slot == [id : SlotId, type : Type, max : Nat \cup {None}]
End  == [node : Path, index : Nat \ {0}, slot : SlotId]
Edge == [Side -> End]

(* A graph is finite; its walks end.                                       *)
ASSUME FiniteAssumption == IsFiniteSet(Path) /\ IsFiniteSet(EdgeId)

ASSUME PathAssumption ==
  /\ Root \notin Path /\ Parent \in [Path -> Path \cup {Root}]
  /\ SubGraph \subseteq Path /\ Interface \subseteq Path
  /\ SubGraph \cap Interface = {}
  /\ Proxy \in [SubGraph -> [Side -> Interface]]
  /\ \A g \in SubGraph : \A d \in Side : Parent[Proxy[g][d]] = g
  /\ \A g \in SubGraph : Proxy[g]["in"] # Proxy[g]["out"]

ASSUME SlotAssumption ==
  /\ Ids \in [Path -> SUBSET Nat] /\ \A p \in Path : IsFiniteSet(Ids[p])
  /\ \A p, q \in Path : p # q => Ids[p] \cap Ids[q] = {}
  /\ MaxPorts \in Nat
  /\ Defs \in [Path -> [Side -> Seq([type : Type, max : Nat \cup {None}])]]

(* "INPUTS and OUTPUTS are intentionally empty": ports are added later.    *)
ASSUME PortDefsAssumption ==
  \A p \in SubGraph \cup Interface : \A d \in Side : Defs[p][d] = <<>>

ASSUME NoneAssumption == None \notin EdgeId \cup Nat \cup (Path \X Nat) \cup Edge

VARIABLES
  ns    \* NodeStates

vars == <<ns>>

-----------------------------------------------------------------------------
(* Reading the tables.                                                     *)

EdgesOf(s) == {e \in EdgeId : s.edges[e] # None}
HasSlot(s, d, p, i) == i \in DOMAIN s.slots[d][p]
IdsOf(q) == {q[k].id : k \in DOMAIN q}

(* The edges filed under the slot id at position i of p.                   *)
EdgesAt(s, d, p, i) ==
  {e \in EdgesOf(s) : HasSlot(s, d, p, i) /\ s.edges[e][d].slot = s.slots[d][p][i].id}

(* Slot ids are ulids: a new one is one that nothing mentions.             *)
Unused(s, d, p) ==
  {i \in Ids[p] : /\ s.owner[d][i] = None
                  /\ s.conn[d][i] = <<>>
                  /\ \A e \in EdgesOf(s) : s.edges[e][d].slot # i
                  /\ \A q \in Path : i \notin IdsOf(s.slots[d][q])}
Mint(s, d, p) == Nth(Unused(s, d, p), 1)

-----------------------------------------------------------------------------
(* The methods of NodeStates.                                              *)

(* A rewrite that starts one position too late.                            *)
ReindexAfter(s, d, p, from) ==
  LET q == s.slots[d][p]
      at(i) == {k \in DOMAIN q : k > from /\ q[k].id = i}
  IN  [s EXCEPT !.owner[d] =
        [i \in SlotId |-> IF at(i) = {} THEN s.owner[d][i] ELSE <<p, CHOOSE k \in at(i) : TRUE>>]]

(* The owner of every slot of p from position `from' on, read off the table.*)
Reindex(s, d, p, from) ==
  LET q == s.slots[d][p]
      at(i) == {k \in DOMAIN q : k >= from /\ q[k].id = i}
  IN  [s EXCEPT !.owner[d] =
        [i \in SlotId |-> IF at(i) = {} THEN s.owner[d][i] ELSE <<p, CHOOSE k \in at(i) : TRUE>>]]

(* A renumbering that does not look at the node of the edge.               *)
RenumberAll(s, d, p, from, by) ==
  [s EXCEPT !.edges =
    [e \in EdgeId |->
       IF e \in EdgesOf(s) /\ s.edges[e][d].index >= from
       THEN [s.edges[e] EXCEPT ![d].index = @ + by] ELSE s.edges[e]]]

(* The index that the edges at p carry, from position `from' on.            *)
Renumber(s, d, p, from, by) ==
  [s EXCEPT !.edges =
    [e \in EdgeId |->
       IF e \in EdgesOf(s) /\ s.edges[e][d].node = p /\ s.edges[e][d].index >= from
       THEN [s.edges[e] EXCEPT ![d].index = @ + by] ELSE s.edges[e]]]

AddSlot(s, d, p, type, max) ==
  LET slot == [id |-> Mint(s, d, p), type |-> type, max |-> max]
      t == [s EXCEPT !.slots[d][p] = Append(@, slot)]
  IN  Reindex(t, d, p, Len(t.slots[d][p]))

(* An insertion that leaves the edges alone.                               *)
InsertSlotUnshifted(s, d, p, i, type, max) ==
  LET at == IF i <= Len(s.slots[d][p]) THEN i ELSE Len(s.slots[d][p]) + 1
      slot == [id |-> Mint(s, d, p), type |-> type, max |-> max]
  IN  Reindex([s EXCEPT !.slots[d][p] = InsertAt(@, at, slot)], d, p, at)

InsertSlot(s, d, p, i, type, max) ==
  LET at == IF i <= Len(s.slots[d][p]) THEN i ELSE Len(s.slots[d][p]) + 1
      slot == [id |-> Mint(s, d, p), type |-> type, max |-> max]
      t == [s EXCEPT !.slots[d][p] = InsertAt(@, at, slot)]
  IN  Renumber(Reindex(t, d, p, at), d, p, at, 1)

(* A removal that shifts the edges in front of it too.                     *)
RemoveSlotShiftingAll(s, d, p, i) ==
  LET t == [s EXCEPT !.slots[d][p] = RemoveAt(@, i),
                     !.owner[d][s.slots[d][p][i].id] = None]
  IN  IF ~ HasSlot(s, d, p, i) THEN s ELSE Renumber(Reindex(t, d, p, i), d, p, 0, -1)

RemoveSlot(s, d, p, i) ==
  LET t == [s EXCEPT !.slots[d][p] = RemoveAt(@, i),
                     !.owner[d][s.slots[d][p][i].id] = None]
  IN  IF ~ HasSlot(s, d, p, i) THEN s
      ELSE Renumber(Reindex(t, d, p, i), d, p, i + 1, -1)

(* One slot table of a new node, with an id of its own for every slot.     *)
Fill(s, d, p) ==
  LET t == [s EXCEPT !.slots[d][p] = <<>>]
      slot(k) == [id |-> Nth(Unused(t, d, p), k),
                  type |-> Defs[p][d][k].type, max |-> Defs[p][d][k].max]
  IN  Reindex([t EXCEPT !.slots[d][p] = [k \in DOMAIN Defs[p][d] |-> slot(k)]], d, p, 1)

AddNode(s, p) ==
  LET t == Fill(Fill(s, "in", p), "out", p)
  IN  [t EXCEPT !.nodes = @ \cup {p}, !.changed = @ \cup {p}]

AddEdge(s, e, x) ==
  [s EXCEPT !.edges[e] = x,
            !.conn = [d \in Side |-> [s.conn[d] EXCEPT ![x[d].slot] = Append(@, e)]],
            !.touching = [d \in Side |-> [s.touching[d] EXCEPT ![x[d].node] = Append(@, e)]],
            !.changed = @ \cup {x["in"].node}]

(* A removal that leaves the mirror index of outgoing_edges alone.         *)
RemoveEdgesOneSided(s, D) ==
  LET gone == D \cap EdgesOf(s)
      at(d, f, v) == {e \in gone : s.edges[e][d][f] = v}
  IN  [s EXCEPT
        !.edges = [e \in EdgeId |-> IF e \in gone THEN None ELSE s.edges[e]],
        !.conn = [d \in Side |-> [i \in SlotId |-> Without(s.conn[d][i], at(d, "slot", i))]],
        !.touching["out"] = [p \in Path |-> Without(@[p], at("out", "node", p))],
        !.changed = @ \cup {s.edges[e]["in"].node : e \in gone}]

(* remove_edge of every edge in D.                                         *)
RemoveEdges(s, D) ==
  LET gone == D \cap EdgesOf(s)
      at(d, f, v) == {e \in gone : s.edges[e][d][f] = v}
  IN  [s EXCEPT
        !.edges = [e \in EdgeId |-> IF e \in gone THEN None ELSE s.edges[e]],
        !.conn = [d \in Side |-> [i \in SlotId |-> Without(s.conn[d][i], at(d, "slot", i))]],
        !.touching = [d \in Side |-> [p \in Path |-> Without(s.touching[d][p], at(d, "node", p))]],
        !.changed = @ \cup {s.edges[e]["in"].node : e \in gone}]

(* remove_node of every path in P: its edges, its slots and their owners.  *)
RemoveNodes(s, P) ==
  LET t == RemoveEdges(s, {e \in EdgesOf(s) : \E d \in Side : s.edges[e][d].node \in P})
      gone(d) == UNION {IdsOf(s.slots[d][p]) : p \in P}
  IN  [t EXCEPT
        !.nodes = @ \ P,
        !.slots = [d \in Side |-> [p \in Path |-> IF p \in P THEN <<>> ELSE s.slots[d][p]]],
        !.owner = [d \in Side |-> [i \in SlotId |-> IF i \in gone(d) THEN None ELSE s.owner[d][i]]]]

-----------------------------------------------------------------------------
(* Creating and removing nodes.                                            *)

(* bound: n slot ids are left for p                                        *)
Fits(n, d, p) == Cardinality(Unused(ns, d, p)) >= n

(* Register a node at p, whatever its path held before.  SubGraphs and     *)
(* their proxies come from CreateSubGraph alone: create_node_by_name with  *)
(* the name "SubGraph", which the code lets make one without proxies, is   *)
(* left out.                                                               *)
CreateNode(p) ==
  /\ p \notin SubGraph
  /\ \A g \in SubGraph, d \in Side : p # Proxy[g][d]
  /\ \A d \in Side : Fits(Len(Defs[p][d]), d, p)
  /\ ns' = AddNode(ns, p)

(* The SubGraphNode and its two proxies, whose ids are new.                *)
CreateSubGraph(g) ==
  LET paths == {g, Proxy[g]["in"], Proxy[g]["out"]}
  IN  /\ paths \cap ns.nodes = {}
      /\ \A p \in paths, d \in Side : ns.slots[d][p] = <<>>
      /\ ns' = AddNode(AddNode(AddNode(ns, g), Proxy[g]["in"]), Proxy[g]["out"])

(* remove_node: one root-level node, without what is below it.             *)
RemoveNode(p) ==
  /\ p \in ns.nodes /\ Parent[p] = Root
  /\ ns' = RemoveNodes(ns, {p})

(* The walk over the path index from p.                                    *)
Subtree(p) ==
  Iterate([P \in SUBSET Path |-> P \cup {q \in ns.nodes : Parent[q] \in P}],
          {p}, Cardinality(Path))

RemoveNodeAt(p) == ns' = RemoveNodes(ns, Subtree(p))

-----------------------------------------------------------------------------
(* Ports.                                                                  *)

(* A proxy's input slot takes one edge on the input side.                  *)
PortMax(d) == IF d = "in" THEN 1 ELSE None

(* append_locked_label_at: the label is locked in the node's data.         *)
Lock(s, p, locked) == IF locked /\ p \in s.nodes THEN [s EXCEPT !.changed = @ \cup {p}] ELSE s

PortCount(p) == Len(ns.slots["in"][p])

RootSubGraph(g) == g \in ns.nodes /\ Parent[g] = Root

AddSubGraphPort(g, d, type, locked) ==
  LET p == Proxy[g][d]
      s == AddSlot(AddSlot(ns, "in", p, type, PortMax(d)), "out", p, type, None)
  IN  /\ RootSubGraph(g) /\ PortCount(p) < MaxPorts
      /\ Fits(1, d, g) /\ \A c \in Side : Fits(1, c, p)
      /\ ns' = Lock(AddSlot(s, d, g, type, None), p, locked)

(* An insertion that appends the external slot.                            *)
InsertSubGraphPortLast(g, d, i, type, locked) ==
  LET p == Proxy[g][d]
      s == InsertSlot(InsertSlot(ns, "in", p, i, type, PortMax(d)), "out", p, i, type, None)
  IN  /\ RootSubGraph(g) /\ PortCount(p) < MaxPorts
      /\ i <= PortCount(p) + 1
      /\ Fits(1, d, g) /\ \A c \in Side : Fits(1, c, p)
      /\ ns' = Lock(AddSlot(s, d, g, type, None), p, locked)

InsertSubGraphPort(g, d, i, type, locked) ==
  LET p == Proxy[g][d]
      s == InsertSlot(InsertSlot(ns, "in", p, i, type, PortMax(d)), "out", p, i, type, None)
  IN  /\ RootSubGraph(g) /\ PortCount(p) < MaxPorts
      /\ i <= PortCount(p) + 1
      /\ Fits(1, d, g) /\ \A c \in Side : Fits(1, c, p)
      /\ ns' = Lock(InsertSlot(s, d, g, i, type, None), p, locked)

(* A removal that leaves the edges inside the subgraph.                    *)
RemoveSubGraphPortOuter(g, d, i) ==
  LET p == Proxy[g][d]
      s == RemoveEdges(ns, EdgesAt(ns, d, p, i))
      t == RemoveSlot(RemoveSlot(s, "in", p, i), "out", p, i)
  IN  /\ RootSubGraph(g)
      /\ ns' = RemoveSlot(RemoveEdges(t, EdgesAt(t, d, g, i)), d, g, i)

RemoveSubGraphPort(g, d, i) ==
  LET p == Proxy[g][d]
      s == RemoveEdges(ns, EdgesAt(ns, "in", p, i) \cup EdgesAt(ns, "out", p, i))
      t == RemoveSlot(RemoveSlot(s, "in", p, i), "out", p, i)
  IN  /\ RootSubGraph(g)
      /\ ns' = RemoveSlot(RemoveEdges(t, EdgesAt(t, d, g, i)), d, g, i)

(* Interface ports are addressed by node id, hence at root level only.     *)
RootInterface(p) == p \in ns.nodes \cap Interface /\ Parent[p] = Root

AddInterfacePort(p, type, locked) ==
  /\ RootInterface(p) /\ PortCount(p) < MaxPorts
  /\ \A c \in Side : Fits(1, c, p)
  /\ ns' = Lock(AddSlot(AddSlot(ns, "in", p, type, 1), "out", p, type, None), p, locked)

(* The slots go, the edges stay.                                           *)
RemoveInterfacePort(p, i) ==
  /\ RootInterface(p)
  /\ HasSlot(ns, "in", p, i)
  /\ ns' = [RemoveSlot(RemoveSlot(ns, "in", p, i), "out", p, i)
              EXCEPT !.changed = @ \cup {p}]

-----------------------------------------------------------------------------
(* Edges.                                                                  *)

Endpoint(d, p, i) == [node |-> p, index |-> i, slot |-> ns.slots[d][p][i].id]

(* A retargeting that knows only the destination.                          *)
RetargetInput(d, p) == IF d = "in" /\ p \in SubGraph \cap ns.nodes THEN Proxy[p][d] ELSE p

(* A SubGraph's external slots stand for its proxies' slots.               *)
Retarget(d, p) == IF p \in SubGraph \cap ns.nodes THEN Proxy[p][d] ELSE p

Retargeted(d, end) ==
  LET p == Retarget(d, end.node)
  IN  IF p = end.node THEN end ELSE Endpoint(d, p, end.index)

SlotOf(d, end) == ns.slots[d][end.node][end.index]

(* A limit check against the slot the caller named.                        *)
LimitBeforeRetarget(x) ==
  LET slot == SlotOf("in", x["in"])
  IN  slot.max # None => Len(ns.conn["in"][slot.id]) < slot.max

WithinLimit(x) ==
  LET slot == SlotOf("in", [x["in"] EXCEPT !.node = Retarget("in", @)])
  IN  slot.max # None => Len(ns.conn["in"][slot.id]) < slot.max

(* add_edge_with_id: the slots are checked by index, the edge is filed     *)
(* under the slot ids it carries.                                          *)
InsertEdge(e, x) ==
  /\ \A d \in Side : LET p == Retarget(d, x[d].node)
                     IN  p \in ns.nodes /\ HasSlot(ns, d, p, x[d].index)
  /\ LET y == [d \in Side |-> Retargeted(d, x[d])]
     IN  /\ SlotOf("out", y["out"]).type = SlotOf("in", y["in"]).type
         /\ WithinLimit(x)
         /\ ns.edges[e] = None
         /\ ns' = AddEdge(ns, e, y)

(* connect_nodes_at_with_id: create_edge_at, then add_edge_with_id.        *)
Connect(e, p, i, q, j) ==
  /\ HasSlot(ns, "out", p, i) /\ HasSlot(ns, "in", q, j)
  /\ InsertEdge(e, [d \in Side |-> IF d = "out" THEN Endpoint(d, p, i) ELSE Endpoint(d, q, j)])

Disconnect(e) ==
  /\ e \in EdgesOf(ns)
  /\ ns' = RemoveEdges(ns, {e})

(* A reordering that marks the source.                                     *)
ReorderEdgeMarksSource(d, e, k) ==
  /\ e \in EdgesOf(ns)
  /\ LET end == ns.edges[e][d]
     IN  /\ k \in DOMAIN ns.conn[d][end.slot]
         /\ ns' = [ns EXCEPT !.conn[d][end.slot] = InsertAt(Without(@, {e}), k, e),
                             !.changed = @ \cup {ns.edges[e]["out"].node}]

(* reorder_input_edge, reorder_output_edge.                                *)
ReorderEdge(d, e, k) ==
  /\ e \in EdgesOf(ns)
  /\ LET end == ns.edges[e][d]
     IN  /\ k \in DOMAIN ns.conn[d][end.slot]
         /\ ns' = [ns EXCEPT !.conn[d][end.slot] = InsertAt(Without(@, {e}), k, e),
                             !.changed = @ \cup {end.node}]

(* The walk back from the end of an edge to the external port of a         *)
(* root-level SubGraph, taking either proxy for the one meant.             *)
ExternalEndAtAnyProxy(s, d, end) ==
  LET g == Parent[end.node]
  IN  IF g \in SubGraph \cap s.nodes /\ Parent[g] = Root
         /\ end.node \in {Proxy[g][c] : c \in Side}
      THEN <<g, end.index>> ELSE None

(* edge_external_target, edge_external_source                              *)
ExternalEnd(s, d, end) ==
  LET g == Parent[end.node]
  IN  IF g \in SubGraph \cap s.nodes /\ Parent[g] = Root /\ end.node = Proxy[g][d]
      THEN <<g, end.index>> ELSE None

(* subgraph_external_input_slot, subgraph_external_output_slot             *)
ExternalSlot(s, d, g, i) ==
  IF g \in s.nodes /\ HasSlot(s, d, Proxy[g][d], i)
  THEN [node |-> Proxy[g][d], index |-> i, slot |-> s.slots[d][Proxy[g][d]][i].id] ELSE None

(* drain_changed_nodes, by a pass.                                         *)
Drain ==
  /\ ns.changed # {}
  /\ ns' = [ns EXCEPT !.changed = {}]

-----------------------------------------------------------------------------
Init ==
  /\ ns = [nodes    |-> {},
           slots    |-> [d \in Side |-> [p \in Path |-> <<>>]],
           owner    |-> [d \in Side |-> [i \in SlotId |-> None]],
           edges    |-> [e \in EdgeId |-> None],
           conn     |-> [d \in Side |-> [i \in SlotId |-> <<>>]],
           touching |-> [d \in Side |-> [p \in Path |-> <<>>]],
           changed  |-> {}]

CreateStep ==
  \/ \E p \in Path \ ns.nodes : CreateNode(p)
  \/ \E g \in SubGraph : CreateSubGraph(g)

RemoveStep == \E p \in Path : RemoveNode(p) \/ RemoveNodeAt(p)

AddPortStep ==
  \E type \in Type, locked \in BOOLEAN :
    \/ \E g \in SubGraph, d \in Side :
         \/ AddSubGraphPort(g, d, type, locked)
         \/ \E i \in 1..MaxPorts : InsertSubGraphPort(g, d, i, type, locked)
    \/ \E p \in Interface : AddInterfacePort(p, type, locked)

RemovePortStep ==
  \E g \in SubGraph, d \in Side, i \in 1..MaxPorts : RemoveSubGraphPort(g, d, i)

ConnectStep ==
  \E e \in EdgeId, p, q \in Path :
    \E i \in DOMAIN ns.slots["out"][p], j \in DOMAIN ns.slots["in"][q] : Connect(e, p, i, q, j)

DisconnectStep == \E e \in EdgeId : Disconnect(e)

ReorderStep ==
  \E d \in Side, e \in EdgeId, k \in 1..Cardinality(EdgeId) : ReorderEdge(d, e, k)

(* An interface port is removed once it carries no edge.                   *)
RemoveIdlePort ==
  \E p \in Interface : \E i \in DOMAIN ns.slots["in"][p] :
    /\ \A d \in Side : EdgesAt(ns, d, p, i) = {}
    /\ RemoveInterfacePort(p, i)

Next ==
  \/ CreateStep \/ RemoveStep \/ AddPortStep \/ RemovePortStep \/ RemoveIdlePort
  \/ ConnectStep \/ DisconnectStep \/ ReorderStep \/ Drain

Spec == Init /\ [][Next]_vars

(* Interface ports may be removed with their edges on.                     *)
PortSpec ==
  Init /\ [][Next \/ \E p \in Interface, i \in 1..MaxPorts : RemoveInterfacePort(p, i)]_vars

-----------------------------------------------------------------------------
States ==
  [nodes    : SUBSET Path,
   slots    : [Side -> [Path -> Seq(Slot)]],
   owner    : [Side -> [SlotId -> (Path \X Nat) \cup {None}]],
   edges    : [EdgeId -> Edge \cup {None}],
   conn     : [Side -> [SlotId -> Seq(EdgeId)]],
   touching : [Side -> [Path -> Seq(EdgeId)]],
   changed  : SUBSET Path]

TypeOK == ns \in States

(* q lists every edge of D, once.                                          *)
Lists(q, D) == Len(q) = Cardinality(D) /\ {q[k] : k \in DOMAIN q} = D

(* The four edge indexes say what the edges say: an edge is listed once    *)
(* under each slot id and each node it names, and nothing else is.         *)
IndexesAgree ==
  \A d \in Side :
    /\ \A i \in SlotId : Lists(ns.conn[d][i], {e \in EdgesOf(ns) : ns.edges[e][d].slot = i})
    /\ \A p \in Path : Lists(ns.touching[d][p], {e \in EdgesOf(ns) : ns.edges[e][d].node = p})

(* The reverse owner maps are in lock-step with the slot tables, whatever  *)
(* insertions and removals have shifted.                                   *)
OwnersAgree ==
  \A d \in Side :
    /\ \A i \in SlotId : ns.owner[d][i] # None =>
         LET o == ns.owner[d][i]
         IN  HasSlot(ns, d, o[1], o[2]) /\ ns.slots[d][o[1]][o[2]].id = i
    /\ \A p \in Path : \A k \in DOMAIN ns.slots[d][p] :
         ns.owner[d][ns.slots[d][p][k].id] = <<p, k>>

(* The path, index and slot id an edge carries name one slot: "NodeStates  *)
(* [...] keeps the slot-id <-> (NodePath, index) inverse maps in lock-step *)
(* with these fields".                                                     *)
EdgesAgree ==
  \A e \in EdgesOf(ns) : \A d \in Side :
    LET x == ns.edges[e][d]
    IN  /\ x.node \in ns.nodes
        /\ HasSlot(ns, d, x.node, x.index)
        /\ ns.slots[d][x.node][x.index].id = x.slot

(* What an edge carries has one type end to end: no insertion or removal   *)
(* of a port moves an edge onto a slot of another type.                    *)
EdgesAreTyped ==
  \A e \in EdgesOf(ns) :
    SlotOf("in", ns.edges[e]["in"]).type = SlotOf("out", ns.edges[e]["out"]).type

Types(q) == [k \in DOMAIN q |-> q[k].type]

(* An InterfaceNode has the same ports on both sides, and a SubGraph's     *)
(* external slots are those of its proxy, one for one.                     *)
PortsAgree ==
  /\ \A p \in ns.nodes \cap Interface : Types(ns.slots["in"][p]) = Types(ns.slots["out"][p])
  /\ \A g \in ns.nodes \cap SubGraph : \A d \in Side :
       Proxy[g][d] \in ns.nodes => Types(ns.slots[d][g]) = Types(ns.slots[d][Proxy[g][d]])

(* No slot has more edges than it takes, on whatever way they came in.     *)
LimitsHold ==
  \A p \in Path : \A k \in DOMAIN ns.slots["in"][p] :
    LET slot == ns.slots["in"][p][k]
    IN  slot.max # None => Len(ns.conn["in"][slot.id]) <= slot.max

(* The external slots of a SubGraph are an alias surface: every edge to or *)
(* from one has been filed under the proxy.                                *)
ExternalsAreAliases ==
  \A e \in EdgesOf(ns) : \A d \in Side : ns.edges[e][d].node \notin SubGraph

(* The way back from an edge to the external port it was wired to, and the *)
(* way from that port to the slot, lead to one place, and the port is      *)
(* there: "the two directions cannot drift apart", whatever has shifted.   *)
ExternalEndsResolve ==
  \A e \in EdgesOf(ns) : \A d \in Side :
    LET end == ns.edges[e][d]
        port == ExternalEnd(ns, d, end)
    IN  port # None => /\ HasSlot(ns, d, port[1], port[2])
                       /\ ExternalSlot(ns, d, port[1], port[2]) = end

(* What an input slot delivers to a run: the output slots its edges lead   *)
(* to by path and index, in connection order.                              *)
Feeds(s, i) ==
  [k \in DOMAIN s.conn["in"][i] |->
     LET x == s.edges[s.conn["in"][i][k]]["out"]
     IN  <<x.node, s.slots["out"][x.node][x.index].id>>]

(* Whenever an edit changes what a slot delivers, by rewiring, reordering  *)
(* or shifting the ports at the far end, the slot's node is marked dirty.  *)
FeedChangesAreMarked ==
  [][\A p \in Path :
       \A i \in IdsOf(ns.slots["in"][p]) \cap IdsOf(ns'.slots["in"][p]) :
         Feeds(ns', i) # Feeds(ns, i) => p \in ns'.changed]_vars

=============================================================================
