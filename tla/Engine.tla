------------------------------- MODULE Engine -------------------------------
(***************************************************************************)
(* The graph and its executor together: values flow along slots and edges, *)
(* through the ports of SubGraphs, into the cache and out to the consumer  *)
(* of the results.  NodeStates has the tables and the edits; here are what *)
(* a pass reads from them (build_execution_plan, topological_sort,         *)
(* ChangeFrontier, build_execution_context and                             *)
(* resolve_value_through_interface in src/node_graph) and what it reports  *)
(* (collect_outputs).                                                      *)
(*                                                                         *)
(* A pass is one step: Executor takes it apart, and its NoGlitch is why    *)
(* the runs of a level can be taken together.  A failing run writes        *)
(* nothing here.                                                           *)
(***************************************************************************)
EXTENDS Planning

CONSTANTS
  Data,               \* node data
  DefaultData,
  Value,              \* what flows
  Cutoff,             \* nodes whose output_cutoff is Enabled
  Fallible,           \* nodes whose run may fail
  Compute(_, _, _),   \* the outputs a run sets: node, data, values per input slot
  Field,              \* Field[t]: the fields of a value of type t, if it is composite
  Extracted,          \* the composite types whose fields can be read back
  Number,             \* what a field holds
  Wires,              \* bound: Wires[e] are the ends an edge e is wired between
  DataAt,             \* bound: DataAt[p] is what the data of p is set to
  DefaultsAt,         \* bound: DefaultsAt[p] is what a default of p is set to
  FieldsAt,           \* bound: FieldsAt[p] are the <<field, number>> set in p
  Churn,              \* bound: the paths that are removed
  PortSides,          \* bound: the sides on which ports come and go
  MaxDirty,           \* bound: nodes found dirty by an edit
  Absent              \* nothing reported yet

ASSUME EngineAssumption ==
  /\ DefaultData \in Data /\ None \notin Value /\ Absent \notin Value \cup {None}
  /\ Cutoff \subseteq Path /\ Fallible \subseteq Path \ (Interface \cup SubGraph)
  /\ Extracted \subseteq Type /\ 0 \in Number

(* What can be set is of its kind, and so is what is made of fields.       *)
ASSUME BoundsAssumption ==
  /\ Churn \subseteq Path /\ PortSides \subseteq Side
  /\ \A e \in EdgeId : Wires[e] \subseteq Path \X Nat \X Path \X Nat
  /\ \A p \in Path : DataAt[p] \subseteq Data /\ DefaultsAt[p] \subseteq Value \cup {None}
  /\ \A p \in Path : \A w \in FieldsAt[p] : w[2] \in Number
  /\ \A t \in Type : Field[t] # {} => [Field[t] -> Number] \subseteq Value \cap Data

VARIABLES
  data,      \* NodeState.data
  default,   \* InputSlotState.default_value, by slot id
  cache,     \* ExecutionCache.outputs
  shown      \* what a consumer holds who folds every ExecutionResult in

engine == <<ns, data, default, cache, shown>>

-----------------------------------------------------------------------------
(* Resolving a value.                                                      *)

IsInterface(s, p) == p \in s.nodes \cap Interface

(* The walk back through the proxies, as the list of what it has yet to    *)
(* try: the ends of edges, and the defaults behind those it has gone back  *)
(* from.  `seen' is the visited set, which outlives the branch that filled *)
(* it.                                                                     *)
Trial == [end : End, by : {"edge", "default"}]
Search == [todo : Seq(Trial), seen : SUBSET (Path \X Nat), value : Value \cup {None}]

Port(end) == <<end.node, end.index>>

(* A proxy stands for whatever feeds its input slot of the same index.     *)
InputOf(s, end) == s.slots["in"][end.node][end.index]

(* The ends of the edges into a slot, in order.                            *)
Feeders(s, slot) ==
  LET q == s.conn["in"][slot.id] IN [k \in DOMAIN q |-> s.edges[q[k]]["out"]]

Forwards(s, seen, x) ==
  /\ x.by = "edge" /\ Port(x.end) \notin seen
  /\ IsInterface(s, x.end.node) /\ HasSlot(s, "in", x.end.node, x.end.index)

(* What is to be tried next: a proxy's connections, and then its default.  *)
More(s, seen, x) ==
  LET feeders == Feeders(s, InputOf(s, x.end))
  IN  IF Forwards(s, seen, x)
      THEN Append([k \in DOMAIN feeders |-> [end |-> feeders[k], by |-> "edge"]],
                  [x EXCEPT !.by = "default"])
      ELSE <<>>

Read(s, c, def, seen, x) ==
  CASE x.by = "default" -> def[InputOf(s, x.end).id]
    [] x.by = "edge" /\ Port(x.end) \notin seen /\ ~ IsInterface(s, x.end.node) -> c[x.end.slot]
    [] OTHER -> None

Try(s, c, def, t) ==
  LET x == Head(t.todo)
  IN  [todo  |-> More(s, t.seen, x) \o Tail(t.todo),
       seen  |-> t.seen \cup {Port(x.end)},
       value |-> Read(s, c, def, t.seen, x)]

(* A walk pushes an edge once, and once each port an edge comes from.      *)
Steps == 2 * Cardinality(EdgeId) + 2

(* resolve_value_through_interface: the first value found.                 *)
Resolve(s, c, def, from) ==
  Iterate([t \in Search |-> IF t.value # None \/ t.todo = <<>> THEN t ELSE Try(s, c, def, t)],
          [todo |-> <<[end |-> from, by |-> "edge"]>>, seen |-> {}, value |-> None], Steps).value

Delivered(s, c, def, e) == Resolve(s, c, def, s.edges[e]["out"])

(* The values of one input slot: its connections in order, without the     *)
(* ones that deliver nothing; with none left, its default.                 *)
SlotValues(s, c, def, slot) ==
  LET got == [k \in DOMAIN s.conn["in"][slot.id] |-> Delivered(s, c, def, s.conn["in"][slot.id][k])]
      values == Without(got, {None})
  IN  IF values = <<>> /\ def[slot.id] # None THEN <<def[slot.id]>> ELSE values

(* build_execution_context *)
InputValues(s, c, def, p) ==
  [i \in DOMAIN s.slots["in"][p] |-> SlotValues(s, c, def, s.slots["in"][p][i])]

-----------------------------------------------------------------------------
(* Executing.                                                              *)

(* A frontier that takes a proxy for its own source.                       *)
SourceChangedAtProxy(s, seed, moved, from) == from.node \in moved \ Interface

(* The walk of source_changed.                                             *)
Doubt == [todo : Seq(End), seen : SUBSET (Path \X Nat), hit : BOOLEAN]

Follow(s, seed, moved, t) ==
  LET end == Head(t.todo)
      known == /\ end.node \notin seed /\ Port(end) \notin t.seen
               /\ HasSlot(s, "in", end.node, end.index)
  IN  CASE ~ IsInterface(s, end.node) -> [t EXCEPT !.todo = Tail(@), !.hit = end.node \in moved]
        [] IsInterface(s, end.node) /\ ~ known -> [t EXCEPT !.hit = TRUE]
        [] OTHER -> [t EXCEPT !.todo = Feeders(s, InputOf(s, end)) \o Tail(@),
                              !.seen = @ \cup {Port(end)}]

(* source_changed: did the value delivered on an output slot change in     *)
(* this pass?  Open to doubt, it did.                                      *)
SourceChanged(s, seed, moved, from) ==
  LET found == Iterate([t \in Doubt |-> IF t.hit \/ t.todo = <<>> THEN t
                                        ELSE Follow(s, seed, moved, t)],
                       [todo |-> <<from>>, seen |-> {}, hit |-> FALSE], Steps)
  IN  found.hit \/ found.todo # <<>>

(* ChangeFrontier::must_execute *)
MustExecute(s, seed, moved, p) ==
  LET incoming == {e \in EdgesOf(s) : s.edges[e]["in"].node = p}
  IN  \/ p \in seed
      \/ incoming = {}
      \/ \E e \in incoming : SourceChanged(s, seed, moved, s.edges[e]["out"])

OutputIds(s, p) == IdsOf(s.slots["out"][p])

(* The cache after the nodes of P have run: OutputWriter::set for each     *)
(* output a node sets.  Proxies and SubGraphNodes set none.                *)
Written(s, c, def, P) ==
  LET out(p) == Compute(p, data[p], InputValues(s, c, def, p))
      ends == UNION {{<<p, k>> : k \in DOMAIN s.slots["out"][p]} :
                     p \in P \ (Interface \cup SubGraph)}
      at(i) == {x \in ends : s.slots["out"][x[1]][x[2]].id = i /\ out(x[1])[x[2]] # None}
  IN  [i \in SlotId |-> IF at(i) = {} THEN c[i]
                        ELSE LET x == CHOOSE x \in at(i) : TRUE IN out(x[1])[x[2]]]

(* One level of a pass t whose failing nodes are F.                        *)
RunLevel(s, def, seed, F, t, level) ==
  LET runs == {p \in level : MustExecute(s, seed, t.moved, p)}
      after == Written(s, t.cache, def, (runs \cap s.nodes) \ F)
      same == {p \in (runs \cap s.nodes \cap Cutoff) \ F :
                 \A i \in OutputIds(s, p) : after[i] = t.cache[i]}
  IN  [cache  |-> after,
       moved  |-> t.moved \cup (runs \ same),
       ran    |-> t.ran \cup runs,
       failed |-> t.failed \cup (runs \cap F \cap s.nodes)]

Pass(s, c, def, F) ==
  LET levels == Sort(s, Downstream(s, s.changed))
      after[k \in 0..Len(levels)] ==
        IF k = 0 THEN [cache |-> c, moved |-> {}, ran |-> {}, failed |-> {}]
        ELSE RunLevel(s, def, s.changed, F, after[k - 1], levels[k])
  IN  after[Len(levels)]

-----------------------------------------------------------------------------
(* Reporting.                                                              *)

(* The last edge wins on a slot of a sink that several lead to.            *)
Received(s, c, def, p, i) ==
  LET q == s.touching["in"][p]
      here == {k \in DOMAIN q : /\ s.edges[q[k]]["in"].index = i
                                /\ Delivered(s, c, def, q[k]) # None}
  IN  IF here = {} THEN None
      ELSE Delivered(s, c, def, q[CHOOSE k \in here : \A j \in here : j <= k])

(* collect_outputs, for one node: its outputs, or what a node without      *)
(* outputs has received.                                                   *)
NodeOutputs(s, c, def, p) ==
  IF s.slots["out"][p] # <<>>
  THEN [k \in DOMAIN s.slots["out"][p] |-> c[s.slots["out"][p][k].id]]
  ELSE [k \in DOMAIN s.slots["in"][p] |-> Received(s, c, def, p, k)]

(* The consumer overwrites what the result names.                          *)
Fold(s, c, def, ran) ==
  [out  |-> [p \in Path |-> IF p \in ran THEN NodeOutputs(s, c, def, p) ELSE shown.out[p]],
   edge |-> [e \in EdgeId |->
               IF e \in EdgesOf(s) /\ s.edges[e]["out"].node \in ran
               THEN Delivered(s, c, def, e) ELSE shown.edge[e]]]

(* It keeps nothing of a node or an edge that is gone.                     *)
Kept(s) ==
  [out  |-> [p \in Path |-> IF p \in s.nodes THEN shown.out[p] ELSE Absent],
   edge |-> [e \in EdgeId |-> IF s.edges[e] # None THEN shown.edge[e] ELSE Absent]]

-----------------------------------------------------------------------------
(* execute_sync: nothing to do, a cycle, or a pass.  The dirty set is      *)
(* drained and the failed nodes are put back.                              *)
Execute(F) ==
  LET P == Downstream(ns, ns.changed)
      t == Pass(ns, cache, default, F)
  IN  /\ ns.changed # {}
      /\ Placed(Sort(ns, P)) = P
      /\ F \subseteq ns.nodes \cap P
      /\ cache' = t.cache
      /\ ns' = [ns EXCEPT !.changed = t.failed]
      /\ shown' = Fold(ns, t.cache, default, t.ran)
      /\ UNCHANGED <<data, default>>

(* A removal that leaves its values in the cache.                          *)
ForgetKeepingCache ==
  LET inputs == UNION {IdsOf(ns'.slots["in"][p]) : p \in Path}
  IN  /\ data' = [p \in Path |-> IF p \in ns'.nodes THEN data[p] ELSE DefaultData]
      /\ default' = [i \in SlotId |-> IF i \in inputs THEN default[i] ELSE None]
      /\ cache' = cache
      /\ shown' = Kept(ns')

(* What the slots and nodes that an edit has removed take with them.       *)
Forget ==
  LET inputs == UNION {IdsOf(ns'.slots["in"][p]) : p \in Path}
      outputs == UNION {IdsOf(ns'.slots["out"][p]) : p \in Path}
  IN  /\ data' = [p \in Path |-> IF p \in ns'.nodes THEN data[p] ELSE DefaultData]
      /\ default' = [i \in SlotId |-> IF i \in inputs THEN default[i] ELSE None]
      /\ cache' = [i \in SlotId |-> IF i \in outputs THEN cache[i] ELSE None]
      /\ shown' = Kept(ns')

(* update_node_data_at, clear_node_data_at *)
UpdateNodeData(p, d) ==
  /\ p \in ns.nodes \ (Interface \cup SubGraph)
  /\ data' = [data EXCEPT ![p] = d]
  /\ ns' = [ns EXCEPT !.changed = @ \cup {p}]
  /\ UNCHANGED <<default, cache, shown>>

Mirrored(p) == IF p \in SubGraph \cap ns.nodes THEN {p, Proxy[p]["in"]} ELSE {p}

(* A setter that leaves the proxy's own mark out.                          *)
SetDefaultMarkingOne(p, i, v) ==
  /\ \A q \in Mirrored(p) : HasSlot(ns, "in", q, i)
  /\ default' = [j \in SlotId |->
                   IF \E q \in Mirrored(p) : ns.slots["in"][q][i].id = j THEN v ELSE default[j]]
  /\ ns' = [ns EXCEPT !.changed = @ \cup {p}]
  /\ UNCHANGED <<data, cache, shown>>

(* A setter that does not know of proxies.                                 *)
SetDefaultUnmirrored(p, i, v) ==
  /\ HasSlot(ns, "in", p, i)
  /\ default' = [default EXCEPT ![ns.slots["in"][p][i].id] = v]
  /\ ns' = [ns EXCEPT !.changed = @ \cup Mirrored(p)]
  /\ UNCHANGED <<data, cache, shown>>

(* update_input_slot_default_data_at, clear_input_slot_default_data_at and *)
(* their root-level siblings: a SubGraph's default goes to its InputProxy  *)
(* as well, and both are marked.                                           *)
SetDefault(p, i, v) ==
  /\ \A q \in Mirrored(p) : HasSlot(ns, "in", q, i)
  /\ default' = [j \in SlotId |->
                   IF \E q \in Mirrored(p) : ns.slots["in"][q][i].id = j THEN v ELSE default[j]]
  /\ ns' = [ns EXCEPT !.changed = @ \cup Mirrored(p)]
  /\ UNCHANGED <<data, cache, shown>>

(* set_subgraph_input_default, clear_subgraph_input_default: the same for  *)
(* a root-level SubGraph, by its id.                                       *)
SetSubGraphInputDefault(g, i, v) == RootSubGraph(g) /\ v # None /\ SetDefault(g, i, v)
ClearSubGraphInputDefault(g, i) == RootSubGraph(g) /\ SetDefault(g, i, None)

(* extract_fields_from_data, extract_fields_from_default_value: the fields *)
(* of an Interval come out as 0.                                           *)
OldFields(t, v) ==
  IF t \in Extracted /\ v \in [Field[t] -> Number] THEN v ELSE [f \in Field[t] |-> 0]

(* DataType::assemble, with one field replaced.                            *)
Assembled(t, v, f, x) == [g \in Field[t] |-> IF g = f THEN x ELSE OldFields(t, v)[g]]

(* update_node_data_field_at; the caller names the type.                   *)
UpdateNodeDataField(p, t, f, x) ==
  Field[t] # {} /\ UpdateNodeData(p, Assembled(t, data[p], f, x))

(* update_input_slot_default_field_at                                      *)
SetDefaultField(p, i, f, x) ==
  LET slot == ns.slots["in"][p][i]
  IN  /\ HasSlot(ns, "in", p, i) /\ Field[slot.type] # {}
      /\ SetDefault(p, i, Assembled(slot.type, default[slot.id], f, x))

-----------------------------------------------------------------------------
EngineInit ==
  /\ Init
  /\ data = [p \in Path |-> DefaultData]
  /\ default = [i \in SlotId |-> None]
  /\ cache = [i \in SlotId |-> None]
  /\ shown = [out |-> [p \in Path |-> Absent], edge |-> [e \in EdgeId |-> Absent]]

(* Nodes and ports come and go.  The ports are those of SubGraphs, with    *)
(* their proxies; those of a stand-alone InterfaceNode are left to         *)
(* NodeStates.  A node is removed with its subtree: remove_node by id is   *)
(* the same for a node without children, and of a SubGraph it is left out. *)
Restructure ==
  /\ \/ CreateStep
     \/ \E p \in Churn : RemoveNodeAt(p)
     \/ \E g \in SubGraph, d \in PortSides, type \in Type : AddSubGraphPort(g, d, type, FALSE)
     \/ \E g \in SubGraph, d \in PortSides, i \in 1..MaxPorts :
          \/ \E type \in Type : InsertSubGraphPort(g, d, i, type, FALSE)
          \/ RemoveSubGraphPort(g, d, i)
  /\ Forget

Rewire ==
  /\ \/ \E e \in EdgeId : \E w \in Wires[e] : Connect(e, w[1], w[2], w[3], w[4])
     \/ DisconnectStep
     \/ ReorderStep
  /\ Forget

SetStep ==
  \E p \in Path :
    \/ \E d \in DataAt[p] : UpdateNodeData(p, d)
    \/ \E t \in Type, w \in FieldsAt[p] : UpdateNodeDataField(p, t, w[1], w[2])
    \/ \E i \in DOMAIN ns.slots["in"][p] :
         \/ \E v \in DefaultsAt[p] : SetDefault(p, i, v)
         \/ \E w \in FieldsAt[p] : SetDefaultField(p, i, w[1], w[2])
         \/ p \in SubGraph /\ \E v \in DefaultsAt[p] : SetSubGraphInputDefault(p, i, v)
         \/ p \in SubGraph /\ ClearSubGraphInputDefault(p, i)

EditStep ==
  /\ Cardinality(ns.changed) <= MaxDirty
  /\ Restructure \/ Rewire \/ SetStep

ExecuteStep == \E F \in SUBSET Fallible : Execute(F)

EngineNext == EditStep \/ ExecuteStep

EngineSpec == EngineInit /\ [][EngineNext]_engine

-----------------------------------------------------------------------------
(* What the callers and the nodes answer for: no check in the code stands  *)
(* behind these, and the theorems that need them say so.                   *)

(* What a run makes of inputs of a kind are values, for each of its outputs. *)
RunsAreTypedOn(Inputs) ==
  \A p \in Path \ (Interface \cup SubGraph), d \in Data :
    \A ins \in [1..Len(Defs[p]["in"]) -> Inputs] : \A k \in 1..Len(Defs[p]["out"]) :
      Compute(p, d, ins)[k] \in Value \cup {None}

RunsAreTyped == RunsAreTypedOn(Seq(Value))

(* A graph is taken apart at its SubGraphs, not at their proxies: a        *)
(* SubGraph whose proxy is gone still takes ports, and gives the proxy's   *)
(* path slots.                                                             *)
ProxiesAreKept == \A g \in SubGraph, d \in Side : Proxy[g][d] \notin Churn

(* Nobody sets a default at an InputProxy itself, but at its SubGraph.     *)
NoneSetAtProxies ==
  \A g \in SubGraph : DefaultsAt[Proxy[g]["in"]] = {} /\ FieldsAt[Proxy[g]["in"]] = {}

-----------------------------------------------------------------------------
(* The cache and the defaults are keyed by slot id, and ids are never      *)
(* reused: no value stays filed under a slot that is gone.                 *)
EngineTypeOK ==
  /\ data \in [Path -> Data]
  /\ default \in [SlotId -> Value \cup {None}]
  /\ cache \in [SlotId -> Value \cup {None}]
  /\ \A i \in SlotId : cache[i] # None => \E p \in ns.nodes : i \in OutputIds(ns, p)
  /\ \A i \in SlotId : default[i] # None => \E p \in ns.nodes : i \in IdsOf(ns.slots["in"][p])
  /\ DOMAIN shown.out = Path /\ DOMAIN shown.edge = EdgeId

(* The nodes neither dirty nor fed, however indirectly, by a dirty one.    *)
Settled == ns.nodes \ Downstream(ns, ns.changed)

(* Between passes, a settled node's outputs in the cache are what a run of *)
(* it would set now, with every input resolved through the ports and       *)
(* proxies: what makes the frontier skip a node is what makes its inputs   *)
(* the same.                                                               *)
FreshThroughPorts ==
  \A p \in Settled \ (Interface \cup SubGraph) :
    LET out == Compute(p, data[p], InputValues(ns, cache, default, p))
    IN  \A k \in DOMAIN ns.slots["out"][p] :
          out[k] = None \/ cache[ns.slots["out"][p][k].id] = out[k]

(* A consumer who folds in every result, and forgets what is removed, has  *)
(* the current outputs of every settled node: a skipped node had nothing   *)
(* new to report, behind a SubGraph boundary too.                          *)
ReportsAreCurrent ==
  \A p \in Settled \ (Interface \cup SubGraph) :
    shown.out[p] = NodeOutputs(ns, cache, default, p)

(* It never holds an edge value that has gone stale: whenever what an edge *)
(* delivers changes, the node it leaves, a proxy included, is run and its  *)
(* edges are reported.                                                     *)
EdgeValuesAreCurrent ==
  LET clean == Settled
  IN  \A e \in EdgesOf(ns) : ns.edges[e]["out"].node \in clean =>
        shown.edge[e] \in {Absent, Delivered(ns, cache, default, e)}

(* A SubGraph input shows the default that its inside reads.               *)
DefaultsAreMirrored ==
  \A g \in SubGraph \cap ns.nodes : \A i \in DOMAIN ns.slots["in"][g] :
    Proxy[g]["in"] \in ns.nodes =>
      default[ns.slots["in"][g][i].id] = default[ns.slots["in"][Proxy[g]["in"]][i].id]

=============================================================================
