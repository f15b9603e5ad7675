----------------------------- MODULE Lifecycle -----------------------------
(***************************************************************************)
(* How nodes come and go, and what has to follow them.  A node is an       *)
(* entity in the NodeManager, a row of tables in NodeStates and an entry   *)
(* of the PathIndex, each written by a call of its own; errors and         *)
(* removals are kept by the id at the leaf of a path, and two paths may    *)
(* end in the same id.  Nodes are made by the factories registered under a *)
(* name (src/node_graph/node_manager.rs, path_index.rs, mod.rs).           *)
(*                                                                         *)
(* A pass is one step, of which only the effects on this bookkeeping are   *)
(* kept: Engine says which of the planned nodes the cutoff lets run.       *)
(***************************************************************************)
EXTENDS Planning

CONSTANTS
  Leaf,        \* Leaf[p]: the NodeId at the end of path p
  Name,        \* names of factories
  OwnedName,   \* the names callers build at run time
  Fallible,    \* nodes whose run may fail
  AsyncIo,     \* nodes whose execution_kind is AsyncIo
  Ends         \* bound: the <<from, to>> an edge is wired between

ASSUME LifecycleAssumption ==
  /\ DOMAIN Leaf = Path
  /\ \A p, q \in Path : Parent[p] = Parent[q] /\ Leaf[p] = Leaf[q] => p = q
  /\ OwnedName \subseteq Name /\ None \notin Name
  /\ Fallible \cup AsyncIo \subseteq Path \ (SubGraph \cup Interface)
  /\ Ends \subseteq Path \X Path

VARIABLES
  entities,   \* NodeManager.nodes
  children,   \* PathIndex.by_parent
  registry,   \* the keys of NodeManager.name_registry
  leaked,     \* NodeManager.leaked_names
  saved,      \* the name whose entry a caller has taken out of the registry
  errors,     \* Bookkeeping.errors: of node runs, and of input ports
  removed,    \* Bookkeeping.removed_since_last_execute
  known,      \* the ids a consumer of the results holds
  lost        \* history: removals that a refused call has taken with it

factories == <<registry, leaked, saved>>
told      == <<known, lost>>
books     == <<errors, removed, told>>
lifecycle == <<vars, entities, children, factories, books>>

Parents == Path \cup {Root}
Leaves(P) == {Leaf[p] : p \in P}
Below(q, P) == {p \in P : Parent[p] = q}
Live == Leaves(ns.nodes)

-----------------------------------------------------------------------------
(* The path index.                                                         *)

Indexed(p) == [children EXCEPT ![Parent[p]] = @ \cup {Leaf[p]}]

(* An index that forgets nodes at the root level only.                     *)
UnindexedAtRoot(P) == [children EXCEPT ![Root] = @ \ Leaves(Below(Root, P))]

Unindexed(P) == [q \in Parents |-> children[q] \ Leaves(Below(q, P))]

(* collect_subtree_paths: p, there or not, and what is indexed below it.   *)
Walk(p) ==
  Iterate([P \in SUBSET Path |-> P \cup {q \in Path : /\ Parent[q] \in P
                                                    /\ Leaf[q] \in children[Parent[q]]}],
          {p}, Cardinality(Path))

-----------------------------------------------------------------------------
(* Factories.                                                              *)

(* Every key is kept, of either kind.                                      *)
RegisterLeakingAll(n) ==
  /\ registry' = registry \cup {n}
  /\ leaked' = leaked \cup {n}
  /\ UNCHANGED <<vars, entities, children, saved, books>>

(* Registered under a name from the program text, or one built at run time,*)
(* which is leaked to become a key.                                        *)
Register(n) ==
  /\ registry' = registry \cup {n}
  /\ leaked' = leaked \cup (OwnedName \cap {n})
  /\ UNCHANGED <<vars, entities, children, saved, books>>

(* An unregistration that drops the key with the entry.                    *)
UnregisterWithKey(n) ==
  /\ n \in registry
  /\ registry' = registry \ {n}
  /\ leaked' = leaked \ {n}
  /\ saved' = n
  /\ UNCHANGED <<vars, entities, children, books>>

(* unregister_factory_by_name hands the entry to the caller.               *)
Unregister(n) ==
  /\ n \in registry
  /\ registry' = registry \ {n}
  /\ saved' = n
  /\ UNCHANGED <<vars, entities, children, leaked, books>>

(* A 'static key for the name: a live one, or one leaked before.           *)
HasKey(n) == n \in registry \/ n \in leaked

(* restore_factory_registration: without a key the entry is handed back.   *)
Restore ==
  /\ saved # None /\ HasKey(saved)
  /\ registry' = registry \cup {saved}
  /\ saved' = None
  /\ UNCHANGED <<vars, entities, children, leaked, books>>

-----------------------------------------------------------------------------
(* Creating.                                                               *)

(* leaked_factory_name *)
KeyName(n) == HasKey(n)

(* create_node_by_name_at_with_id: the manager makes the entity and puts   *)
(* it at p, whatever was there; then the tables are made.  A factory that  *)
(* fails has changed nothing.                                              *)
CreateByName(p, n) ==
  /\ n \in registry
  /\ entities' = entities \cup {p}
  /\ IF KeyName(n) THEN CreateNode(p) /\ children' = Indexed(p)
     ELSE UNCHANGED <<vars, children>>
  /\ UNCHANGED <<factories, books>>

(* create_node, create_node_with_id: by a type whose factory is known, for *)
(* the root only.                                                          *)
CreateByType(p) ==
  /\ Parent[p] = Root
  /\ entities' = entities \cup {p}
  /\ CreateNode(p)
  /\ children' = Indexed(p)
  /\ UNCHANGED <<factories, books>>

(* add_node_at_locked, for the paths in P: none of them is taken over.     *)
Enter(P) ==
  /\ P \cap entities = {}
  /\ entities' = entities \cup P
  /\ children' = [q \in Parents |-> children[q] \cup Leaves(Below(q, P))]

(* add_node_at: an entity made by the caller, whose slots are not known.   *)
AddNodeAt(p) ==
  /\ p \notin SubGraph \cup Interface
  /\ Enter({p})
  /\ ns' = [ns EXCEPT !.nodes = @ \cup {p}, !.changed = @ \cup {p},
                      !.slots = [d \in Side |-> [@[d] EXCEPT ![p] = <<>>]]]
  /\ UNCHANGED <<factories, books>>

(* add_subgraph_at_with_id: all three or none.                             *)
AddSubGraph(g) ==
  /\ CreateSubGraph(g)
  /\ Enter({g} \cup {Proxy[g][d] : d \in Side})
  /\ UNCHANGED <<factories, books>>

-----------------------------------------------------------------------------
(* Removing.                                                               *)

(* clear_errors_for_node, record_removal *)
ClearErrors(ids) == errors' = [node |-> errors.node \ ids, input |-> errors.input \ ids]
RecordRemoval(ids) == removed' = removed \cup ids

(* remove_node_at_locked, for the paths in P: their tables, then they.     *)
Leave(P) ==
  /\ ns' = RemoveNodes(ns, P)
  /\ entities' = entities \ P
  /\ children' = Unindexed(P)

(* remove_node: one root-level node; what is below it stays.               *)
RemoveRootNode(p) ==
  /\ Parent[p] = Root /\ p \in entities
  /\ Leave({p})
  /\ ClearErrors({Leaf[p]})
  /\ RecordRemoval({Leaf[p]})
  /\ UNCHANGED <<factories, told>>

(* A removal that clears the errors of p alone.                            *)
RemoveTreeClearingOne(p) ==
  LET P == Walk(p)
  IN  /\ Leave(P)
      /\ ClearErrors({Leaf[p]})
      /\ RecordRemoval(Leaves(P))
      /\ UNCHANGED <<factories, told>>

(* remove_node_at: p and all below it, even when there is no node at p.    *)
RemoveTree(p) ==
  LET P == Walk(p)
  IN  /\ Leave(P)
      /\ ClearErrors(Leaves(P))
      /\ RecordRemoval(Leaves(P))
      /\ UNCHANGED <<factories, told>>

-----------------------------------------------------------------------------
(* Edges, as far as they leave marks and errors.                           *)

(* add_edge_with_id clears the error of the port it leads to, and records  *)
(* it again when the slot takes no more edges.                             *)
Wire(e, p, q) ==
  LET free == [errors EXCEPT !.input = @ \ {Leaf[q]}]
      full == [errors EXCEPT !.input = @ \cup {Leaf[q]}]
  IN  /\ HasSlot(ns, "out", p, 1) /\ HasSlot(ns, "in", q, 1)
      /\ \/ Connect(e, p, 1, q, 1) /\ errors' = free
         \/ /\ ~ WithinLimit([d \in Side |-> Endpoint(d, IF d = "out" THEN p ELSE q, 1)])
            /\ UNCHANGED vars /\ errors' = full
      /\ UNCHANGED <<entities, children, factories, removed, told>>

(* subgraph_edges: by the input slots of the children of g; a source is    *)
(* inside when a child has the id at its leaf, wherever the source is,     *)
(* although "both endpoints are direct children".  (Without the order.)    *)
SubGraphEdges(g) ==
  {e \in EdgesOf(ns) :
     /\ Leaf[ns.edges[e]["out"].node] \in children[g]
     /\ \E c \in Path : /\ Parent[c] = g /\ Leaf[c] \in children[g]
                       /\ \E i \in IdsOf(ns.slots["in"][c]) :
                            \E k \in DOMAIN ns.conn["in"][i] : ns.conn["in"][i][k] = e}

Unwire(e) == Disconnect(e) /\ UNCHANGED <<entities, children, factories, books>>

-----------------------------------------------------------------------------
(* Passes.                                                                 *)

(* A list of what was removed, alive again or not.                         *)
ReportedAll == removed

(* The net-removal filter of build_execution_plan.                         *)
Reported == removed \ Live

(* The nodes that may be planned: the dirty ones and what they feed.       *)
Planned == Downstream(ns, ns.changed)

(* topological_sort places every planned node; validate_for_sync finds an  *)
(* AsyncIo node among them.                                                *)
Sortable == Placed(Sort(ns, Planned)) = Planned
NeedsAsync == Planned \cap entities \cap AsyncIo # {}

(* The removal list is taken before the plan is sorted and validated: with *)
(* a cycle, or with AsyncIo nodes in a sync call, it leaves with the error.*)
Refuse ==
  /\ ns.changed # {}
  /\ NeedsAsync \/ ~ Sortable
  /\ removed' = {}
  /\ lost' = lost \cup Reported
  /\ UNCHANGED <<vars, entities, children, factories, errors, known>>

(* A pass that runs ran, of which F fail.  The errors of the last one go,  *)
(* the consumer takes in the outputs, then the removals.                   *)
Pass(ran, F) ==
  /\ ns.changed \subseteq ran
  /\ F \subseteq ran \cap entities \cap Fallible
  /\ ns' = [ns EXCEPT !.changed = F]
  /\ errors' = [errors EXCEPT !.node = Leaves(F)]
  /\ removed' = {}
  /\ known' = (known \cup Leaves(ran)) \ Reported
  /\ lost' = lost \ Reported
  /\ UNCHANGED <<entities, children, factories>>

Execute ==
  /\ ns.changed # {} /\ Sortable
  /\ \E ran \in SUBSET Planned, F \in SUBSET Fallible : Pass(ran, F)

(* Nothing is dirty: the removals are all there is to report.              *)
ExecuteNothing ==
  /\ ns.changed = {} /\ removed # {}
  /\ removed' = {}
  /\ known' = known \ Reported
  /\ lost' = lost \ Reported
  /\ UNCHANGED <<vars, entities, children, factories, errors>>

-----------------------------------------------------------------------------
LifecycleInit ==
  /\ Init
  /\ entities = {}
  /\ children = [q \in Parents |-> {}]
  /\ registry = {} /\ leaked = {} /\ saved = None
  /\ errors = [node |-> {}, input |-> {}]
  /\ removed = {} /\ known = {} /\ lost = {}

FactoryStep ==
  \/ \E n \in Name \ registry : Register(n)
  \/ saved = None /\ \E n \in Name : Unregister(n)
  \/ Restore

MakeStep ==
  \/ \E p \in Path, n \in Name : CreateByName(p, n)
  \/ \E p \in Path : AddNodeAt(p) \/ CreateByType(p)
  \/ \E g \in SubGraph : AddSubGraph(g)

UnmakeStep == \E p \in Path : RemoveRootNode(p) \/ RemoveTree(p)

WireStep ==
  \E e \in EdgeId : Unwire(e) \/ \E w \in Ends : Wire(e, w[1], w[2])

PassStep == ExecuteNothing \/ Refuse \/ Execute

LifecycleNext == FactoryStep \/ MakeStep \/ UnmakeStep \/ WireStep \/ PassStep

LifecycleSpec == LifecycleInit /\ [][LifecycleNext]_lifecycle

-----------------------------------------------------------------------------
(* "The leaked-string footprint is bounded by the count of distinct        *)
(* factory names ever registered": of those built at run time.             *)
LifecycleTypeOK ==
  /\ entities \subseteq Path
  /\ children \in [Parents -> SUBSET Leaves(Path)]
  /\ registry \subseteq Name /\ leaked \subseteq OwnedName /\ saved \in Name \cup {None}
  /\ errors \in [node : SUBSET Leaves(Path), input : SUBSET Leaves(Path)]
  /\ removed \cup known \cup lost \subseteq Leaves(Path)

(* NodeManager, NodeStates and the PathIndex hold the same nodes, though   *)
(* each call writes them one after the other: no half-made node, no node a *)
(* subtree walk misses, below a removed parent either.                     *)
TablesAgree ==
  /\ entities = ns.nodes
  /\ \A q \in Parents : children[q] = Leaves(Below(q, ns.nodes))

(* No error outlives the node it is about: it "can never be cleared by a   *)
(* later run".  (A saved Edge replayed onto a removed node would leave one;*)
(* edges are wired between live nodes here.)                               *)
ErrorsAreOfLiveNodes == errors.node \cup errors.input \subseteq Live

(* A consumer that follows the results of the calls that succeed has every *)
(* clean node, and of what is gone only what the next pass will report or  *)
(* what left with the error of a refused call: an id that is removed and   *)
(* made again, at the same path or another, is not dropped.                *)
ConsumerIsCurrent ==
  /\ known \subseteq Live \cup removed \cup lost
  /\ \A p \in ns.nodes \ ns.changed : Leaf[p] \in known

(* A taken entry of a name built at run time can always be put back.       *)
TakenEntriesReturn == saved \in OwnedName => HasKey(saved)

=============================================================================
