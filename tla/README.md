# cognet: a verification project

cognet is a node-graph execution engine in Rust: nodes with typed slots, edges
between slots, nested SubGraphs, and an incremental executor that recomputes
what an edit made out of date. Paths below are relative to `src/src/`;
`api.rs` is `node_graph/node_graph_api.rs`.

## 1. The system

| Component | State | Operations | Talks to |
|---|---|---|---|
| Incremental executor (`api.rs:1200-1824`) | the plan, the change frontier, the failed and executed lists of one call | `execute_sync`, `execute_async`: plan, validate, drain, run levels, restore, collect | reads NodeStates under a read lock per level, writes the cache from parallel runs, takes the removal list |
| NodeStates (`node_graph/node_state.rs`) | nodes, slot tables, reverse owner maps, edges and four edge indexes, the dirty set, the path index, a structure counter | add and remove nodes, slots, edges; reorder; mark, peek, drain, restore | everything; behind an `RwLock` |
| Edge insertion (`node_graph/node_graph_system.rs:98-380`) | none | retarget a SubGraph endpoint to its proxy, validate, reject a duplicate id, add | NodeStates, error map |
| Topological sort (`node_graph_system.rs:14-85`) | none | Kahn's algorithm over a set of paths | NodeStates |
| Editing API (`api.rs`, `path_api.rs`, `mod.rs`) | none | create and remove nodes (one node, a subtree), set data and slot defaults, reorder, mark everything dirty | NodeStates, node manager, cache, bookkeeping |
| SubGraph and interface ports (`subgraph_helpers.rs`, `interface_helpers.rs`) | locked labels in the node data | add, insert, remove, rename, lock ports on a proxy and on its parent | NodeStates |
| Value resolution (`api.rs:372-503`) | none | input values of a run, followed through interface proxies | NodeStates, cache |
| Execution cache (`execution_cache.rs`) | output slot id to value | written by runs, evicted by removals and by `evict_mesh_outputs` | executor |
| Errors and bookkeeping (`mod.rs:50-157`) | error map, `removed_since_last_execute` | add, clear per node, clear execution errors, take the removal list | executor, editing API |
| Node manager (`node_manager.rs`) | path to node object; a factory registry by type and by name; leaked names | register, unregister, restore factories; create, get, remove nodes | editing API, executor |
| Path index (`path_index.rs`) | parent path to child ids | insert, remove, walk a subtree | editing API |
| Nodes (`node/`) | none | `execute`, `execute_async`, `output_cutoff` | the executor's context |

What is hard:

* **Incrementality.** Only the dirty nodes and what they reach are planned, and
  value-based cutoff skips planned nodes none of whose sources delivered
  something new. One mark lost anywhere leaves an out-of-date output that
  nothing will recompute.
* **Concurrency.** Runs of one level are parallel. Reordering, marking, port
  editing, setting a SubGraph's defaults and `execute_*` need only `&NodeGraph`,
  so they can fall between the steps of a pass, and of each other.
* **Failure.** A node run may fail or panic before or after it wrote; planning
  may fail after it took the removal list; the future of `execute_async` may be
  dropped at its await, and a panic of an AsyncIo node unwinds it.
* **Redundant state.** Five maps restate what slots and edges say; a node is in
  three tables; a port in three or four, and its default in two.
* **Indirection.** A value passes through SubGraph proxies that run nothing;
  what is delivered, what has changed and what is reported each look through
  them with a walk of their own.

What makes each component right is under the properties of section 3.

## 2. The modules

Each view of the system is as detailed as its properties need, and no more:

| Module | View | Built on |
|---|---|---|
| `Executor` | a pass taken apart, step by step, over nodes with one slot | `Vec` |
| `Memo` | what incremental execution promises | |
| `ExecutorMemo` | the refinement mapping from `Executor` to `Memo` | `Executor`, `Memo` |
| `NodeStates` | the tables of the graph and the calls that edit them | `Vec` |
| `Planning` | what a pass visits, and in which order | `NodeStates` |
| `Engine` | values: passes over slots, ports, defaults; results | `Planning` |
| `Lifecycle` | nodes coming and going: factories, entities, paths, errors, removal reports | `Planning` |
| `Ports` | ports by label: the steps of overlapping calls | `Vec` |
| `Vec`, `Loop`, `Nodes` | `Vec::retain`; loops; the Select node | |
| `MC*` | the instances for TLC | |
| `*Proofs` | section 4 | |

A mapped definition may have a sibling in front of it (`RemoveEdgesOneSided`
before `RemoveEdges`): the same code with a plausible bug, used by nothing. It
stands for the definition when the properties are tested against the model:
`PROJECT.json` names for every property one that breaks it.

### `Executor`, `Memo`, `ExecutorMemo`

The executor and the edits that feed it, at node granularity: a node has one
multi-connection input slot (`conn[n]`, the ordered connection list) and one
output slot (`cache[n]`). Node data and slot defaults are one value `data[n]`.
What a node computes is a constant operator `Compute(n, data, inputs)`, about
which nothing is assumed but its type.

| Model | Code |
|---|---|
| `live`, `data`, `conn` | `NodeStates.nodes` with the node manager, `NodeState.data` and slot defaults, `edges` with `input_connections` |
| `cache`, `changed`, `removed`, `errors` | `ExecutionCache.outputs`, `NodeStates.changed_nodes`, `Bookkeeping.removed_since_last_execute`, execution errors in `Bookkeeping.errors` |
| `api`, `taken`, `seed`, `waits`, `pending` | the kind of call and its `ExecutionPlan`; `waits`, the sources each node had when it was planned, is what orders its levels |
| `run`, `reading`, `frontier`, `ran`, `failed` | the runs of the current level and the data and input values they hold (`Context`), `ChangeFrontier.changed`, the executed and failed lists |
| `AddNode`, `RemoveNode`, `Connect`, `Disconnect`, `UpdateData` | `register_named_node_in_states`, `remove_node`, `add_edge_with_id`, `remove_edge`, the data and default setters |
| `MarkAllNodesDirty`, `ReorderInputEdge`, `ReorderOutputEdge` | the `&self` callers that may overlap a pass, |
| `DropPortEdge`, `SetPortDefault` | among them `remove_subgraph_input` and `_output` with the edges they take, and `set_` and `clear_subgraph_input_default`, on the nodes of `Boundary`, which read through a port |
| `ExecuteNothing`, `ExecuteCyclic`, `Plan` | `build_execution_plan` with its three ends: nothing dirty, a cycle, a plan |
| `Reject`, `Commit` | `validate_for_sync`; `commit_plan_drain` and the clearing of execution errors |
| `StartLevel` | the next topological level, filtered by `must_execute`; in async mode its futures wait for its sync half |
| `BeginRun`, `FinishRun`, `FailRun`, `RunMissing` | `execute_node_sync` and the async prepare and await: inputs are read, then outputs are written, compared, or the run fails; a path without an entity completes |
| `RecordRuns`, `EndPass` | folding the results of a batch into the frontier, the errors and the lists; `restore_dirty_for_failed` |
| `DropFuture` | the caller drops the future at `join_all(..).await` |
| `PanicAsync` | an AsyncIo node panics in `prepare_async` or in its future |

Levels are not a variable: the next level is what waits (`waits`) for nothing that
is `pending`, which is what Kahn's algorithm releases next (`Planning.Sort` has
the algorithm). A `&self` call may take an edge away meanwhile: the levels stay,
the inputs and `must_execute` see the edges of the moment.
Running a sync node is two steps (inputs read, outputs written), so the runs of
a level interleave.

What `FailRun` records is an error, or a panic of a SyncCpu node, which
`catch_unwind` turns into one. Four specifications share these actions. `Spec`
has the `&self` calls at every moment but between the peek and the drain of a
pass; `SharedSpec` has them there too; `DropSpec` adds the passes that are
abandoned, `DropFuture` and `PanicAsync`; `FairSpec` is `Spec` with weak fairness
of `PassStep`. The port calls that add, insert or rename move no value and mark
nobody, and are left out of `SharedCall`.

`Memo` is the promise without the mechanism: a graph, a cache and a set of
nodes that are *owed* a run. An edit may do anything as long as it runs up the
debts it causes; a debt is paid by a run that leaves the node up to date and by
nothing else. `ExecutorMemo` says who is owed a run at each moment of a pass
(`Owed`: dirty, or planned with a reason to run, or running, or failed) and
`KeepsPromise` says that under this mapping the executor is a `Memo`: draining
the dirty set, pruning by cutoff and failing pay nothing.

### `NodeStates`

Where `Executor` has one slot per node, `NodeStates` has the slot tables, and
where `Executor` has one list per node, it has every map the code keeps. The
struct is one record `ns`; each of its `&mut self` methods is an operator from
records to records; an action is a call of the API, composed of those methods
in the order the code calls them. What the code writes once for inputs and once
for outputs takes the side `d` here.

| Model | Code |
|---|---|
| `ns.nodes`, `ns.slots[d][p]` | `nodes`, `input_slots`, `output_slots` |
| `ns.owner[d][i]` | `input_slot_owner`, `output_slot_owner` |
| `ns.edges[e][d]` | the two ends of an `Edge`: path, slot index, slot id |
| `ns.conn[d][i]`, `ns.touching[d][p]` | `input_connections`, `output_connections`; `incoming_edges`, `outgoing_edges` |
| `ns.changed` | `changed_nodes` |
| `AddSlot`, `InsertSlot`, `RemoveSlot`, `Reindex`, `Renumber` | the slot methods of `node_state.rs:203-480` |
| `AddNode`, `RemoveNodes`, `AddEdge`, `RemoveEdges` | `add_node`, `remove_node`, `add_edge`, `remove_edge` |
| `CreateNode`, `CreateSubGraph`, `RemoveNode`, `RemoveNodeAt` | creation by name, `add_subgraph_at_with_id`, removal of one node by id, of a subtree by path |
| `AddSubGraphPort`, `InsertSubGraphPort`, `RemoveSubGraphPort` | the port calls of `subgraph_helpers.rs`, plain and locked |
| `AddInterfacePort`, `RemoveInterfacePort` | `interface_helpers.rs` |
| `Connect`, `InsertEdge`, `Retargeted`, `WithinLimit` | `connect_nodes_at_with_id` (resolves the slots) and the `add_edge_with_id` it ends in |
| `Disconnect`, `ReorderEdge`, `Drain` | `remove_edge`, `reorder_*_edge`, `drain_changed_nodes` |
| `ExternalEnd`, `ExternalSlot` | `edge_external_target`, `edge_external_source`, `subgraph_external_*_slot` |

A removed slot's id may come back once nothing mentions it, as a fresh ulid:
ids are a finite set per path and `Mint` takes an unused one. In `Spec` an
interface port is removed only when no edge is on it (`RemoveIdlePort`);
`PortSpec` lifts that, and is refuted (finding 5). SubGraphs come from
`CreateSubGraph` alone, with their proxies; `create_node_by_name` under the name
"SubGraph" would make one without, and is left out.

### `Planning`, `Engine`

`Planning` is the part of a pass that reads edges only: `Downstream` is the walk
of `build_execution_plan`, `Sort` with `InDegree` and `Release` is
`topological_sort`. A loop of the code is `Iterate` of `Loop`, a function of the
turn, and not a RECURSIVE operator, of which nothing could be proved.

`Engine` is `NodeStates` with values: `data`, slot defaults by input slot id, the cache by
output slot id, and `shown`, a consumer that overwrites what it holds with
every `ExecutionResult`. A pass is one step, because `NoGlitch` of `Executor`
says the runs of a level may be taken together.

| Model | Code |
|---|---|
| `Resolve`, `Delivered`, `InputValues` | `resolve_value_through_interface` with its visited set, `build_execution_context` |
| `SourceChanged`, `MustExecute` | the change frontier, which looks through proxies by itself |
| `Written`, `RunLevel`, `Pass`, `Execute` | the level loop of `execute_sync_inner`, cutoff by comparing the outputs before and after |
| `NodeOutputs`, `Fold`, `Kept` | `collect_outputs` and its edge values; the consumer |
| `UpdateNodeData`, `SetDefault`, `SetSubGraphInputDefault`, `UpdateNodeDataField`, `SetDefaultField` | the setters, whole and by the field, mirrored onto the InputProxy |
| `Restructure`, `Rewire` | the edits of `NodeStates`: nodes created and removed with their subtree, SubGraph ports added, put in front of others and removed; edges wired, removed and reordered |
| `Forget` | what a removal takes with it: cache entries, defaults, data |

`Restructure` has no ports of stand-alone InterfaceNodes and no `remove_node` by id.
For a node without children that is `RemoveNodeAt`; for a SubGraph, whose proxies
it would leave behind, see `NodeStates` and `Lifecycle`.

The recursion of `resolve_value_through_interface` and the stack of
`source_changed` are lists of what is still to be tried, in the order in which
the code tries it: a proxy's connections, depth first, then its default. The
visited set outlives the branch that filled it, as in the code. `Steps` turns
are enough: an edge is pushed once, because the port it feeds is expanded once,
and so is each port an edge comes from, for its default.

### `Lifecycle`

`NodeStates` with the other tables a node is in: `entities` (the manager),
`children` (the path index), and what is kept by the id at the leaf of a path,
which two paths may share: `errors`, `removed`, and `known`, the ids a consumer
of results holds. `lost` is not in the code: it remembers what refused calls took
from the removal list. Factories are registered under names, the names built at run
time leaked to become keys; an entry may be taken out and put back.

| Model | Code |
|---|---|
| `Register`, `Unregister`, `Restore`, `KeyName` | `register_factory_with_name_owned`, `unregister_factory_by_name`, `restore_factory_registration`, `leaked_factory_name` |
| `CreateByName`, `CreateByType`, `AddNodeAt`, `AddSubGraph` | the four ways a node is made, over a live one where the code allows it |
| `RemoveRootNode`, `RemoveTree` | `remove_node`, `remove_node_at` |
| `Wire`, `Unwire` | the errors an input port collects and loses |
| `SubGraphEdges` | `subgraph_edges` |
| `Execute`, `Pass`, `ExecuteNothing`, `Reported` | the removal list and its net-removal filter, execution errors |
| `Refuse` | the call that takes the removal list and then meets a cycle (`Sortable`) or, in sync mode, an AsyncIo node (`NeedsAsync`) |

### `Ports`

The `&self` port calls as the steps between which they give up the lock: find
an index, act on it; add a port, read the locked labels, write them back.
`call[c]` is where caller `c` is. The tables of a node are the labels of the
proxy's inputs and outputs and of the SubGraph's external slots. Ids, types and
edges of the same slots are in `NodeStates`, where a call is one step. Nothing
keeps calls apart but the lock they take for each step; `overtaken` records that
an index a caller holds may have been shifted.

## 3. What the runs show

The properties of the passing runs:

| Run | Property | Says |
|---|---|---|
| `executor_diamond` | `StaleIsDirty` | between passes a live node is dirty or its cached output is what it would compute now, over edits, passes, cutoff, failures and marks during a pass |
| | `ErrorsAreRetried` | a node with an execution error is dirty |
| | `CutoffPrunes` | what ran was dirty or had a source that moved |
| | `NoGlitch` | no run changes an output a consumer of the same pass has read |
| | `ErrorKeepsDirty` | a call that answers with an error loses no dirty node |
| | `KeepsPromise` | refinement of `Memo` |
| `executor_overlap` | `StaleIsDirty`, `CutoffPrunes`, `KeepsPromise` | the same while ports are removed and defaults set in the middle of a pass |
| | `ErrorKeepsDirty` | a call refused for a cycle loses no dirty node |
| | `PassReturns` | a call that started returns, under `FairSpec`, in a graph that can be wired into a cycle |
| `nodestates_ports` | `OwnersAgree` | the reverse owner maps are the inverse of the slot tables |
| | `EdgesAgree` | the path, index and slot id an edge carries name one slot |
| | `EdgesAreTyped` | both ends of an edge still have one type after any shift |
| | `PortsAgree` | an InterfaceNode has the same ports on both sides, a SubGraph those of its proxies |
| | `ExternalEndsResolve` | the way from an edge back to its external port and the way in agree |
| | `FeedChangesAreMarked` | an edit that changes what a slot delivers marks its node: what `Executor` assumes of edits |
| `engine_ports` | `FreshThroughPorts` | `StaleIsDirty` with slots: what the frontier skips has the inputs it had, resolved through proxies and defaults |
| | `ReportsAreCurrent` | a consumer who folds in every result holds the current outputs |
| | `EdgeValuesAreCurrent` | and no stale edge value |
| | `DefaultsAreMirrored` | a SubGraph input shows the default its inside reads |
| | `SortIsRight` | Kahn's algorithm with its in-degree counts, against the definition of a topological order: the wires of this instance close no cycle |
| | `IndexesAgree`, `EdgesAgree`, `LimitsHold`, `ExternalsAreAliases`, `FeedChangesAreMarked` | the tables, over a SubGraph with nodes inside and outside |
| `engine_shift` | `FreshThroughPorts`, `DefaultsAreMirrored` | values and defaults stay with their port when one is put in front of it or taken away |
| | `SortIsRight` | the sort is stuck exactly on a cycle, through the proxies or at a node inside |
| `lifecycle` | `TablesAgree` | manager, tables and path index hold the same nodes |
| | `ErrorsAreOfLiveNodes` | no error outlives its node |
| | `ConsumerIsCurrent` | an id removed and made again before the next pass is not lost to the consumer; what the consumer keeps of the gone is what will be reported, or what a refused call has lost (finding 2) |
| | `TakenEntriesReturn` | a factory entry taken under a run-time name can be put back |
| `ports` | `LabelsMirror` | a port has one label, in every table, whenever the lock is free |
| | `CallsHitTheirPort` | a call by label acts on the port it named unless a removal, insertion or renaming overtook it |

besides one type invariant per module. The runs that end in a counterexample
are in section 5. Some of these say less than their name may suggest.
`LabelsMirror`: `Change` writes all tables of a node in one action, as the calls
do under one write lock, so what it says is that the *calls* shift, rename and
remove alike. `CallsHitTheirPort` leaves the overtaken calls out, and those do hit
another port (section 6).

**Bounds.**

* `executor_diamond`: three nodes with doubled edges are the smallest diamond, a
  source feeding a node directly and through another, so that a node has a moved
  and an unmoved source in one pass. Two connections per slot give the limit and
  an order to permute. Two values and a node function (`Gate`) that forwards its
  input or ignores it make an input change leave the output equal, which is what
  cutoff is for. One node is AsyncIo, two opt into cutoff, two may fail.
* `executor_overlap`: three nodes in a chain, the middle one reading through a port,
  with an edge that closes a cycle in place of the first: one connection per slot.
  Here a node is AsyncIo and may fail, too.
* `nodestates_ports`: a port in front of another, two types to tell them apart,
  an edge on either side of the proxy. `Ids` bounds the ids a path reuses.
  `DrainedSpec` lets edits happen when nothing is dirty: they do not read the
  dirty set, and the empty set is the hardest case for `FeedChangesAreMarked`.
* `engine_ports`: from outside, through an input port, an inner node and an
  output port, to a sink, with a fifth edge past any of these. `BuiltSpec` starts
  after the nodes and ports were made, all dirty; the inner node and one port
  still come and go (`Churn`, `PortSides`). `MaxDirty = 0` lets an edit happen
  when all is clean, save that a failed node stays dirty and has to be retried
  first; `Executor` has the edits that pile up. Values have two fields, of which
  one varies, and the defaults are set whole and by the field.
* `engine_shift`: the same built graph with room for a second input port; `e1` and
  `e2` lead to either, or close a cycle. A pass over a cycle is refused and cleans
  nothing, so that rewiring goes on then (`Rewiring`).
* `lifecycle`: a root-level node and one inside a SubGraph under the same leaf
  id, an edge between them either way or around the inner one, one AsyncIo node,
  a name from the program text and one built at run time. `QuietSpec` registers
  factories only when nothing is pending, does nothing else while an entry is out
  of the registry and stops editing at two dirty nodes: factories are independent
  of what is pending. A node is made over one without slots; one slot id per node
  lets no node *with* slots be made over, which the theorems have.
* `ports`: two callers, two labels, two ports, a SubGraph and an InterfaceNode.
  `Room` counts the ports being added.

Nothing bounds the number of edits, marks, calls and passes: the instances are
finite without a counter.

**Fairness.** `FairSpec` has weak fairness of `PassStep` alone: an execute call
is a loop on the caller's thread, its runs are scheduled by rayon or the async
runtime, and a node run is taken to end. No edit and no call is fair.

## 4. What is proved

Everything here holds for every value of the constants that satisfies the
named assumptions of the module. TLC evaluates these on every instance. Six
theorems have hypotheses besides, which are named definitions of the model and
are spelled out below.

### The executor (`ExecutorProofs`)

From `NodeAssumption`, `ValueAssumption` and `ComputeAssumption`, for every set
of nodes, wiring, connection limit, node function and choice of async, cutoff
and fallible nodes: `TypeCorrect`, `StaleNodesAreDirty`, `FailedNodesAreRetried`,
`CutoffIsTight`, `RunsSeeSettledInputs` (`NoGlitch`), `RejectionKeepsDirty`.

`StaleIsDirty` speaks of the moments between passes; inside a pass the dirty set
is empty while outputs are out of date, so it is not inductive. `IInv` says
where an out-of-date output is accounted for at every moment (`StaleCovered`):
dirty, or failed, or being computed, or planned with a reason to execute
(`Arriving`). For that to survive a step, the plan must stay closed under
consumers (`PlanClosed`), a running node must hold its current inputs unless it
was marked since (`ReadingCurrent`), and no pass state may leak out of a pass
(`PassShape`). `ErrorsCovered` and `RunsExplained` do the same for errors and for
cutoff. Because a `&self` call may take an edge away in the middle of a pass, the order of
the levels is a fact about `waits`, and `WaitsCover` says that what is still to be
read from is still waited for. `Invariance` is `Spec => []IInv`; there is one
lemma per action, the `&self` calls included.

### The refinement (`MemoProofs`, `ExecutorProofs`)

`OnlyOwedNodesAreStale` says what the promise is worth: in every behaviour of
`Memo`, a node that is owed nothing is up to date. `ImplementsMemo` is
`Spec => KeepsPromise`: initial states map to initial states, and each step of
`Executor` to an edit, a run or a stutter of `Memo`, from `IInv` before and
after it and one more invariant, that what runs is live.

### The graph's tables (`VecProofs`, `NodeStatesProofs`)

From `PathAssumption`, `SlotAssumption`, `PortDefsAssumption`, `NoneAssumption`
and `FiniteAssumption` (a graph has finitely many paths and edges), for every set of paths, SubGraphs and proxies, slot
definitions, types, edges and port bound, `Spec` implies

| Theorem | Property |
|---|---|
| `TypeCorrect` | `TypeOK` |
| `IndexesStayInStep`, `OwnersStayInStep` | `IndexesAgree`, `OwnersAgree` |
| `EdgesStayAttached`, `EdgesStayTyped` | `EdgesAgree`, `EdgesAreTyped` |
| `LimitsStayHeld`, `ExternalsStayAliases` | `LimitsHold`, `ExternalsAreAliases` |
| `PortsStayAlike`, `ExternalEndsStay` | `PortsAgree`, `ExternalEndsResolve` |
| `FeedChangesStayMarked` | `FeedChangesAreMarked` (an action property) |

No two of these can be proved apart: that an edge index follows a shifted slot
needs the owners, that a removal takes all edges of a slot needs the
connection index, that the two tables of a proxy may be indexed alike needs the
ports. The inductive invariant is `Good`: `Sound` (`Filed`, `Owned`, `Attached`,
`SameTypes`, `Limited`), `Vacant` (only a proxy whose node was removed may hold
slots; what a new node fills is empty) and `SamePorts`. It is a predicate of a
*record*, not of the state, so the argument is one lemma per method of
`NodeStates`, from `Sound` to `Sound`, and an action follows by composing the
lemmas in the order in which it composes the methods. A change of one slot
table (`OneTable`) is treated once, for insertion, removal, appending and
filling alike. `Filed` counts by injectivity (`Once`) where the property counts
by cardinality. Alongside, each method is shown to mark whoever's feed it
changes (`Marked`), which is transitive.

That `Spec` does not remove a wired interface port is essential: `Attached` is
what `nodestates_dangling` violates without it.

`VecProofs` has what `Vec::retain` and the CommunityModules' `InsertAt` and
`RemoveAt` do to positions; `Retain` picks the k-th smallest index, which is
proved from cardinalities, not by induction over sequences. It also has what a
loop (`Iterate`) keeps (`IterateKeeps`), and that a walk that only adds to a
finite set ends up closed (`WalkIsClosed`).

### Planning and values (`EngineProofs`, `FreshProofs`)

The specification is `EngineSpec`, from the empty graph and for every `MaxDirty`:
the instance's `BuiltSpec`, which starts from a graph already built, and its
`MaxDirty = 0` are there to keep TLC's state space small, and the theorems do
without them. Besides the assumptions above: `EngineAssumption`, that what is
set is a value or data (`BoundsAssumption`), and

| Theorem | Property | Hypotheses |
|---|---|---|
| `SortStaysRight`, `PlansStayRight` | `SortIsRight`, over `Spec` and over `EngineSpec` | none |
| `DefaultsStayMirrored` | `DefaultsAreMirrored` | `NoneSetAtProxies` |
| `EngineIsTyped` | `EngineTypeOK` | `ProxiesAreKept`, `RunsAreTyped` |
| `OutputsStayFresh` | `FreshThroughPorts` | `ProxiesAreKept`, `RunsAreTyped` |
| `ReportsStayCurrent` | `ReportsAreCurrent` | `ProxiesAreKept`, `RunsAreTyped` |
| `EdgeValuesStayCurrent` | `EdgeValuesAreCurrent` | `ProxiesAreKept`, `RunsAreTyped` |

The hypotheses are what no check in the code stands behind. `RunsAreTyped`: a
run sets values, not something else. `ProxiesAreKept`: no caller removes a proxy
by itself; the code does not refuse that, and a port added to the SubGraph
afterwards would give slots to a path without a node. `NoneSetAtProxies`: a
default of a SubGraph's input is set at the SubGraph, which mirrors it to the
InputProxy; set at the proxy itself, it is mirrored nowhere. `HypothesesHold` in
`MCEngine` has TLC check all three on the instance.

*The sort.* `SortInv` says where Kahn's algorithm stands after any number of
levels: the degrees left are the counts of edges from what is not yet released,
and what is placed is in order. What is never placed is fed by what is never
placed, so that going back along the edges never ends, which in a finite graph
is a cycle (`UnplacedIsCyclic`); and a cycle cannot be placed
(`PlacedIsAcyclic`).

*Freshness.* `FreshThroughPorts` speaks of the settled nodes, those not
downstream of a dirty one. That is not inductive: when a pass or an edit cleans
or rewires something, what matters is why the *inputs* of a node are what they
were, and they come through ports that run nothing. The invariant `Current` is
therefore about sets of edges closed under going back through clean ports
(`Traced`): a clean node all of whose edges are in such a set holds what it
would compute, has been reported so, and so has each such edge. A settled node
is one (`CurrentIsFresh`). Three arguments carry it:

1. Two walks back that go along edges with the same sources, the same values in
   the cache and the same defaults deliver the same, though they are walks in
   two different graphs (`ResolveAgrees`, `WalksPair`). From this,
   `EditCarries`: what can be traced after an edit could be traced before it and
   delivers what it did, because the edit has marked every node whose feed it
   changed (`FeedChangesStayMarked`, per method).
2. In a pass, what feeds a node is in earlier levels or in none, so a node that
   ran holds what it would compute *at the end* (`RanIsFresh`), whoever else
   fails.
3. A node in no level is fed from outside what is downstream (`UnplannedRests`).
   One that was skipped has, for each of its edges, a walk of `source_changed`
   that found nothing; such a walk has looked at every edge behind
   (`UnchangedIsStill`), so its feeds are traced and have not moved
   (`SkippedRests`). Cutoff makes a node that has run count as unmoved: it
   holds what it held.

### Lifecycle (`LifecycleProofs`)

`LifecycleSpec` implies `LifecycleTypeOK`, `TablesAgree`,
`ErrorsAreOfLiveNodes`, `ConsumerIsCurrent` and `TakenEntriesReturn`
(`LifecycleIsTyped`, `TablesStayAgreed`, `ErrorsGoWithTheirNodes`,
`ConsumersStayCurrent`, `TakenEntriesCanReturn`). They hold of the refused
passes too: `Pending`, which says what the removal list and the consumer know of
one another, has `lost` for what such a call took with it.

The code lets a caller make a node over a live one at the same path. The old
slots' owners and edges are then left behind, so `Good` does not survive, and
the first five theorems rest on what does (`Standing`: only live nodes have
slots, and edges lead into live nodes). `LInv` adds what links the tables: the two books
kept by leaf id agree with the nodes although two paths may share a leaf
(`ErrorsAreOfLiveNodes`, `Pending`), and no key is forgotten (`KeysAreKept`).
The subtree walk finds every descendant because each live node's parent is live
and lists it (`TablesAgree`).

`CopiesStayComplete`: `LifecycleSpec /\ [][SlotsStay]_vars` implies
`CopiesAreComplete`, that `subgraph_edges` misses no edge between children of the
SubGraph and returns none that leads elsewhere. It needs the edge indexes, hence
`Good`, hence that no node *with slots* is made over, which is what `SlotsStay`
says. Where the sources may lie is another matter (section 6).

### Ports (`PortsProofs`)

For any number of callers, nodes, labels and ports: `PortsMirror` and
`PortsAreHit`, from `PortsInv`: the calls are of their kinds, the labels mirror, and
an index that was not overtaken is that of its label. Nothing is assumed about who
calls while another is inside.

### Only model-checked

`PassReturns`: liveness and `ENABLED` are outside what the prover does. What the
runs of section 5 refute, which no theorem could state. That `Steps` turns end
every walk of `Resolve` is argued above and used in no proof: the theorems hold
of the walk as it is bounded, and `source_changed` answers "changed" if it were
cut short. `Lifecycle` with its dirty set bounded (`QuietSpec`) is TLC's; the
theorems are about `LifecycleSpec`. All else that a run checks of `Executor`,
`NodeStates`, `Engine`, `Lifecycle` and `Ports` between `Init` and any later
state is also proved.

## 5. Findings

1. **A mark can be drained unseen** (`api.rs:1234,1356`; `executor_shared`
   violates `MarksAreExecuted`). The dirty set is peeked at under one lock and
   drained under another.
2. **A rejected or cyclic call loses the removal list** (`api.rs:1228`;
   `executor_removed` violates `RemovalsAreReported`).
3. **Select's "no output" delivers its previous value** (`select.rs:14`;
   `executor_select` violates `SilentHasNoValue`).
4. **An abandoned `execute_async` loses the dirty set** (`api.rs:1799`;
   `executor_drop` violates `StaleIsDirty` under `DropSpec`): its future is dropped,
   or an AsyncIo node panics (`api.rs:1784,1799`), which no `catch_unwind` stops.
5. **`remove_interface_port` leaves the port's edges behind**
   (`interface_helpers.rs:163`; `nodestates_dangling` violates `EdgesAgree` under
   `PortSpec`).

`PROJECT.json` quotes the lines each contradicts.

## 6. What no property covers, and what is not modelled

The models follow the code in these cases too, and no property says what the code
does not keep:

* A node removed while it is dirty leaves its path in `changed_nodes`
  (`node_state.rs:493-512`): the next pass completes it without an entity
  (`RunMissing`), and its id is among the outputs and among the removed.
* `subgraph_edges` compares the id at the leaf of an edge's source, not its path
  (`subgraph_helpers.rs:121`, `SubGraphEdges`): with a root-level node under the id of
  a child, an edge comes in from outside.
* A call by label that is overtaken between its two locks
  (`subgraph_helpers.rs:429-450`) acts on the neighbour of the port it named.
* Two calls that lock labels of one node and both read before either writes
  (`subgraph_helpers.rs:668-700`) lose the lock of the first. A lock outlives its port
  (`subgraph_helpers.rs:205`).

Not modelled:

* Two overlapping `execute_*` calls on one graph: `execute` takes `&self`, but
  nothing in the repository calls it twice at a time.
* Poisoned locks and the progress callback.
* A SubGraph made by `create_node_by_name`, without proxies, and the raw handle that
  `NodeGraph::node_states` gives out.
* In `Engine`, the ports of stand-alone InterfaceNodes and `remove_node` by id on a
  SubGraph (`NodeStates` has both); in `Executor`, the edges that
  `remove_interface_port` leaves dangling (finding 5).
* `evict_mesh_outputs`: a caller that evicts a value chooses to lose it.
* A saved `Edge` put back by its caller after its slots were made anew
  (`add_edge_with_id` checks the slots by index and files the edge under the ids
  it carries), and with it the errors about nodes that are missing.
* Graph factories (`create_graph_by_name_at` runs a caller's closure over the
  calls modelled here), `subgraph_ops.rs`, which regroups nodes with these calls,
  and `add_input_multi`, a construction-time helper.
* In `Engine`, a run that fails after it wrote (`Executor` has it) and a type
  whose fields cannot be read back (`OldFields` has the case, the instance has no
  such type).
* The structure counter, read-only views for a user interface, messages,
  formatting, the table of concrete types, the arithmetic nodes, the convenience
  builders, the wasm bindings.

## 7. What could come next

1. Overlapping `execute_*` calls as a second pass in `Executor`.
2. That `Engine`'s pass in one step implements `Executor`'s pass in many: the
   abstraction `NoGlitch` justifies, as a refinement.
3. `Resolve` against a definition without a walk (the least fixed point over the
   ports), with the bound on its turns proved.
