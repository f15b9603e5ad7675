------------------------------ MODULE Executor ------------------------------
(***************************************************************************)
(* The incremental executor of a node graph (NodeGraph::execute_sync and   *)
(* execute_async in src/node_graph/node_graph_api.rs) together with the    *)
(* graph edits that feed it: the dirty set, the plan, value-based cutoff,  *)
(* failures, removal bookkeeping.                                          *)
(*                                                                         *)
(* The graph is node-granular: a node has one multi-connection input slot, *)
(* whose ordered connection list is conn[n], and one output slot, whose    *)
(* cached value is cache[n].  data[n] stands for what else a run reads:    *)
(* the node data and the input slot defaults.  SubGraph proxies are        *)
(* resolved away here.                                                     *)
(*                                                                         *)
(* Most edits take &mut NodeGraph, so none of them overlaps a pass.  The   *)
(* port and default editors of SubGraphs, reordering and marking only need *)
(* &NodeGraph (SharedCall): they may overlap one.                          *)
(***************************************************************************)
EXTENDS Vec

CONSTANTS
  Node,              \* node paths
  AsyncIo,           \* nodes whose execution_kind is AsyncIo
  Cutoff,            \* nodes whose output_cutoff is Enabled
  Fallible,          \* nodes whose run may return an error or panic
  Boundary,          \* nodes that read through a port of a SubGraph
  Data,              \* node data and slot defaults
  DefaultData,       \* what a new node starts with
  Value,             \* output values
  NoValue,           \* no cache entry / nothing written
  MaxConnections,    \* max_connections of the input slot
  Wires,             \* the <<from, to>> pairs a caller wires up
  Compute(_, _, _)   \* what a run writes: node, data, input values in order

ASSUME NodeAssumption ==
  /\ AsyncIo \subseteq Node
  /\ Cutoff \subseteq Node
  /\ Fallible \subseteq Node
  /\ Boundary \subseteq Node
  /\ Wires \subseteq Node \X Node
  /\ MaxConnections \in Nat

ASSUME ValueAssumption == NoValue \notin Value /\ DefaultData \in Data

(* A run that succeeds writes a value or, like Select with an invalid      *)
(* index, writes nothing.                                                  *)
ASSUME ComputeAssumption ==
  \A n \in Node, d \in Data :
    \A k \in 0..MaxConnections : \A ins \in [1..k -> Value] :
      Compute(n, d, ins) \in Value \cup {NoValue}

VARIABLES
  live,      \* nodes that exist (NodeStates.nodes and the NodeManager)
  data,      \* NodeState.data, InputSlotState.default_value
  conn,      \* conn[n]: the sources of n, in input_connections order
  cache,     \* ExecutionCache.outputs
  changed,   \* NodeStates.changed_nodes
  removed,   \* Bookkeeping.removed_since_last_execute
  errors,    \* nodes with an execution error in Bookkeeping.errors
  phase,     \* where the pass is
  api,       \* the call that started it
  taken,     \* ExecutionPlan.removed_nodes
  seed,      \* ExecutionPlan.seed_nodes
  waits,     \* what ExecutionPlan.levels orders: the sources each node had
  pending,   \* planned nodes whose level has not started
  run,       \* how far each node of the current level is
  reading,   \* ExecutionContext of a node that is running
  frontier,  \* ChangeFrontier.changed
  ran,       \* executed_node_paths
  failed,    \* failed_paths
  outcome    \* what the execute call that just returned answered

graph == <<live, data, conn>>
plan  == <<api, taken, seed, waits>>
work  == <<pending, run, reading, frontier, ran, failed>>
vars  == <<live, data, conn, cache, changed, removed, errors, phase, api,
           taken, seed, waits, pending, run, reading, frontier, ran, failed, outcome>>

Phase   == {"idle", "planned", "levels"}
Status  == {"none", "queued", "todo", "running", "same", "moved", "failed"}
Outcome == {"none", "ok", "rejected", "cycle", "dropped", "panicked"}

-----------------------------------------------------------------------------
(* The graph as the executor reads it.                                     *)

SourcesOf(n) == {conn[n][i] : i \in DOMAIN conn[n]}

(* The values on the connections of a slot, in connection order; a source  *)
(* without a cache entry contributes nothing.                              *)
InputValues(n) ==
  LET delivered == [i \in DOMAIN conn[n] |-> cache[conn[n][i]]]
  IN  Retain(delivered, {i \in DOMAIN delivered : delivered[i] # NoValue})

(* What a run reads, captured before it starts.                            *)
Context(n) == [data |-> data[n], inputs |-> InputValues(n)]
Unread == [data |-> DefaultData, inputs |-> <<>>]

ClosedDownstream(P) == \A m \in Node : SourcesOf(m) \cap P # {} => m \in P

(* The breadth-first walk over the outgoing edges from S.                  *)
Downstream(S) ==
  {n \in Node : \A P \in SUBSET Node : S \subseteq P /\ ClosedDownstream(P) => n \in P}

(* A sort whose leftover set is empty unless a node feeds itself.          *)
SelfLoop(P) == \E n \in P : n \in SourcesOf(n)

(* Kahn's sort gets stuck: some planned nodes all wait for each other.     *)
HasCycle(P) ==
  \E S \in SUBSET P : S # {} /\ \A n \in S : SourcesOf(n) \cap S # {}

-----------------------------------------------------------------------------
(* Edits: &mut NodeGraph, so only between passes.                          *)

Edit == phase = "idle" /\ outcome' = "none" /\ UNCHANGED <<phase, plan, work>>

AddNode(n) ==
  /\ Edit
  /\ n \notin live
  /\ live' = live \cup {n}
  /\ changed' = changed \cup {n}
  /\ UNCHANGED <<data, conn, cache, removed, errors>>

(* Each removed edge marks its to_node, the removed node included when it  *)
(* is the one the edge led to.                                             *)
RemoveNode(n) ==
  /\ Edit
  /\ n \in live
  /\ live' = live \ {n}
  /\ data' = [data EXCEPT ![n] = DefaultData]
  /\ conn' = [m \in Node |->
                IF m = n THEN <<>>
                ELSE Retain(conn[m], {i \in DOMAIN conn[m] : conn[m][i] # n})]
  /\ changed' = changed \cup {m \in Node : n \in SourcesOf(m)}
                        \cup {m \in {n} : conn[m] # <<>>}
  /\ cache' = [cache EXCEPT ![n] = NoValue]
  /\ errors' = errors \ {n}
  /\ removed' = removed \cup {n}

(* Connect without the max_connections check.                              *)
ConnectUnbounded(m, n) ==
  /\ Edit
  /\ {m, n} \subseteq live
  /\ conn' = [conn EXCEPT ![n] = Append(@, m)]
  /\ changed' = changed \cup {n}
  /\ UNCHANGED <<live, data, cache, removed, errors>>

Connect(m, n) ==
  /\ Edit
  /\ {m, n} \subseteq live
  /\ Len(conn[n]) < MaxConnections
  /\ conn' = [conn EXCEPT ![n] = Append(@, m)]
  /\ changed' = changed \cup {n}
  /\ UNCHANGED <<live, data, cache, removed, errors>>

Disconnect(n, i) ==
  /\ Edit
  /\ i \in DOMAIN conn[n]
  /\ conn' = [conn EXCEPT ![n] = Retain(conn[n], DOMAIN conn[n] \ {i})]
  /\ changed' = changed \cup {n}
  /\ UNCHANGED <<live, data, cache, removed, errors>>

UpdateData(n, d) ==
  /\ Edit
  /\ n \in live
  /\ data' = [data EXCEPT ![n] = d]
  /\ changed' = changed \cup {n}
  /\ UNCHANGED <<live, conn, cache, removed, errors>>

-----------------------------------------------------------------------------
(* Callers that hold &NodeGraph, at any point of a pass.                   *)

Shared == UNCHANGED <<live, cache, removed, errors, phase, plan, work, outcome>>

MarkAllNodesDirty ==
  /\ Shared
  /\ changed' = changed \cup live
  /\ UNCHANGED <<data, conn>>

(* connections.remove(old) then connections.insert(new): here the adjacent *)
(* transpositions that generate every such move.                           *)
ReorderInputEdge(n, i) ==
  /\ Shared
  /\ {i, i + 1} \subseteq DOMAIN conn[n]
  /\ conn' = [conn EXCEPT ![n] = [@ EXCEPT ![i] = conn[n][i + 1], ![i + 1] = conn[n][i]]]
  /\ changed' = changed \cup {n}
  /\ UNCHANGED data

ReorderOutputEdge(n, i) ==
  /\ Shared
  /\ i \in DOMAIN conn[n]
  /\ changed' = changed \cup {conn[n][i]}
  /\ UNCHANGED <<data, conn>>

(* A port removal that marks nobody.                                       *)
DropPortEdgeUnmarked(n, i) ==
  /\ Shared
  /\ n \in live \cap Boundary
  /\ i \in DOMAIN conn[n]
  /\ conn' = [conn EXCEPT ![n] = Retain(conn[n], DOMAIN conn[n] \ {i})]
  /\ UNCHANGED <<data, changed>>

(* remove_subgraph_input and _output: each edge of the port is removed and *)
(* marks its to_node.  One edge a step; the write lock of the code, held   *)
(* for all edges of the port, allows less.                                 *)
DropPortEdge(n, i) ==
  /\ Shared
  /\ n \in live \cap Boundary
  /\ i \in DOMAIN conn[n]
  /\ conn' = [conn EXCEPT ![n] = Retain(conn[n], DOMAIN conn[n] \ {i})]
  /\ changed' = changed \cup {n}
  /\ UNCHANGED data

(* A default edit that relies on the pass under way.                       *)
SetPortDefaultUnmarked(n, d) ==
  /\ Shared
  /\ n \in live \cap Boundary
  /\ data' = [data EXCEPT ![n] = d]
  /\ changed' = IF phase = "idle" THEN changed \cup {n} ELSE changed
  /\ UNCHANGED conn

(* set_ and clear_subgraph_input_default; append_locked_label_at marks the *)
(* node alike.                                                             *)
SetPortDefault(n, d) ==
  /\ Shared
  /\ n \in live \cap Boundary
  /\ data' = [data EXCEPT ![n] = d]
  /\ changed' = changed \cup {n}
  /\ UNCHANGED conn

(* Adding, inserting and renaming a port moves no value and marks nobody.  *)
SharedCall ==
  \/ MarkAllNodesDirty
  \/ \E n \in Node : \E i \in DOMAIN conn[n] :
       ReorderInputEdge(n, i) \/ ReorderOutputEdge(n, i) \/ DropPortEdge(n, i)
  \/ \E n \in Node, d \in Data : SetPortDefault(n, d)

-----------------------------------------------------------------------------
(* Planning.                                                               *)

(* The empty plan: nothing changed, so only the removals are reported.     *)
ExecuteNothing ==
  /\ phase = "idle"
  /\ changed = {}
  /\ removed' = {}
  /\ outcome' = "ok"
  /\ UNCHANGED <<graph, cache, changed, errors, phase, plan, work>>

(* A planner that drains the dirty set before it sorts.                    *)
ExecuteCyclicDraining ==
  /\ phase = "idle"
  /\ changed # {}
  /\ HasCycle(Downstream(changed))
  /\ removed' = {}
  /\ changed' = {}
  /\ outcome' = "cycle"
  /\ UNCHANGED <<graph, cache, errors, phase, plan, work>>

(* topological_sort fails: the error leaves before anything is drained but *)
(* the removal list.                                                       *)
ExecuteCyclic ==
  /\ phase = "idle"
  /\ changed # {}
  /\ HasCycle(Downstream(changed))
  /\ removed' = {}
  /\ outcome' = "cycle"
  /\ UNCHANGED <<graph, cache, changed, errors, phase, plan, work>>

(* A planner that drains the dirty set instead of peeking at it.           *)
PlanDraining(a) ==
  /\ phase = "idle"
  /\ changed # {}
  /\ ~ HasCycle(Downstream(changed))
  /\ phase' = "planned"
  /\ api' = a
  /\ taken' = removed \ live
  /\ removed' = {}
  /\ seed' = changed
  /\ waits' = [n \in Node |-> SourcesOf(n)]
  /\ changed' = {}
  /\ pending' = Downstream(changed)
  /\ outcome' = "none"
  /\ UNCHANGED <<graph, cache, errors, run, reading, frontier, ran, failed>>

(* build_execution_plan: takes the removal list, peeks at the dirty set.   *)
Plan(a) ==
  /\ phase = "idle"
  /\ changed # {}
  /\ ~ HasCycle(Downstream(changed))
  /\ phase' = "planned"
  /\ api' = a
  /\ taken' = removed \ live
  /\ removed' = {}
  /\ seed' = changed
  /\ waits' = [n \in Node |-> SourcesOf(n)]
  /\ pending' = Downstream(changed)
  /\ outcome' = "none"
  /\ UNCHANGED <<graph, cache, changed, errors, run, reading, frontier, ran, failed>>

NoPass ==
  /\ phase' = "idle"
  /\ api' = "none"
  /\ taken' = {}
  /\ seed' = {}
  /\ waits' = [n \in Node |-> {}]
  /\ pending' = {}
  /\ run' = [n \in Node |-> "none"]
  /\ reading' = [n \in Node |-> Unread]
  /\ frontier' = {}
  /\ ran' = {}
  /\ failed' = {}

NeedsAsync == pending \cap live \cap AsyncIo # {}

(* validate_for_sync: RequiresAsyncExecution.                              *)
Reject ==
  /\ phase = "planned"
  /\ api = "sync" /\ NeedsAsync
  /\ NoPass
  /\ outcome' = "rejected"
  /\ UNCHANGED <<graph, cache, changed, removed, errors>>

(* commit_plan_drain drops whatever the dirty set holds by now; then the   *)
(* execution errors of earlier passes are cleared.                         *)
Commit ==
  /\ phase = "planned"
  /\ ~ (api = "sync" /\ NeedsAsync)
  /\ phase' = "levels"
  /\ changed' = {}
  /\ errors' = {}
  /\ UNCHANGED <<graph, cache, removed, plan, work, outcome>>

-----------------------------------------------------------------------------
(* Executing the levels.                                                   *)

(* A sort that releases a node once any of its sources is done.            *)
NextLevelAnySource ==
  {n \in pending : waits[n] = {} \/ \E m \in waits[n] : m \notin pending}

(* The next topological level: planned nodes that wait for no planned one. *)
(* The plan has fixed the levels: an edge removed since still orders them. *)
NextLevel == {n \in pending : waits[n] \cap pending = {}}

(* An executor without value-based cutoff.                                 *)
MustExecuteAll(n) == n \in Node

(* ChangeFrontier::must_execute, on the edges of the moment.               *)
MustExecute(n) ==
  \/ n \in seed
  \/ SourcesOf(n) = {}
  \/ SourcesOf(n) \cap frontier # {}

LevelOpen == \E n \in Node : run[n] # "none"

StartLevel ==
  /\ phase = "levels"
  /\ pending # {}
  /\ ~ LevelOpen
  /\ pending' = pending \ NextLevel
  /\ run' = [n \in Node |->
               IF ~ (n \in NextLevel /\ MustExecute(n)) THEN "none"
               ELSE IF n \in AsyncIo \cap live THEN "queued" ELSE "todo"]
  /\ UNCHANGED <<graph, cache, changed, removed, errors, phase, plan,
                 reading, frontier, ran, failed, outcome>>

(* build_execution_context resolves every input before the node runs.      *)
BeginRun(n) ==
  /\ run[n] = "todo"
  /\ n \in live
  /\ run' = [run EXCEPT ![n] = "running"]
  /\ reading' = [reading EXCEPT ![n] = Context(n)]
  /\ UNCHANGED <<graph, cache, changed, removed, errors, phase, plan,
                 pending, frontier, ran, failed, outcome>>

(* No entity behind the path: completes, writes nothing, counts as moved.  *)
RunMissing(n) ==
  /\ run[n] = "todo"
  /\ n \notin live
  /\ run' = [run EXCEPT ![n] = "moved"]
  /\ UNCHANGED <<graph, cache, changed, removed, errors, phase, plan,
                 pending, reading, frontier, ran, failed, outcome>>

(* OutputWriter::set writes the cache; a node that sets nothing leaves the *)
(* entry of an earlier run in place.                                       *)
Written(n) ==
  LET out == Compute(n, reading[n].data, reading[n].inputs)
  IN  IF out = NoValue THEN cache[n] ELSE out

(* Only a SyncCpu node that opted in is asked whether its outputs are      *)
(* equivalent to the ones before the run.                                  *)
Verdict(n, before, after) ==
  IF n \in Cutoff \ AsyncIo /\ before = after THEN "same" ELSE "moved"

(* A run that ends takes its node out of the dirty set.                    *)
FinishRunCleaning(n) ==
  /\ run[n] = "running"
  /\ cache' = [cache EXCEPT ![n] = Written(n)]
  /\ run' = [run EXCEPT ![n] = Verdict(n, cache[n], Written(n))]
  /\ reading' = [reading EXCEPT ![n] = Unread]
  /\ changed' = changed \ {n}
  /\ UNCHANGED <<graph, removed, errors, phase, plan,
                 pending, frontier, ran, failed, outcome>>

FinishRun(n) ==
  /\ run[n] = "running"
  /\ cache' = [cache EXCEPT ![n] = Written(n)]
  /\ run' = [run EXCEPT ![n] = Verdict(n, cache[n], Written(n))]
  /\ reading' = [reading EXCEPT ![n] = Unread]
  /\ UNCHANGED <<graph, changed, removed, errors, phase, plan,
                 pending, frontier, ran, failed, outcome>>

(* An error, or a panic of execute_sync (caught by catch_unwind), before   *)
(* or after the outputs were set.  Nothing catches a panic of an AsyncIo   *)
(* node: see PanicAsync.                                                   *)
FailRun(n) ==
  /\ run[n] = "running"
  /\ n \in Fallible
  /\ \E v \in {cache[n], Written(n)} : cache' = [cache EXCEPT ![n] = v]
  /\ run' = [run EXCEPT ![n] = "failed"]
  /\ reading' = [reading EXCEPT ![n] = Unread]
  /\ UNCHANGED <<graph, changed, removed, errors, phase, plan,
                 pending, frontier, ran, failed, outcome>>

Finished == {n \in Node : run[n] \in {"same", "moved", "failed"}}
RunFailed == {n \in Node : run[n] = "failed"}

(* A tracker that takes a failed node for unchanged.                       *)
RunMovedUnlessFailed == {n \in Node : run[n] = "moved"}

RunMoved == {n \in Node : run[n] \in {"moved", "failed"}}

(* The results of a level are folded in once every run of it has ended; in *)
(* execute_async the SyncCpu runs come first, then the AsyncIo futures.    *)
RecordRuns ==
  /\ LevelOpen
  /\ \A n \in Node : run[n] \notin {"todo", "running"}
  /\ frontier' = frontier \cup RunMoved
  /\ errors' = errors \cup RunFailed
  /\ failed' = failed \cup RunFailed
  /\ ran' = ran \cup Finished
  /\ run' = [n \in Node |-> IF run[n] = "queued" THEN "todo" ELSE "none"]
  /\ UNCHANGED <<graph, cache, changed, removed, phase, plan, pending, reading, outcome>>

(* A pass that forgets its failed nodes.                                   *)
EndPassForgetting ==
  /\ phase = "levels"
  /\ pending = {}
  /\ ~ LevelOpen
  /\ NoPass
  /\ outcome' = "ok"
  /\ UNCHANGED <<graph, changed, cache, removed, errors>>

(* restore_dirty_for_failed, then collect_outputs over ran.                *)
EndPass ==
  /\ phase = "levels"
  /\ pending = {}
  /\ ~ LevelOpen
  /\ changed' = changed \cup failed
  /\ NoPass
  /\ outcome' = "ok"
  /\ UNCHANGED <<graph, cache, removed, errors>>

(* The caller drops the future of execute_async at its only await point.   *)
DropFuture ==
  /\ api = "async"
  /\ \E n \in AsyncIo : run[n] = "running"
  /\ \A n \in Node : run[n] # "todo"
  /\ NoPass
  /\ outcome' = "dropped"
  /\ UNCHANGED <<graph, cache, changed, removed, errors>>

(* An AsyncIo node panics in prepare_async or while its future is polled:  *)
(* the panic unwinds execute_async.                                        *)
PanicAsync(n) ==
  /\ run[n] = "running"
  /\ n \in AsyncIo \cap Fallible
  /\ \E v \in {cache[n], Written(n)} : cache' = [cache EXCEPT ![n] = v]
  /\ NoPass
  /\ outcome' = "panicked"
  /\ UNCHANGED <<graph, changed, removed, errors>>

-----------------------------------------------------------------------------
Init ==
  /\ live = {}
  /\ data = [n \in Node |-> DefaultData]
  /\ conn = [n \in Node |-> <<>>]
  /\ cache = [n \in Node |-> NoValue]
  /\ changed = {} /\ removed = {} /\ errors = {}
  /\ phase = "idle" /\ api = "none" /\ outcome = "none"
  /\ taken = {} /\ seed = {} /\ pending = {}
  /\ waits = [n \in Node |-> {}]
  /\ run = [n \in Node |-> "none"]
  /\ reading = [n \in Node |-> Unread]
  /\ frontier = {} /\ ran = {} /\ failed = {}

EditStep ==
  \/ \E n \in Node : AddNode(n) \/ RemoveNode(n)
  \/ \E w \in Wires : Connect(w[1], w[2])
  \/ \E n \in Node : \E i \in DOMAIN conn[n] : Disconnect(n, i)
  \/ \E n \in Node, d \in Data : UpdateData(n, d)

Call ==
  \/ ExecuteNothing \/ ExecuteCyclic
  \/ \E a \in {"sync", "async"} : Plan(a)

PassStep ==
  \/ Reject \/ Commit \/ StartLevel \/ RecordRuns \/ EndPass
  \/ \E n \in Node : BeginRun(n) \/ RunMissing(n) \/ FinishRun(n) \/ FailRun(n)

(* No &self call falls between the peek and the drain of a pass.           *)
Next == EditStep \/ Call \/ PassStep \/ (phase # "planned" /\ SharedCall)

Spec == Init /\ [][Next]_vars

(* A &self call may fall there too.                                        *)
SharedSpec == Init /\ [][Next \/ SharedCall]_vars

(* The caller of execute_async may drop the future, and a panic of an      *)
(* AsyncIo node unwinds it: either way the pass is abandoned at its await. *)
DropSpec == Init /\ [][Next \/ DropFuture \/ \E n \in Node : PanicAsync(n)]_vars

(* An execute call that has started runs on: its thread is scheduled and   *)
(* every node run ends.                                                    *)
FairSpec == Spec /\ WF_vars(PassStep)

-----------------------------------------------------------------------------
TypeOK ==
  /\ live \subseteq Node
  /\ data \in [Node -> Data]
  /\ conn \in [Node -> Seq(Node)]
  /\ cache \in [Node -> Value \cup {NoValue}]
  /\ changed \subseteq Node /\ removed \subseteq Node /\ errors \subseteq Node
  /\ phase \in Phase /\ api \in {"none", "sync", "async"} /\ outcome \in Outcome
  /\ taken \subseteq Node /\ seed \subseteq Node /\ pending \subseteq Node
  /\ waits \in [Node -> SUBSET Node]
  /\ run \in [Node -> Status]
  /\ reading \in [Node -> [data : Data, inputs : Seq(Value)]]
  /\ \A n \in Node : /\ Len(conn[n]) <= MaxConnections
                     /\ Len(reading[n].inputs) <= MaxConnections
  /\ frontier \subseteq Node /\ ran \subseteq Node /\ failed \subseteq Node

(* The value a run of n would write now is the value in the cache.         *)
Fresh(n) ==
  LET out == Compute(n, data[n], InputValues(n))
  IN  out = NoValue \/ cache[n] = out

(* Between passes every live node whose cached output is out of date is in *)
(* the dirty set, so the next execute recomputes it: neither value-based   *)
(* cutoff, nor a failed run, nor a &self call during a pass loses one.     *)
StaleIsDirty == phase = "idle" => \A n \in live \ changed : Fresh(n)

(* A node that carries an execution error is scheduled to be retried.      *)
ErrorsAreRetried == phase = "idle" => errors \subseteq changed

(* The runs of a pass see settled inputs: once a node has read its inputs, *)
(* no later run of the same pass changes the output of one of its sources. *)
NoGlitch ==
  [][\A n \in Node : phase = "levels" /\ cache'[n] # cache[n] =>
       \A m \in Node : n \in SourcesOf(m) =>
         m \notin ran /\ run[m] \in {"none", "queued", "todo"}]_vars

(* Value-based cutoff prunes, and the plan holds nothing unexplained: a    *)
(* node runs only if it was dirty itself, one of its sources delivered     *)
(* something new in this pass, or an edit that overlaps the pass marked it.*)
CutoffPrunes ==
  \A n \in ran : n \in seed \cup changed \/ SourcesOf(n) \cap frontier # {}

(* An execute call that answers with an error leaves every node dirty that *)
(* was dirty when it started.                                              *)
ErrorKeepsDirty ==
  [][outcome' \in {"rejected", "cycle"} /\ outcome' # outcome =>
       seed \cup changed \subseteq changed']_vars

(* A call that has planned a pass returns.                                 *)
PassReturns == phase # "idle" ~> phase = "idle"

-----------------------------------------------------------------------------
(* What the source says of itself and the runs refute.                     *)

(* "Mark the target node as changed so the graph re-executes", "Mark all   *)
(* nodes in the graph as dirty, forcing re-execution": a mark leaves the   *)
(* dirty set only for a pass that has the node among its seeds.            *)
MarksAreExecuted == [][\A n \in changed \ changed' : n \in seed]_vars

(* removed_nodes lists the "nodes removed since the last execute() call":  *)
(* an id leaves the removal list only into the result of a call that       *)
(* succeeds, or because the id is live again.                              *)
Undelivered == (removed \ live) \cup taken
RemovalsAreReported ==
  [][\A n \in Undelivered \ Undelivered' : outcome' = "ok" \/ n \in live']_vars

(* A node that emits no output leaves its consumers with their defaults:   *)
(* after the run its slot has no value.                                    *)
SilentHasNoValue ==
  phase = "idle" =>
    \A n \in live \ changed :
      Compute(n, data[n], InputValues(n)) = NoValue => cache[n] = NoValue

=============================================================================
