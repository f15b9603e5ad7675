-------------------------------- MODULE Memo --------------------------------
(***************************************************************************)
(* What incremental execution promises (NodeGraph::execute in              *)
(* src/node_graph/node_graph_api.rs), without passes, levels, plans or     *)
(* cutoff: a graph, a cache of outputs, and a debt.  A node that is owed   *)
(* nothing has in the cache what a run of it would write now.  An edit may *)
(* do anything to the graph as long as it runs up the debts it causes; a   *)
(* debt is paid by a run of the node that leaves it up to date, and by     *)
(* nothing else but the removal of the node.                               *)
(***************************************************************************)
CONSTANTS
  Node, Data, DefaultData, Value, NoValue,
  Output(_, _, _)     \* what a run writes: node, data, what its sources hold

VARIABLES
  live, data, conn,   \* the graph: nodes, what a run reads, ordered sources
  cache,              \* the last output of each node
  owed                \* the nodes a run is owed to

memo == <<live, data, conn, cache, owed>>

SourcesOf(n) == {conn[n][i] : i \in DOMAIN conn[n]}

Delivered(n) == [i \in DOMAIN conn[n] |-> cache[conn[n][i]]]

Fresh(n) ==
  LET out == Output(n, data[n], Delivered(n))
  IN  out = NoValue \/ cache[n] = out

Init ==
  /\ live = {} /\ owed = {}
  /\ data = [n \in Node |-> DefaultData]
  /\ conn = [n \in Node |-> <<>>]
  /\ cache = [n \in Node |-> NoValue]

(* A node that is still owed nothing after an edit existed before it and   *)
(* reads what it read; the cache only forgets the nodes that are gone.     *)
Edit ==
  /\ live' \subseteq Node
  /\ cache' \in [Node -> Value \cup {NoValue}]
  /\ \A n \in Node : cache'[n] # cache[n] => n \notin live'
  /\ owed' \subseteq live'
  /\ owed \cap live' \subseteq owed'
  /\ \A n \in live' \ owed' :
       /\ n \in live
       /\ data'[n] = data[n] /\ conn'[n] = conn[n]
       /\ \A m \in SourcesOf(n) : cache'[m] = cache[m]

(* A run of n.  It pays the debt if it leaves n up to date, and whoever    *)
(* reads a value that has changed is owed a run.                           *)
Run(n) ==
  /\ n \in owed
  /\ \E v \in Value \cup {NoValue} : cache' = [cache EXCEPT ![n] = v]
  /\ UNCHANGED <<live, data, conn>>
  /\ owed' \subseteq live
  /\ owed \ {n} \subseteq owed'
  /\ n \in owed' \/ Fresh(n)'
  /\ \A m \in live : n \in SourcesOf(m) /\ cache'[n] # cache[n] => m \in owed'

Next == Edit \/ \E n \in Node : Run(n)

Spec == Init /\ [][Next]_memo

(* Nothing is out of date without being owed a run.                        *)
OwedIfStale == \A n \in live \ owed : Fresh(n)

=============================================================================
