--------------------------- MODULE ExecutorProofs ---------------------------
(* Proofs about Executor, for every graph, cutoff choice and computation:   *)
(* its invariants, and that it implements Memo.                             *)
EXTENDS ExecutorMemo, VecProofs, FiniteSetTheorems, TLAPS

-----------------------------------------------------------------------------
(* What the executor reads from the graph.                                 *)

LEMMA InputValuesType ==
  ASSUME TypeOK, NEW n \in Node
  PROVE  /\ InputValues(n) \in Seq(Value)
         /\ Len(InputValues(n)) <= MaxConnections
<1> DEFINE delivered == [i \in DOMAIN conn[n] |-> cache[conn[n][i]]]
           I == {i \in DOMAIN delivered : delivered[i] # NoValue}
<1>1. conn[n] \in Seq(Node) /\ Len(conn[n]) <= MaxConnections
  BY DEF TypeOK
<1>2. /\ delivered \in Seq(Value \cup {NoValue})
      /\ Len(delivered) = Len(conn[n]) /\ DOMAIN delivered = 1..Len(conn[n])
  <2>1. \A i \in DOMAIN conn[n] : cache[conn[n][i]] \in Value \cup {NoValue}
    BY <1>1 DEF TypeOK
  <2>2. delivered \in [1..Len(conn[n]) -> Value \cup {NoValue}]
    BY <1>1, <2>1
  <2> QED
    BY <1>1, <2>2
<1>3. I \in SUBSET (DOMAIN delivered)
  OBVIOUS
<1>4. \A i \in I : delivered[i] \in Value
  BY <1>2
<1>5. /\ Retain(delivered, I) \in Seq(Value \cup {NoValue})
      /\ Len(Retain(delivered, I)) <= Len(delivered)
      /\ \A k \in DOMAIN Retain(delivered, I) :
           \E i \in I : Retain(delivered, I)[k] = delivered[i]
  <2> HIDE DEF delivered, I
  <2>1. Len(delivered) \in Nat
    BY <1>2
  <2> QED
    BY <1>2, <1>3, <2>1, RetainType
<1>6. InputValues(n) = Retain(delivered, I)
  BY DEF InputValues
<1> HIDE DEF delivered, I
<1>7. \A k \in DOMAIN InputValues(n) : InputValues(n)[k] \in Value
  BY <1>4, <1>5, <1>6
<1>8. InputValues(n) \in Seq(Value)
  BY <1>5, <1>6, <1>7
<1> QED
  BY <1>1, <1>2, <1>5, <1>6, <1>8, NodeAssumption

(* A run writes a value or nothing.                                        *)
LEMMA ComputeType ==
  ASSUME NEW n \in Node, NEW d \in Data, NEW ins \in Seq(Value),
         Len(ins) <= MaxConnections
  PROVE  Compute(n, d, ins) \in Value \cup {NoValue}
<1>1. Len(ins) \in 0..MaxConnections /\ ins \in [1..Len(ins) -> Value]
  BY NodeAssumption
<1> QED
  BY <1>1, ComputeAssumption

(* What a slot delivers depends on its connections and on its sources.     *)
LEMMA InputValuesFrame ==
  ASSUME TypeOK, NEW n \in Node,
         conn'[n] = conn[n],
         \A m \in SourcesOf(n) : cache'[m] = cache[m]
  PROVE  InputValues(n)' = InputValues(n)
<1>1. \A i \in DOMAIN conn[n] : cache'[conn[n][i]] = cache[conn[n][i]]
  BY DEF SourcesOf
<1>2. [i \in DOMAIN conn'[n] |-> cache'[conn'[n][i]]]
        = [i \in DOMAIN conn[n] |-> cache[conn[n][i]]]
  BY <1>1
<1> QED
  BY <1>2 DEF InputValues

(* So does whether its cached output is up to date.                        *)
LEMMA FreshFrame ==
  ASSUME TypeOK, NEW n \in Node, Fresh(n),
         conn'[n] = conn[n], data'[n] = data[n], cache'[n] = cache[n],
         \A m \in SourcesOf(n) : cache'[m] = cache[m]
  PROVE  Fresh(n)'
<1>1. InputValues(n)' = InputValues(n)
  BY InputValuesFrame
<1> QED
  BY <1>1 DEF Fresh

(* The walk from S visits S and everything fed by what it visits.          *)
LEMMA DownstreamClosed ==
  ASSUME NEW S \in SUBSET Node
  PROVE  /\ Downstream(S) \in SUBSET Node
         /\ S \subseteq Downstream(S)
         /\ ClosedDownstream(Downstream(S))
<1>1. S \subseteq Downstream(S) /\ Downstream(S) \in SUBSET Node
  BY DEF Downstream
<1>2. ASSUME NEW m \in Node, SourcesOf(m) \cap Downstream(S) # {}
      PROVE  m \in Downstream(S)
  <2> SUFFICES ASSUME NEW P \in SUBSET Node, S \subseteq P, ClosedDownstream(P)
               PROVE  m \in P
    BY DEF Downstream
  <2>1. Downstream(S) \subseteq P
    BY DEF Downstream
  <2>2. SourcesOf(m) \cap P # {}
    BY <1>2, <2>1
  <2> QED
    BY <2>2 DEF ClosedDownstream
<1> QED
  BY <1>1, <1>2 DEF ClosedDownstream

(* It visits nothing else: a node it reaches from elsewhere has a source.  *)
LEMMA DownstreamFed ==
  ASSUME NEW S \in SUBSET Node, NEW n \in Downstream(S), n \notin S
  PROVE  SourcesOf(n) # {}
<1> SUFFICES ASSUME SourcesOf(n) = {}
             PROVE  FALSE
  OBVIOUS
<1> DEFINE P == Downstream(S) \ {n}
<1>1. /\ Downstream(S) \in SUBSET Node /\ S \subseteq Downstream(S)
      /\ ClosedDownstream(Downstream(S))
  BY DownstreamClosed
<1>2. P \in SUBSET Node /\ S \subseteq P
  BY <1>1
<1>3. ClosedDownstream(P)
  BY <1>1 DEF ClosedDownstream
<1>4. n \in P
  <2> HIDE DEF P
  <2> QED
    BY <1>2, <1>3 DEF Downstream
<1> QED
  BY <1>4

-----------------------------------------------------------------------------
(* Types.                                                                  *)

LEMMA UnreadType ==
  /\ Unread \in [data : Data, inputs : Seq(Value)]
  /\ Len(Unread.inputs) <= MaxConnections
BY NodeAssumption, ValueAssumption DEF Unread

LEMMA ContextType ==
  ASSUME TypeOK, NEW n \in Node
  PROVE  /\ Context(n) \in [data : Data, inputs : Seq(Value)]
         /\ Len(Context(n).inputs) <= MaxConnections
<1>1. InputValues(n) \in Seq(Value) /\ Len(InputValues(n)) <= MaxConnections
  BY InputValuesType
<1>2. data[n] \in Data
  BY DEF TypeOK
<1> QED
  BY <1>1, <1>2 DEF Context

LEMMA NoPassType ==
  ASSUME NoPass
  PROVE  /\ phase' = "idle" /\ api' = "none"
         /\ taken' = {} /\ seed' = {} /\ pending' = {}
         /\ run' = [n \in Node |-> "none"] /\ run' \in [Node -> Status]
         /\ waits' \in [Node -> SUBSET Node]
         /\ reading' \in [Node -> [data : Data, inputs : Seq(Value)]]
         /\ \A n \in Node : Len(reading'[n].inputs) <= MaxConnections
         /\ frontier' = {} /\ ran' = {} /\ failed' = {}
<1>1. /\ Unread \in [data : Data, inputs : Seq(Value)]
      /\ Len(Unread.inputs) <= MaxConnections
  BY UnreadType
<1> QED
  BY <1>1 DEF NoPass, Status

LEMMA WrittenType ==
  ASSUME TypeOK, NEW n \in Node
  PROVE  Written(n) \in Value \cup {NoValue}
<1>1. /\ reading[n].inputs \in Seq(Value) /\ Len(reading[n].inputs) <= MaxConnections
      /\ reading[n].data \in Data
  BY DEF TypeOK
<1>2. Compute(n, reading[n].data, reading[n].inputs) \in Value \cup {NoValue}
  BY <1>1, ComputeType
<1> QED
  BY <1>2 DEF Written, TypeOK

LEMMA RetainConn ==
  ASSUME TypeOK, NEW n \in Node, NEW I \in SUBSET (DOMAIN conn[n])
  PROVE  /\ Retain(conn[n], I) \in Seq(Node)
         /\ Len(Retain(conn[n], I)) <= MaxConnections
<1>1. conn[n] \in Seq(Node) /\ Len(conn[n]) <= MaxConnections
  BY DEF TypeOK
<1>2. /\ Retain(conn[n], I) \in Seq(Node)
      /\ Len(Retain(conn[n], I)) <= Len(conn[n])
  <2>1. Len(conn[n]) \in Nat
    BY <1>1
  <2> QED
    BY <1>1, <2>1, RetainType
<1> QED
  BY <1>1, <1>2, NodeAssumption

(* A slot that loses a connection keeps the others.                        *)
LEMMA DropConn ==
  ASSUME TypeOK, NEW n \in Node, NEW i \in DOMAIN conn[n],
         conn' = [conn EXCEPT ![n] = Retain(conn[n], DOMAIN conn[n] \ {i})]
  PROVE  /\ conn' \in [Node -> Seq(Node)]
         /\ \A m \in Node : Len(conn'[m]) <= MaxConnections
         /\ \A m \in Node : SourcesOf(m)' \subseteq SourcesOf(m)
         /\ \A m \in Node \ {n} : conn'[m] = conn[m]
<1> DEFINE r == Retain(conn[n], DOMAIN conn[n] \ {i})
<1>1. r \in Seq(Node) /\ Len(r) <= MaxConnections
  BY RetainConn
<1>2. \A k \in DOMAIN r : \E j \in DOMAIN conn[n] : r[k] = conn[n][j]
  <2>1. conn[n] \in Seq(Node) /\ DOMAIN conn[n] \ {i} \in SUBSET (DOMAIN conn[n])
    BY DEF TypeOK
  <2> QED
    BY <2>1, RetainType
<1>3. \A m \in Node : conn'[m] = IF m = n THEN r ELSE conn[m]
  BY DEF TypeOK
<1> HIDE DEF r
<1>4. conn' \in [Node -> Seq(Node)] /\ \A m \in Node : Len(conn'[m]) <= MaxConnections
  <2>1. conn' = [conn EXCEPT ![n] = r]
    BY DEF r
  <2> QED
    BY <1>1, <1>3, <2>1 DEF TypeOK
<1>5. \A m \in Node : SourcesOf(m)' \subseteq SourcesOf(m)
  BY <1>2, <1>3 DEF SourcesOf
<1> QED
  BY <1>3, <1>4, <1>5

(* Swapping two neighbours in a connection list keeps its sources.         *)
LEMMA ReorderKeepsSources ==
  ASSUME TypeOK, NEW n \in Node, NEW i \in DOMAIN conn[n], ReorderInputEdge(n, i)
  PROVE  /\ conn' \in [Node -> Seq(Node)]
         /\ \A m \in Node : Len(conn'[m]) = Len(conn[m])
         /\ \A m \in Node : SourcesOf(m)' = SourcesOf(m)
         /\ \A m \in Node \ {n} : conn'[m] = conn[m]
<1> DEFINE q == conn[n]
           r == [q EXCEPT ![i] = q[i + 1], ![i + 1] = q[i]]
<1>1. q \in Seq(Node) /\ i \in DOMAIN q /\ i + 1 \in DOMAIN q /\ i # i + 1
  BY DEF TypeOK, ReorderInputEdge
<1>2. conn' = [conn EXCEPT ![n] = r]
  BY DEF ReorderInputEdge
<1>3. r \in Seq(Node) /\ DOMAIN r = DOMAIN q /\ Len(r) = Len(q)
  <2>1. r \in [DOMAIN q -> Node] /\ DOMAIN q = 1..Len(q) /\ Len(q) \in Nat
    BY <1>1
  <2> HIDE DEF q, r
  <2>2. DOMAIN r = 1..Len(q)
    BY <2>1
  <2> QED
    BY <2>1, <2>2
<1>4. {r[k] : k \in DOMAIN r} = {q[k] : k \in DOMAIN q}
  <2>1. /\ r[i] = q[i + 1] /\ r[i + 1] = q[i]
        /\ \A k \in DOMAIN q \ {i, i + 1} : r[k] = q[k]
    BY <1>1
  <2> HIDE DEF q, r
  <2> QED
    BY <1>1, <1>3, <2>1
<1>5. \A m \in Node : conn'[m] = IF m = n THEN r ELSE conn[m]
  BY <1>2 DEF TypeOK
<1> HIDE DEF r
<1>6. conn' \in [Node -> Seq(Node)]
  BY <1>2, <1>3 DEF TypeOK
<1>7. \A m \in Node : SourcesOf(m)' = SourcesOf(m)
  BY <1>4, <1>5 DEF SourcesOf
<1> QED
  BY <1>3, <1>5, <1>6, <1>7

LEMMA TypeEdit ==
  ASSUME TypeOK, EditStep
  PROVE  TypeOK'
<1>1. ASSUME NEW n \in Node, AddNode(n)
      PROVE  TypeOK'
  BY <1>1 DEF TypeOK, AddNode, Edit, plan, work, Outcome
<1>2. ASSUME NEW n \in Node, RemoveNode(n)
      PROVE  TypeOK'
  <2> DEFINE kept(m) == {i \in DOMAIN conn[m] : conn[m][i] # n}
  <2>1. \A m \in Node : /\ Retain(conn[m], kept(m)) \in Seq(Node)
                        /\ Len(Retain(conn[m], kept(m))) <= MaxConnections
    BY RetainConn
  <2>2. /\ conn' \in [Node -> Seq(Node)]
        /\ \A m \in Node : Len(conn'[m]) <= MaxConnections
    <3> HIDE DEF kept
    <3>1. conn' = [m \in Node |-> IF m = n THEN <<>> ELSE Retain(conn[m], kept(m))]
      BY <1>2 DEF RemoveNode, kept
    <3>2. <<>> \in Seq(Node) /\ Len(<<>>) <= MaxConnections
      BY NodeAssumption
    <3> QED
      BY <2>1, <3>1, <3>2
  <2> QED
    BY <1>2, <2>2, ValueAssumption
    DEF TypeOK, RemoveNode, Edit, plan, work, Outcome
<1>3. ASSUME NEW m \in Node, NEW n \in Node, Connect(m, n)
      PROVE  TypeOK'
  <2>1. /\ conn[n] \in Seq(Node) /\ Len(conn[n]) < MaxConnections
        /\ conn' = [conn EXCEPT ![n] = Append(conn[n], m)]
    BY <1>3 DEF TypeOK, Connect
  <2>2. Append(conn[n], m) \in Seq(Node) /\ Len(Append(conn[n], m)) <= MaxConnections
    BY <2>1, NodeAssumption
  <2>3. /\ conn' \in [Node -> Seq(Node)]
        /\ \A k \in Node : Len(conn'[k]) <= MaxConnections
    BY <2>1, <2>2 DEF TypeOK
  <2> QED
    BY <1>3, <2>3 DEF TypeOK, Connect, Edit, plan, work, Outcome
<1>4. ASSUME NEW n \in Node, NEW i \in DOMAIN conn[n], Disconnect(n, i)
      PROVE  TypeOK'
  <2>1. /\ conn' \in [Node -> Seq(Node)]
        /\ \A k \in Node : Len(conn'[k]) <= MaxConnections
    BY <1>4, DropConn DEF Disconnect
  <2> QED
    BY <1>4, <2>1 DEF TypeOK, Disconnect, Edit, plan, work, Outcome
<1>5. ASSUME NEW n \in Node, NEW d \in Data, UpdateData(n, d)
      PROVE  TypeOK'
  BY <1>5 DEF TypeOK, UpdateData, Edit, plan, work, Outcome
<1> QED
  <2>1. \A w \in Wires : w[1] \in Node /\ w[2] \in Node
    BY NodeAssumption
  <2> QED
    BY <1>1, <1>2, <1>3, <1>4, <1>5, <2>1 DEF EditStep

LEMMA TypeShared ==
  ASSUME TypeOK, SharedCall
  PROVE  TypeOK'
<1>1. ASSUME MarkAllNodesDirty
      PROVE  TypeOK'
  BY <1>1 DEF TypeOK, MarkAllNodesDirty, Shared, plan, work
<1>2. ASSUME NEW n \in Node, NEW i \in DOMAIN conn[n], ReorderInputEdge(n, i)
      PROVE  TypeOK'
  <2>1. /\ conn' \in [Node -> Seq(Node)]
        /\ \A m \in Node : Len(conn'[m]) <= MaxConnections
    BY <1>2, ReorderKeepsSources DEF TypeOK
  <2> QED
    BY <1>2, <2>1 DEF TypeOK, ReorderInputEdge, Shared, plan, work
<1>3. ASSUME NEW n \in Node, NEW i \in DOMAIN conn[n], ReorderOutputEdge(n, i)
      PROVE  TypeOK'
  <2>1. conn[n][i] \in Node
    BY DEF TypeOK
  <2> QED
    BY <1>3, <2>1 DEF TypeOK, ReorderOutputEdge, Shared, plan, work
<1>4. ASSUME NEW n \in Node, NEW i \in DOMAIN conn[n], DropPortEdge(n, i)
      PROVE  TypeOK'
  <2>1. /\ conn' \in [Node -> Seq(Node)]
        /\ \A m \in Node : Len(conn'[m]) <= MaxConnections
    BY <1>4, DropConn DEF DropPortEdge
  <2> QED
    BY <1>4, <2>1 DEF TypeOK, DropPortEdge, Shared, plan, work
<1>5. ASSUME NEW n \in Node, NEW d \in Data, SetPortDefault(n, d)
      PROVE  TypeOK'
  BY <1>5 DEF TypeOK, SetPortDefault, Shared, plan, work
<1> QED
  BY <1>1, <1>2, <1>3, <1>4, <1>5 DEF SharedCall

LEMMA TypeCall ==
  ASSUME TypeOK, Call
  PROVE  TypeOK'
<1>1. ASSUME ExecuteNothing
      PROVE  TypeOK'
  BY <1>1 DEF TypeOK, ExecuteNothing, graph, plan, work, Outcome
<1>2. ASSUME ExecuteCyclic
      PROVE  TypeOK'
  BY <1>2 DEF TypeOK, ExecuteCyclic, graph, plan, work, Outcome
<1>3. ASSUME NEW a \in {"sync", "async"}, Plan(a)
      PROVE  TypeOK'
  <2>1. Downstream(changed) \in SUBSET Node
    BY DownstreamClosed DEF TypeOK
  <2>2. waits' \in [Node -> SUBSET Node]
    BY <1>3 DEF TypeOK, Plan, SourcesOf
  <2> QED
    BY <1>3, <2>1, <2>2 DEF TypeOK, Plan, graph, Outcome, Phase
<1> QED
  BY <1>1, <1>2, <1>3 DEF Call

LEMMA TypePass ==
  ASSUME TypeOK, PassStep
  PROVE  TypeOK'
<1>1. ASSUME Reject
      PROVE  TypeOK'
  <2>1. NoPass
    BY <1>1 DEF Reject
  <2> QED
    BY <1>1, <2>1, NoPassType DEF TypeOK, Reject, graph, Outcome, Phase
<1>2. ASSUME Commit
      PROVE  TypeOK'
  BY <1>2 DEF TypeOK, Commit, graph, plan, work, Phase
<1>3. ASSUME StartLevel
      PROVE  TypeOK'
  <2>1. run' \in [Node -> Status]
    BY <1>3 DEF StartLevel, Status
  <2>2. pending' \subseteq Node
    BY <1>3 DEF StartLevel, TypeOK
  <2> QED
    BY <1>3, <2>1, <2>2 DEF TypeOK, StartLevel, graph, plan
<1>4. ASSUME RecordRuns
      PROVE  TypeOK'
  <2>1. run' \in [Node -> Status]
    BY <1>4 DEF RecordRuns, Status
  <2> QED
    BY <1>4, <2>1 DEF TypeOK, RecordRuns, RunMoved, RunFailed, Finished, graph, plan
<1>5. ASSUME EndPass
      PROVE  TypeOK'
  <2>1. NoPass
    BY <1>5 DEF EndPass
  <2> QED
    BY <1>5, <2>1, NoPassType DEF TypeOK, EndPass, graph, Outcome, Phase
<1>6. ASSUME NEW n \in Node, BeginRun(n)
      PROVE  TypeOK'
  <2>1. /\ Context(n) \in [data : Data, inputs : Seq(Value)]
        /\ Len(Context(n).inputs) <= MaxConnections
    BY ContextType
  <2> QED
    BY <1>6, <2>1 DEF TypeOK, BeginRun, graph, plan, Status
<1>7. ASSUME NEW n \in Node, RunMissing(n)
      PROVE  TypeOK'
  BY <1>7 DEF TypeOK, RunMissing, graph, plan, Status
<1>8. ASSUME NEW n \in Node, FinishRun(n)
      PROVE  TypeOK'
  <2>1. Written(n) \in Value \cup {NoValue}
    BY WrittenType
  <2>2. run' \in [Node -> Status]
    BY <1>8 DEF TypeOK, FinishRun, Verdict, Status
  <2>3. /\ reading' = [reading EXCEPT ![n] = Unread]
        /\ Unread \in [data : Data, inputs : Seq(Value)]
        /\ Len(Unread.inputs) <= MaxConnections
    BY <1>8, UnreadType DEF FinishRun
  <2> QED
    BY <1>8, <2>1, <2>2, <2>3 DEF TypeOK, FinishRun, graph, plan
<1>9. ASSUME NEW n \in Node, FailRun(n)
      PROVE  TypeOK'
  <2>1. Written(n) \in Value \cup {NoValue}
    BY WrittenType
  <2>2. /\ reading' = [reading EXCEPT ![n] = Unread]
        /\ Unread \in [data : Data, inputs : Seq(Value)]
        /\ Len(Unread.inputs) <= MaxConnections
    BY <1>9, UnreadType DEF FailRun
  <2> QED
    BY <1>9, <2>1, <2>2 DEF TypeOK, FailRun, graph, plan, Status
<1> QED
  BY <1>1, <1>2, <1>3, <1>4, <1>5, <1>6, <1>7, <1>8, <1>9 DEF PassStep

LEMMA TypeInit == Init => TypeOK
<1> SUFFICES ASSUME Init
             PROVE  TypeOK
  OBVIOUS
<1>1. <<>> \in Seq(Node) /\ Len(<<>>) <= MaxConnections
  BY NodeAssumption
<1>2. /\ Unread \in [data : Data, inputs : Seq(Value)]
      /\ Len(Unread.inputs) <= MaxConnections
  BY UnreadType
<1> QED
  BY <1>1, <1>2, ValueAssumption DEF Init, TypeOK, Phase, Status, Outcome

LEMMA TypeStep == TypeOK /\ [Next]_vars => TypeOK'
<1> SUFFICES ASSUME TypeOK, [Next]_vars
             PROVE  TypeOK'
  OBVIOUS
<1>1. CASE UNCHANGED vars
  BY <1>1 DEF vars, TypeOK
<1> QED
  BY <1>1, TypeEdit, TypeShared, TypeCall, TypePass DEF Next

(* The state of the executor stays well typed; in particular no slot ever  *)
(* holds more connections than its max_connections.                        *)
THEOREM TypeCorrect == Spec => []TypeOK
BY TypeInit, TypeStep, PTL DEF Spec

-----------------------------------------------------------------------------
(* The inductive invariant.                                                *)

Active(n) == run[n] # "none"

(* Between passes the pass has no state; a planned pass has not started,   *)
(* and no mark has come in since it looked at the dirty set.               *)
PassShape ==
  /\ phase = "idle" => seed = {} /\ pending = {} /\ frontier = {} /\ failed = {} /\ ran = {}
  /\ phase = "planned" => /\ frontier = {} /\ failed = {} /\ ran = {}
                          /\ changed = seed /\ seed \subseteq pending
  /\ phase # "levels" => \A n \in Node : ~ Active(n)

(* What waits: the consumers of a node that waits or runs wait too, and    *)
(* what runs or has run no longer waits.                                   *)
PlanClosed ==
  /\ \A m \in Node : \A s \in SourcesOf(m) : s \in pending \/ Active(s) => m \in pending
  /\ \A n \in Node : Active(n) \/ n \in ran => n \notin pending

(* The levels wait for the sources of the moment: edges only go away in a  *)
(* pass.                                                                   *)
WaitsCover == phase # "idle" => \A n \in Node : SourcesOf(n) \subseteq waits[n]

(* What a running node has read is what it would read now, unless a mark   *)
(* came in after it read.                                                  *)
ReadingCurrent ==
  \A n \in Node : run[n] = "running" /\ n \notin changed => reading[n] = Context(n)

(* Where an out-of-date output is accounted for: in the dirty set; or, in  *)
(* a pass, as failed, as about to be computed, or as a planned node that   *)
(* must execute because of what has changed so far.                        *)
StaleCovered == \A n \in live : n \in changed \/ Fresh(n) \/ InPass(n)

ErrorsCovered == errors \subseteq (IF phase = "levels" THEN failed ELSE changed)

(* A planned node is dirty or fed, and a node runs for a reason, or it has *)
(* lost its source to a call that marked it.                               *)
RunsExplained ==
  /\ \A n \in pending : n \in seed \/ n \in changed \/ SourcesOf(n) # {}
  /\ \A n \in Node :
       Active(n) \/ n \in ran =>
         n \in seed \/ n \in changed \/ SourcesOf(n) \cap frontier # {}

IInv ==
  /\ TypeOK /\ PassShape /\ PlanClosed /\ WaitsCover /\ ReadingCurrent
  /\ StaleCovered /\ ErrorsCovered /\ RunsExplained

LEMMA InvInit == Init => IInv
<1> SUFFICES ASSUME Init
             PROVE  IInv
  OBVIOUS
<1>1. TypeOK
  BY TypeInit
<1>2. PassShape /\ WaitsCover /\ ReadingCurrent /\ StaleCovered
  BY DEF Init, PassShape, WaitsCover, ReadingCurrent, StaleCovered, InPass, Active
<1>3. PlanClosed
  <2>1. \A n \in Node : SourcesOf(n) = {}
    BY DEF Init, SourcesOf
  <2> QED
    BY <2>1 DEF Init, PlanClosed, Active
<1>4. ErrorsCovered /\ RunsExplained
  BY DEF Init, ErrorsCovered, RunsExplained, Active
<1> QED
  BY <1>1, <1>2, <1>3, <1>4 DEF IInv

(* Outside a pass five of the parts say nothing.                           *)
LEMMA NoPassInv ==
  ASSUME TypeOK', phase' = "idle",
         seed' = {}, pending' = {}, frontier' = {}, failed' = {}, ran' = {},
         \A n \in Node : run'[n] = "none"
  PROVE  PassShape' /\ PlanClosed' /\ WaitsCover' /\ ReadingCurrent' /\ RunsExplained'
<1>1. PassShape' /\ PlanClosed'
  <2>1. \A n \in Node : (SourcesOf(n) \subseteq Node)'
    BY DEF TypeOK, SourcesOf
  <2> QED
    BY <2>1 DEF PassShape, PlanClosed, Active
<1>2. WaitsCover' /\ ReadingCurrent'
  BY DEF WaitsCover, ReadingCurrent
<1>3. RunsExplained'
  BY DEF RunsExplained, Active
<1> QED
  BY <1>1, <1>2, <1>3

(* An edit keeps the invariant when it marks every node for which it moves *)
(* something a run reads.                                                  *)
LEMMA EditInv ==
  ASSUME IInv, TypeOK', Edit,
         changed \subseteq changed',
         errors' \subseteq errors,
         \A n \in live' \ changed' :
            /\ n \in live
            /\ conn'[n] = conn[n] /\ data'[n] = data[n] /\ cache'[n] = cache[n]
            /\ \A m \in SourcesOf(n) : cache'[m] = cache[m]
  PROVE  IInv'
<1>1. phase = "idle" /\ phase' = "idle" /\ UNCHANGED <<seed, pending, run, frontier, failed, ran>>
  BY DEF Edit, plan, work
<1>2. PassShape' /\ PlanClosed' /\ WaitsCover' /\ ReadingCurrent' /\ RunsExplained'
  BY <1>1, NoPassInv DEF IInv, PassShape, Active
<1>3. StaleCovered'
  <2> SUFFICES ASSUME NEW n \in live', n \notin changed'
               PROVE  Fresh(n)'
    BY DEF StaleCovered, InPass
  <2>1. n \in Node /\ n \in live /\ n \notin changed
    BY DEF IInv, TypeOK
  <2>2. Fresh(n)
    BY <1>1, <2>1 DEF IInv, StaleCovered, InPass
  <2> QED
    BY <2>1, <2>2, FreshFrame DEF IInv
<1>4. ErrorsCovered'
  BY <1>1 DEF IInv, ErrorsCovered
<1> QED
  BY <1>2, <1>3, <1>4 DEF IInv

LEMMA InvEdit ==
  ASSUME IInv, EditStep
  PROVE  IInv'
<1>1. TypeOK /\ TypeOK'
  BY TypeEdit DEF IInv
<1>2. ASSUME NEW n \in Node, AddNode(n)
      PROVE  IInv'
  BY <1>1, <1>2, EditInv DEF AddNode
<1>3. ASSUME NEW n \in Node, RemoveNode(n)
      PROVE  IInv'
  <2>1. \A m \in Node \ {n} : n \notin SourcesOf(m) => conn'[m] = conn[m]
    <3> SUFFICES ASSUME NEW m \in Node \ {n}, n \notin SourcesOf(m)
                 PROVE  conn'[m] = conn[m]
      OBVIOUS
    <3>1. {i \in DOMAIN conn[m] : conn[m][i] # n} = DOMAIN conn[m]
      BY DEF SourcesOf
    <3>2. conn[m] \in Seq(Node)
      BY <1>1 DEF TypeOK
    <3>3. Retain(conn[m], DOMAIN conn[m]) = conn[m]
      BY <3>2, RetainAll
    <3> QED
      BY <1>3, <3>1, <3>3 DEF RemoveNode
  <2>2. ASSUME NEW m \in live' \ changed'
        PROVE  /\ m \in live
               /\ conn'[m] = conn[m] /\ data'[m] = data[m] /\ cache'[m] = cache[m]
               /\ \A k \in SourcesOf(m) : cache'[k] = cache[k]
    <3>1. m \in live /\ m \in Node \ {n} /\ n \notin SourcesOf(m)
      BY <1>1, <1>3 DEF RemoveNode, TypeOK
    <3>2. conn'[m] = conn[m]
      BY <2>1, <3>1
    <3>3. data'[m] = data[m] /\ \A k \in Node \ {n} : cache'[k] = cache[k]
      BY <1>1, <1>3, <3>1 DEF RemoveNode, TypeOK
    <3>4. SourcesOf(m) \subseteq Node
      BY <1>1, <3>1 DEF TypeOK, SourcesOf
    <3> QED
      BY <3>1, <3>2, <3>3, <3>4
  <2>3. Edit /\ changed \subseteq changed' /\ errors' \subseteq errors
    BY <1>3 DEF RemoveNode
  <2> QED
    BY <1>1, <2>2, <2>3, EditInv
<1>4. ASSUME NEW m \in Node, NEW n \in Node, Connect(m, n)
      PROVE  IInv'
  BY <1>1, <1>4, EditInv DEF Connect, TypeOK
<1>5. ASSUME NEW n \in Node, NEW i \in DOMAIN conn[n], Disconnect(n, i)
      PROVE  IInv'
  BY <1>1, <1>5, EditInv DEF Disconnect, TypeOK
<1>6. ASSUME NEW n \in Node, NEW d \in Data, UpdateData(n, d)
      PROVE  IInv'
  BY <1>1, <1>6, EditInv DEF UpdateData, TypeOK
<1> QED
  <2>1. \A w \in Wires : w[1] \in Node /\ w[2] \in Node
    BY NodeAssumption
  <2> QED
    BY <1>2, <1>3, <1>4, <1>5, <1>6, <2>1 DEF EditStep

(* A &self call keeps it outside the window between peek and drain: it     *)
(* moves only what nodes read that it marks, and adds no source.           *)
LEMMA SharedInv ==
  ASSUME IInv, TypeOK', Shared, phase # "planned",
         changed \subseteq changed',
         \A n \in Node : SourcesOf(n)' \subseteq SourcesOf(n),
         \A n \in Node : n \in changed' \/ (conn'[n] = conn[n] /\ data'[n] = data[n])
  PROVE  IInv'
<1>1. UNCHANGED <<live, cache, errors, phase, seed, waits, pending, run, reading,
                  frontier, ran, failed>>
  BY DEF Shared, plan, work
<1>0. \A n \in Node : n \in changed' \/ SourcesOf(n)' = SourcesOf(n)
  BY DEF SourcesOf
<1>2. PassShape'
  BY <1>1 DEF IInv, PassShape, Active
<1>3. PlanClosed'
  BY <1>1 DEF IInv, PlanClosed, Active
<1>4. RunsExplained' /\ WaitsCover'
  <2>1. pending' \subseteq Node
    BY DEF TypeOK
  <2>2. RunsExplained'
    BY <1>0, <1>1, <2>1 DEF IInv, RunsExplained, Active
  <2> QED
    BY <1>1, <2>2 DEF IInv, WaitsCover
<1>5. ReadingCurrent'
  <2> SUFFICES ASSUME NEW n \in Node, run'[n] = "running", n \notin changed'
               PROVE  reading'[n] = Context(n)'
    BY DEF ReadingCurrent
  <2>1. InputValues(n)' = InputValues(n) /\ data'[n] = data[n]
    BY <1>1, InputValuesFrame DEF IInv
  <2> QED
    BY <1>1, <2>1 DEF IInv, ReadingCurrent, Context
<1>6. StaleCovered'
  <2> SUFFICES ASSUME NEW n \in live', n \notin changed', ~ Fresh(n)'
               PROVE  phase' = "levels" /\ \/ n \in failed'
                                           \/ run'[n] \in {"queued", "todo", "running", "failed"}
                                           \/ Arriving(n)'
    BY DEF StaleCovered, InPass
  <2>1. n \in Node /\ n \in live /\ n \notin changed
    BY <1>1 DEF IInv, TypeOK
  <2>2. ~ Fresh(n)
    BY <1>1, <2>1, FreshFrame DEF IInv
  <2>3. RunMoved' = RunMoved
    BY <1>1 DEF RunMoved
  <2>4. SourcesOf(n)' = SourcesOf(n)
    BY <1>0, <2>1
  <2> QED
    BY <1>1, <2>1, <2>2, <2>3, <2>4 DEF IInv, StaleCovered, InPass, Arriving
<1>7. ErrorsCovered'
  BY <1>1 DEF IInv, ErrorsCovered
<1> QED
  BY <1>2, <1>3, <1>4, <1>5, <1>6, <1>7 DEF IInv

LEMMA InvShared ==
  ASSUME IInv, SharedCall, phase # "planned"
  PROVE  IInv'
<1>1. TypeOK /\ TypeOK'
  BY TypeShared DEF IInv
<1>2. ASSUME MarkAllNodesDirty
      PROVE  IInv'
  <2>1. \A n \in Node : SourcesOf(n)' = SourcesOf(n)
    BY <1>2 DEF MarkAllNodesDirty, SourcesOf
  <2> QED
    BY <1>1, <1>2, <2>1, SharedInv DEF MarkAllNodesDirty
<1>3. ASSUME NEW n \in Node, NEW i \in DOMAIN conn[n], ReorderInputEdge(n, i)
      PROVE  IInv'
  <2>1. /\ \A m \in Node : SourcesOf(m)' = SourcesOf(m)
        /\ \A m \in Node \ {n} : conn'[m] = conn[m]
    BY <1>1, <1>3, ReorderKeepsSources
  <2>2. Shared /\ changed' = changed \cup {n} /\ data' = data
    BY <1>3 DEF ReorderInputEdge
  <2> QED
    BY <1>1, <2>1, <2>2, SharedInv
<1>4. ASSUME NEW n \in Node, NEW i \in DOMAIN conn[n], ReorderOutputEdge(n, i)
      PROVE  IInv'
  <2>1. \A m \in Node : SourcesOf(m)' = SourcesOf(m)
    BY <1>4 DEF ReorderOutputEdge, SourcesOf
  <2> QED
    BY <1>1, <1>4, <2>1, SharedInv DEF ReorderOutputEdge
<1>5. ASSUME NEW n \in Node, NEW i \in DOMAIN conn[n], DropPortEdge(n, i)
      PROVE  IInv'
  <2>1. /\ \A m \in Node : SourcesOf(m)' \subseteq SourcesOf(m)
        /\ \A m \in Node \ {n} : conn'[m] = conn[m]
    BY <1>1, <1>5, DropConn DEF DropPortEdge
  <2>2. Shared /\ changed' = changed \cup {n} /\ data' = data
    BY <1>5 DEF DropPortEdge
  <2> QED
    BY <1>1, <2>1, <2>2, SharedInv
<1>6. ASSUME NEW n \in Node, NEW d \in Data, SetPortDefault(n, d)
      PROVE  IInv'
  <2>1. /\ \A m \in Node : SourcesOf(m)' = SourcesOf(m)
        /\ \A m \in Node \ {n} : data'[m] = data[m]
        /\ Shared /\ changed' = changed \cup {n} /\ conn' = conn
    BY <1>1, <1>6 DEF SetPortDefault, SourcesOf, TypeOK
  <2> QED
    BY <1>1, <2>1, SharedInv
<1> QED
  BY <1>2, <1>3, <1>4, <1>5, <1>6 DEF SharedCall

LEMMA InvCall ==
  ASSUME IInv, Call
  PROVE  IInv'
<1>1. TypeOK /\ TypeOK'
  BY TypeCall DEF IInv
<1>2. ASSUME phase = "idle", phase' = "idle", outcome' \in Outcome,
             UNCHANGED <<graph, cache, changed, errors, plan, work>>
      PROVE  IInv'
  <2>1. PassShape' /\ PlanClosed' /\ WaitsCover' /\ ReadingCurrent' /\ RunsExplained'
    BY <1>1, <1>2, NoPassInv DEF IInv, PassShape, Active, plan, work
  <2>2. StaleCovered'
    <3> SUFFICES ASSUME NEW n \in live', n \notin changed'
                 PROVE  Fresh(n)'
      BY DEF StaleCovered, InPass
    <3>1. n \in Node /\ n \in live /\ n \notin changed
      BY <1>1, <1>2 DEF TypeOK, graph
    <3>2. Fresh(n)
      BY <1>2, <3>1 DEF IInv, StaleCovered, InPass
    <3> QED
      BY <1>1, <1>2, <3>1, <3>2, FreshFrame DEF graph
  <2>3. ErrorsCovered'
    BY <1>2 DEF IInv, ErrorsCovered
  <2> QED
    BY <1>1, <2>1, <2>2, <2>3 DEF IInv
<1>3. ASSUME ExecuteNothing
      PROVE  IInv'
  BY <1>2, <1>3 DEF ExecuteNothing, Outcome
<1>4. ASSUME ExecuteCyclic
      PROVE  IInv'
  BY <1>2, <1>4 DEF ExecuteCyclic, Outcome
<1>5. ASSUME NEW a \in {"sync", "async"}, Plan(a)
      PROVE  IInv'
  <2>1. /\ phase = "idle" /\ phase' = "planned" /\ seed' = changed
        /\ pending' = Downstream(changed)
        /\ UNCHANGED <<live, data, conn, cache, changed, errors, run, reading,
                       frontier, ran, failed>>
    BY <1>5 DEF Plan, graph
  <2>2. /\ Downstream(changed) \subseteq Node /\ changed \subseteq Downstream(changed)
        /\ ClosedDownstream(Downstream(changed))
    BY <1>1, DownstreamClosed DEF TypeOK
  <2>3. /\ frontier = {} /\ failed = {} /\ ran = {} /\ \A n \in Node : run[n] = "none"
    BY <2>1 DEF IInv, PassShape, Active
  <2>4. PassShape'
    BY <2>1, <2>2, <2>3 DEF PassShape, Active
  <2>5. PlanClosed'
    <3>1. \A n \in Node : SourcesOf(n)' = SourcesOf(n) /\ SourcesOf(n) \subseteq Node
      BY <1>1, <2>1 DEF SourcesOf, TypeOK
    <3>2. \A m \in Node : \A s \in SourcesOf(m) :
            s \in Downstream(changed) => m \in Downstream(changed)
      BY <2>2 DEF ClosedDownstream
    <3> QED
      BY <2>1, <2>3, <3>1, <3>2 DEF PlanClosed, Active
  <2>6. ReadingCurrent' /\ WaitsCover'
    <3>1. \A n \in Node : SourcesOf(n)' = SourcesOf(n) /\ waits'[n] = SourcesOf(n)
      BY <1>5, <2>1 DEF SourcesOf, Plan
    <3> QED
      BY <2>1, <2>3, <3>1 DEF ReadingCurrent, WaitsCover
  <2>7. StaleCovered'
    <3> SUFFICES ASSUME NEW n \in live', n \notin changed'
                 PROVE  Fresh(n)'
      BY DEF StaleCovered, InPass
    <3>1. n \in Node /\ n \in live /\ n \notin changed
      BY <1>1, <2>1 DEF TypeOK
    <3>2. Fresh(n)
      BY <2>1, <3>1 DEF IInv, StaleCovered, InPass
    <3> QED
      BY <1>1, <2>1, <3>1, <3>2, FreshFrame
  <2>8. ErrorsCovered'
    BY <2>1 DEF IInv, ErrorsCovered
  <2>9. RunsExplained'
    <3>1. \A n \in Downstream(changed) : n \in changed \/ SourcesOf(n) # {}
      BY <1>1, DownstreamFed DEF TypeOK
    <3>2. \A n \in Node : SourcesOf(n)' = SourcesOf(n)
      BY <2>1 DEF SourcesOf
    <3> QED
      BY <2>1, <2>2, <2>3, <3>1, <3>2 DEF RunsExplained, Active
  <2> QED
    BY <1>1, <2>4, <2>5, <2>6, <2>7, <2>8, <2>9 DEF IInv
<1> QED
  BY <1>3, <1>4, <1>5 DEF Call

(* Steps of a pass leave the graph, and with it every source, as it is.    *)
LEMMA SourcesFrame ==
  ASSUME TypeOK, UNCHANGED graph
  PROVE  /\ \A n \in Node : SourcesOf(n)' = SourcesOf(n)
         /\ \A n \in Node : SourcesOf(n) \subseteq Node
         /\ live' = live /\ data' = data /\ conn' = conn
BY DEF SourcesOf, graph, TypeOK

(* With the cache untouched as well, what is up to date stays so.          *)
LEMMA CacheFrame ==
  ASSUME TypeOK, UNCHANGED <<graph, cache>>
  PROVE  /\ \A n \in Node : Fresh(n) => Fresh(n)'
         /\ \A n \in Node : Context(n)' = Context(n)
<1>1. \A n \in Node : conn'[n] = conn[n] /\ data'[n] = data[n] /\ cache'[n] = cache[n]
  BY DEF graph
<1>2. \A n \in Node : SourcesOf(n) \subseteq Node
  BY SourcesFrame
<1>3. \A n \in Node : InputValues(n)' = InputValues(n)
  BY <1>1, <1>2, InputValuesFrame
<1> QED
  BY <1>1, <1>2, <1>3, FreshFrame DEF Context

LEMMA InvReject ==
  ASSUME IInv, Reject
  PROVE  IInv'
<1>1. TypeOK /\ TypeOK'
  BY TypePass DEF IInv, PassStep
<1>2. /\ phase = "planned" /\ NoPass
      /\ UNCHANGED <<graph, cache, changed, errors>>
  BY DEF Reject
<1>3. /\ phase' = "idle" /\ seed' = {}
      /\ pending' = {} /\ frontier' = {} /\ failed' = {} /\ ran' = {}
      /\ \A n \in Node : run'[n] = "none"
  BY <1>2, NoPassType
<1>4. PassShape' /\ PlanClosed' /\ WaitsCover' /\ ReadingCurrent' /\ RunsExplained'
  BY <1>1, <1>3, NoPassInv
<1>5. StaleCovered'
  BY <1>1, <1>2, CacheFrame, SourcesFrame DEF IInv, StaleCovered, InPass, TypeOK
<1>6. ErrorsCovered'
  BY <1>2, <1>3 DEF IInv, ErrorsCovered
<1> QED
  BY <1>1, <1>4, <1>5, <1>6 DEF IInv

LEMMA InvCommit ==
  ASSUME IInv, Commit
  PROVE  IInv'
<1>1. TypeOK /\ TypeOK'
  BY TypePass DEF IInv, PassStep
<1>2. /\ phase = "planned" /\ phase' = "levels" /\ changed' = {} /\ errors' = {}
      /\ UNCHANGED <<graph, cache>>
      /\ UNCHANGED <<seed, waits, pending, run, reading, frontier, ran, failed>>
  BY DEF Commit, plan, work
<1>3. /\ \A n \in Node : SourcesOf(n)' = SourcesOf(n)
      /\ live' = live /\ live \subseteq Node
  BY <1>1, <1>2, SourcesFrame DEF TypeOK
<1>4. /\ changed = seed /\ seed \subseteq pending /\ ran = {}
      /\ \A n \in Node : run[n] = "none"
  BY <1>2 DEF IInv, PassShape, Active
<1>5. PassShape'
  BY <1>2 DEF PassShape
<1>6. PlanClosed'
  BY <1>2, <1>3 DEF IInv, PlanClosed, Active
<1>7. ReadingCurrent' /\ WaitsCover'
  BY <1>2, <1>3, <1>4 DEF IInv, ReadingCurrent, WaitsCover
<1>8. StaleCovered'
  <2> SUFFICES ASSUME NEW n \in live', ~ Fresh(n)'
               PROVE  phase' = "levels" /\ Arriving(n)'
    BY DEF StaleCovered, InPass
  <2>1. n \in changed
    BY <1>1, <1>2, <1>3, CacheFrame DEF IInv, StaleCovered, InPass
  <2> QED
    BY <1>2, <1>4, <2>1 DEF Arriving
<1>9. ErrorsCovered'
  BY <1>2 DEF ErrorsCovered
<1>10. RunsExplained'
  <2>1. pending \subseteq Node
    BY <1>1 DEF TypeOK
  <2> QED
    BY <1>2, <1>3, <1>4, <2>1 DEF IInv, RunsExplained, Active
<1> QED
  BY <1>1, <1>5, <1>6, <1>7, <1>8, <1>9, <1>10 DEF IInv

LEMMA InvStartLevel ==
  ASSUME IInv, StartLevel
  PROVE  IInv'
<1>1. TypeOK /\ TypeOK'
  BY TypePass DEF IInv, PassStep
<1>2. /\ phase = "levels" /\ phase' = "levels"
      /\ pending' = pending \ NextLevel
      /\ UNCHANGED <<graph, cache>>
      /\ UNCHANGED <<changed, errors, seed, waits, reading, frontier, ran, failed>>
  BY DEF StartLevel, plan
<1>3. /\ \A n \in Node : SourcesOf(n)' = SourcesOf(n) /\ SourcesOf(n) \subseteq Node
      /\ live' = live /\ live \subseteq Node
  BY <1>1, <1>2, SourcesFrame DEF TypeOK
<1>4. \A n \in Node : run[n] = "none"
  BY DEF StartLevel, LevelOpen
<1>5. \A n \in Node : /\ run'[n] \in {"none", "queued", "todo"}
                      /\ run'[n] # "none" <=> n \in NextLevel /\ MustExecute(n)
  BY DEF StartLevel
<1>6. NextLevel \subseteq pending /\ \A n \in NextLevel : SourcesOf(n) \cap pending = {}
  BY <1>1, <1>2 DEF NextLevel, IInv, WaitsCover, TypeOK
<1>7. PassShape'
  BY <1>2 DEF PassShape
<1>8. PlanClosed'
  <2>1. ASSUME NEW m \in Node, NEW s \in SourcesOf(m), s \in pending
        PROVE  m \in pending \ NextLevel
    BY <1>6, <2>1 DEF IInv, PlanClosed
  <2>2. \A n \in Node : Active(n)' \/ n \in ran' => n \notin pending'
    BY <1>2, <1>5 DEF IInv, PlanClosed, Active
  <2> QED
    BY <1>2, <1>3, <1>5, <1>6, <2>1, <2>2 DEF PlanClosed, Active
<1>9. ReadingCurrent' /\ WaitsCover'
  BY <1>2, <1>3, <1>5 DEF IInv, ReadingCurrent, WaitsCover
<1>10. StaleCovered'
  <2> SUFFICES ASSUME NEW n \in live', n \notin changed', ~ Fresh(n)', n \notin failed',
                      run'[n] \notin {"queued", "todo"}
               PROVE  Arriving(n)'
    BY <1>2 DEF StaleCovered, InPass
  <2>1. RunMoved = {} /\ n \in Node
    BY <1>3, <1>4 DEF RunMoved
  <2>2. Arriving(n)
    BY <1>1, <1>2, <1>3, <1>4, <2>1, CacheFrame DEF IInv, StaleCovered, InPass
  <2>3. MustExecute(n)
    BY <2>1, <2>2 DEF Arriving, MustExecute
  <2>4. n \notin NextLevel
    BY <1>5, <2>1, <2>3
  <2> QED
    BY <1>2, <1>3, <2>1, <2>2, <2>4 DEF Arriving
<1>11. ErrorsCovered'
  BY <1>2 DEF IInv, ErrorsCovered
<1>12. RunsExplained'
  <2>1. \A n \in Node :
          Active(n)' => n \in seed \/ n \in changed \/ SourcesOf(n) \cap frontier # {}
    BY <1>5, <1>6 DEF IInv, RunsExplained, MustExecute, Active
  <2>2. pending \subseteq Node
    BY <1>1 DEF TypeOK
  <2> QED
    BY <1>2, <1>3, <2>1, <2>2 DEF IInv, RunsExplained
<1> QED
  BY <1>1, <1>7, <1>8, <1>9, <1>10, <1>11, <1>12 DEF IInv

LEMMA InvRecordRuns ==
  ASSUME IInv, RecordRuns
  PROVE  IInv'
<1>1. TypeOK /\ TypeOK'
  BY TypePass DEF IInv, PassStep
<1>2. /\ UNCHANGED <<graph, cache>>
      /\ UNCHANGED <<changed, phase, seed, waits, pending, reading>>
      /\ frontier' = frontier \cup RunMoved
      /\ errors' = errors \cup RunFailed /\ failed' = failed \cup RunFailed
      /\ ran' = ran \cup Finished
      /\ \A n \in Node : run'[n] = IF run[n] = "queued" THEN "todo" ELSE "none"
      /\ \A n \in Node : run[n] \notin {"todo", "running"}
  BY DEF RecordRuns, plan
<1>3. phase = "levels"
  BY DEF IInv, PassShape, RecordRuns, LevelOpen, Active
<1>4. /\ \A n \in Node : SourcesOf(n)' = SourcesOf(n) /\ SourcesOf(n) \subseteq Node
      /\ live' = live /\ live \subseteq Node
  BY <1>1, <1>2, SourcesFrame DEF TypeOK
<1>5. PassShape'
  BY <1>2, <1>3 DEF PassShape
<1>6. PlanClosed'
  BY <1>2, <1>4 DEF IInv, PlanClosed, Active, Finished
<1>7. ReadingCurrent' /\ WaitsCover'
  BY <1>2, <1>4 DEF IInv, ReadingCurrent, WaitsCover
<1>8. StaleCovered'
  <2> SUFFICES ASSUME NEW n \in live', n \notin changed', ~ Fresh(n)', n \notin failed',
                      run'[n] # "todo"
               PROVE  Arriving(n)'
    BY <1>2, <1>3 DEF StaleCovered, InPass
  <2>1. n \in Node /\ run[n] \notin {"queued", "todo", "running", "failed"} /\ n \notin failed
    BY <1>2, <1>4 DEF RunFailed
  <2>2. Arriving(n)
    BY <1>1, <1>2, <1>3, <1>4, <2>1, CacheFrame DEF IInv, StaleCovered, InPass
  <2> QED
    BY <1>2, <1>4, <2>1, <2>2 DEF Arriving
<1>9. ErrorsCovered'
  BY <1>2, <1>3 DEF IInv, ErrorsCovered
<1>10. RunsExplained'
  <2>1. pending \subseteq Node
    BY <1>1 DEF TypeOK
  <2> QED
    BY <1>2, <1>4, <2>1 DEF IInv, RunsExplained, Active, Finished
<1> QED
  BY <1>1, <1>5, <1>6, <1>7, <1>8, <1>9, <1>10 DEF IInv

LEMMA InvEndPass ==
  ASSUME IInv, EndPass
  PROVE  IInv'
<1>1. TypeOK /\ TypeOK'
  BY TypePass DEF IInv, PassStep
<1>2. /\ phase = "levels" /\ pending = {} /\ NoPass
      /\ UNCHANGED <<graph, cache, errors>>
      /\ changed' = changed \cup failed
      /\ \A n \in Node : run[n] = "none"
  BY DEF EndPass, LevelOpen
<1>3. /\ phase' = "idle" /\ seed' = {}
      /\ pending' = {} /\ frontier' = {} /\ failed' = {} /\ ran' = {}
      /\ \A n \in Node : run'[n] = "none"
  BY <1>2, NoPassType
<1>4. PassShape' /\ PlanClosed' /\ WaitsCover' /\ ReadingCurrent' /\ RunsExplained'
  BY <1>1, <1>3, NoPassInv
<1>5. StaleCovered'
  <2> SUFFICES ASSUME NEW n \in live', n \notin changed'
               PROVE  Fresh(n)'
    BY DEF StaleCovered, InPass
  <2>1. n \in Node /\ n \in live /\ n \notin changed /\ n \notin failed
    BY <1>1, <1>2, SourcesFrame DEF TypeOK
  <2>2. Fresh(n)
    BY <1>2, <2>1 DEF IInv, StaleCovered, InPass, Arriving
  <2> QED
    BY <1>1, <1>2, <2>1, <2>2, CacheFrame
<1>6. ErrorsCovered'
  BY <1>2, <1>3 DEF IInv, ErrorsCovered
<1> QED
  BY <1>1, <1>4, <1>5, <1>6 DEF IInv

(* A run of the open level belongs to a pass, and waits for nothing.       *)
LEMMA ActiveNode ==
  ASSUME IInv, NEW n \in Node, Active(n)
  PROVE  /\ phase = "levels" /\ n \notin pending /\ n \notin SourcesOf(n)
         /\ \A m \in Node : n \in SourcesOf(m) => m \in pending /\ ~ Active(m)
<1>1. phase = "levels" /\ n \notin pending
  BY DEF IInv, PassShape, PlanClosed
<1>2. \A m \in Node : n \in SourcesOf(m) => m \in pending
  BY DEF IInv, PlanClosed
<1>3. \A m \in Node : m \in pending => ~ Active(m)
  BY DEF IInv, PlanClosed
<1> QED
  BY <1>1, <1>2, <1>3

LEMMA InvBeginRun ==
  ASSUME IInv, NEW n \in Node, BeginRun(n)
  PROVE  IInv'
<1>1. TypeOK /\ TypeOK'
  BY TypePass DEF IInv, PassStep
<1>2. /\ run[n] = "todo" /\ run' = [run EXCEPT ![n] = "running"]
      /\ reading' = [reading EXCEPT ![n] = Context(n)]
      /\ UNCHANGED <<graph, cache>>
      /\ UNCHANGED <<changed, errors, phase, seed, waits, pending, frontier, ran, failed>>
  BY DEF BeginRun, plan
<1>3. /\ \A m \in Node : run'[m] = IF m = n THEN "running" ELSE run[m]
      /\ \A m \in Node : reading'[m] = IF m = n THEN Context(n) ELSE reading[m]
  BY <1>1, <1>2 DEF TypeOK
<1>4. Active(n) /\ phase = "levels" /\ \A m \in Node : Active(m)' <=> Active(m)
  BY <1>2, <1>3, ActiveNode DEF Active
<1>5. /\ \A m \in Node : SourcesOf(m)' = SourcesOf(m) /\ SourcesOf(m) \subseteq Node
      /\ live' = live /\ live \subseteq Node /\ pending \subseteq Node
      /\ \A m \in Node : Context(m)' = Context(m)
  BY <1>1, <1>2, SourcesFrame, CacheFrame DEF TypeOK
<1>6. PassShape'
  BY <1>2, <1>4 DEF PassShape
<1>7. PlanClosed'
  BY <1>2, <1>4, <1>5 DEF IInv, PlanClosed
<1>8. ReadingCurrent' /\ WaitsCover'
  BY <1>2, <1>3, <1>5 DEF IInv, ReadingCurrent, WaitsCover
<1>9. StaleCovered'
  <2> SUFFICES ASSUME NEW m \in live', m \notin changed', ~ Fresh(m)'
               PROVE  \/ m \in failed'
                      \/ run'[m] \in {"queued", "todo", "running", "failed"}
                      \/ Arriving(m)'
    BY <1>2, <1>4 DEF StaleCovered, InPass
  <2>1. RunMoved' = RunMoved
    BY <1>2, <1>3 DEF RunMoved
  <2>2. m \in Node /\ ~ Fresh(m)
    BY <1>1, <1>2, <1>5, CacheFrame
  <2> QED
    BY <1>2, <1>3, <1>5, <2>1, <2>2 DEF IInv, StaleCovered, InPass, Arriving
<1>10. ErrorsCovered'
  BY <1>2 DEF IInv, ErrorsCovered
<1>11. RunsExplained'
  BY <1>2, <1>4, <1>5 DEF IInv, RunsExplained
<1> QED
  BY <1>1, <1>6, <1>7, <1>8, <1>9, <1>10, <1>11 DEF IInv

LEMMA InvRunMissing ==
  ASSUME IInv, NEW n \in Node, RunMissing(n)
  PROVE  IInv'
<1>1. TypeOK /\ TypeOK'
  BY TypePass DEF IInv, PassStep
<1>2. /\ run[n] = "todo" /\ n \notin live /\ run' = [run EXCEPT ![n] = "moved"]
      /\ UNCHANGED <<graph, cache>>
      /\ UNCHANGED <<changed, errors, phase, seed, waits, pending, reading, frontier, ran, failed>>
  BY DEF RunMissing, plan
<1>3. \A m \in Node : run'[m] = IF m = n THEN "moved" ELSE run[m]
  BY <1>1, <1>2 DEF TypeOK
<1>4. Active(n) /\ phase = "levels" /\ \A m \in Node : Active(m)' <=> Active(m)
  BY <1>2, <1>3, ActiveNode DEF Active
<1>5. /\ \A m \in Node : SourcesOf(m)' = SourcesOf(m) /\ SourcesOf(m) \subseteq Node
      /\ live' = live /\ live \subseteq Node /\ pending \subseteq Node
      /\ \A m \in Node : Context(m)' = Context(m)
  BY <1>1, <1>2, SourcesFrame, CacheFrame DEF TypeOK
<1>6. PassShape'
  BY <1>2, <1>4 DEF PassShape
<1>7. PlanClosed'
  BY <1>2, <1>4, <1>5 DEF IInv, PlanClosed
<1>8. ReadingCurrent' /\ WaitsCover'
  BY <1>2, <1>3, <1>5 DEF IInv, ReadingCurrent, WaitsCover
<1>9. StaleCovered'
  <2> SUFFICES ASSUME NEW m \in live', m \notin changed', ~ Fresh(m)'
               PROVE  \/ m \in failed'
                      \/ run'[m] \in {"queued", "todo", "running", "failed"}
                      \/ Arriving(m)'
    BY <1>2, <1>4 DEF StaleCovered, InPass
  <2>1. RunMoved \subseteq RunMoved'
    BY <1>2, <1>3 DEF RunMoved
  <2>2. m \in Node /\ m # n /\ ~ Fresh(m)
    BY <1>1, <1>2, <1>5, CacheFrame
  <2> QED
    BY <1>2, <1>3, <1>5, <2>1, <2>2 DEF IInv, StaleCovered, InPass, Arriving
<1>10. ErrorsCovered'
  BY <1>2 DEF IInv, ErrorsCovered
<1>11. RunsExplained'
  BY <1>2, <1>4, <1>5 DEF IInv, RunsExplained
<1> QED
  BY <1>1, <1>6, <1>7, <1>8, <1>9, <1>10, <1>11 DEF IInv

(* The end of a run, as far as the invariant sees it: the node wrote what  *)
(* its inputs call for or it failed, and unless its cached output is the   *)
(* one from before the run, its consumers will execute.                    *)
LEMMA RunEndInv ==
  ASSUME IInv, TypeOK', NEW n \in Node, NEW v, NEW st \in {"same", "moved", "failed"},
         run[n] = "running",
         run' = [run EXCEPT ![n] = st],
         cache' = [cache EXCEPT ![n] = v],
         v = cache[n] \/ st # "same",
         v = Written(n) \/ st = "failed",
         reading' = [reading EXCEPT ![n] = Unread],
         UNCHANGED graph,
         UNCHANGED <<changed, errors, phase, seed, waits, pending, frontier, ran, failed>>
  PROVE  IInv'
<1>1. TypeOK
  BY DEF IInv
<1>2. /\ \A m \in Node : run'[m] = IF m = n THEN st ELSE run[m]
      /\ \A m \in Node : cache'[m] = IF m = n THEN v ELSE cache[m]
      /\ \A m \in Node : reading'[m] = IF m = n THEN Unread ELSE reading[m]
  BY <1>1 DEF TypeOK
<1>3. /\ Active(n) /\ phase = "levels" /\ n \notin pending /\ n \notin SourcesOf(n)
      /\ \A m \in Node : n \in SourcesOf(m) => m \in pending /\ ~ Active(m)
      /\ \A m \in Node : Active(m)' <=> Active(m)
  BY <1>2, ActiveNode DEF Active
<1>4. /\ \A m \in Node : SourcesOf(m)' = SourcesOf(m) /\ SourcesOf(m) \subseteq Node
      /\ live' = live /\ live \subseteq Node /\ pending \subseteq Node
      /\ conn' = conn /\ data' = data
  BY <1>1, SourcesFrame DEF TypeOK
<1>5. \A m \in Node : n \notin SourcesOf(m) => InputValues(m)' = InputValues(m)
  <2> SUFFICES ASSUME NEW m \in Node, n \notin SourcesOf(m)
               PROVE  InputValues(m)' = InputValues(m)
    OBVIOUS
  <2>1. \A k \in SourcesOf(m) : cache'[k] = cache[k]
    BY <1>2, <1>4
  <2> QED
    BY <1>1, <1>4, <2>1, InputValuesFrame
<1>6. PassShape'
  BY <1>3 DEF PassShape
<1>7. PlanClosed'
  BY <1>3, <1>4 DEF IInv, PlanClosed
<1>12. WaitsCover'
  BY <1>4 DEF IInv, WaitsCover
<1>8. ReadingCurrent'
  <2> SUFFICES ASSUME NEW m \in Node, run'[m] = "running", m \notin changed'
               PROVE  reading'[m] = Context(m)'
    BY DEF ReadingCurrent
  <2>1. m # n /\ run[m] = "running" /\ Active(m)
    BY <1>2 DEF Active
  <2>2. n \notin SourcesOf(m)
    BY <1>3, <2>1
  <2> QED
    BY <1>2, <1>4, <1>5, <2>1, <2>2 DEF IInv, ReadingCurrent, Context
<1>9. StaleCovered'
  <2> SUFFICES ASSUME NEW m \in live', m \notin changed', ~ Fresh(m)'
               PROVE  \/ m \in failed'
                      \/ run'[m] \in {"queued", "todo", "running", "failed"}
                      \/ Arriving(m)'
    BY <1>3 DEF StaleCovered, InPass
  <2>1. m \in Node /\ m \in live /\ m \notin changed
    BY <1>4
  <2>2. RunMoved \subseteq RunMoved' /\ (v # cache[n] => n \in RunMoved')
    BY <1>2 DEF RunMoved
  <2>3. CASE m = n
    <3>1. CASE st = "failed"
      BY <1>2, <2>3, <3>1
    <3>2. CASE v = Written(n)
      <4>1. /\ InputValues(n)' = InputValues(n)
            /\ reading[n].data = data[n] /\ reading[n].inputs = InputValues(n)
        <5>1. InputValues(n)' = InputValues(n)
          BY <1>3, <1>5
        <5>2. reading[n] = Context(n)
          BY <2>1, <2>3 DEF IInv, ReadingCurrent
        <5>3. /\ Context(n).data = data[n]
              /\ Context(n).inputs = InputValues(n)
          BY DEF Context
        <5> QED
          BY <5>1, <5>2, <5>3
      <4>2. cache'[n] = Written(n) /\ data'[n] = data[n]
        BY <1>2, <1>4, <3>2
      <4>3. Fresh(n)'
        BY <4>1, <4>2 DEF Fresh, Written
      <4> QED
        BY <2>3, <4>3
    <3> QED
      BY <3>1, <3>2
  <2>4. CASE m # n /\ n \in SourcesOf(m) /\ v # cache[n]
    BY <1>3, <1>4, <2>1, <2>2, <2>4 DEF Arriving
  <2>5. CASE m # n /\ (n \notin SourcesOf(m) \/ v = cache[n])
    <3>1. \A k \in SourcesOf(m) : cache'[k] = cache[k]
      BY <1>2, <1>4, <2>1, <2>5
    <3>2. ~ Fresh(m)
      BY <1>1, <1>2, <1>4, <2>1, <2>5, <3>1, FreshFrame
    <3> QED
      BY <1>2, <1>4, <2>1, <2>2, <2>5, <3>2 DEF IInv, StaleCovered, InPass, Arriving
  <2> QED
    BY <2>3, <2>4, <2>5
<1>10. ErrorsCovered'
  BY DEF IInv, ErrorsCovered
<1>11. RunsExplained'
  BY <1>3, <1>4 DEF IInv, RunsExplained
<1> QED
  BY <1>6, <1>7, <1>8, <1>9, <1>10, <1>11, <1>12 DEF IInv

LEMMA InvRunEnd ==
  ASSUME IInv, NEW n \in Node, FinishRun(n) \/ FailRun(n)
  PROVE  IInv'
<1>1. TypeOK'
  BY TypePass DEF IInv, PassStep
<1>2. CASE FinishRun(n)
  <2> DEFINE st == Verdict(n, cache[n], Written(n))
  <2>1. st \in {"same", "moved", "failed"} /\ (Written(n) = cache[n] \/ st # "same")
    BY DEF Verdict
  <2>2. /\ run[n] = "running" /\ run' = [run EXCEPT ![n] = st]
        /\ cache' = [cache EXCEPT ![n] = Written(n)]
        /\ reading' = [reading EXCEPT ![n] = Unread] /\ UNCHANGED graph
        /\ UNCHANGED <<changed, errors, phase, seed, waits, pending, frontier, ran, failed>>
    BY <1>2 DEF FinishRun, plan
  <2> HIDE DEF st
  <2> QED
    BY <1>1, <2>1, <2>2, RunEndInv
<1>3. CASE FailRun(n)
  <2>1. PICK v : cache' = [cache EXCEPT ![n] = v]
    BY <1>3 DEF FailRun
  <2>2. /\ run[n] = "running" /\ run' = [run EXCEPT ![n] = "failed"]
        /\ reading' = [reading EXCEPT ![n] = Unread] /\ UNCHANGED graph
        /\ UNCHANGED <<changed, errors, phase, seed, waits, pending, frontier, ran, failed>>
    BY <1>3 DEF FailRun, plan
  <2> QED
    BY <1>1, <2>1, <2>2, RunEndInv
<1> QED
  BY <1>2, <1>3

LEMMA InvStep == IInv /\ [Next]_vars => IInv'
<1> SUFFICES ASSUME IInv, [Next]_vars
             PROVE  IInv'
  OBVIOUS
<1>1. CASE PassStep
  BY <1>1, InvReject, InvCommit, InvStartLevel, InvRecordRuns, InvEndPass,
     InvBeginRun, InvRunMissing, InvRunEnd DEF PassStep
<1>2. CASE UNCHANGED vars
  <2>1. TypeOK'
    BY <1>2, TypeStep DEF IInv
  <2>2. PassShape' /\ ErrorsCovered'
    BY <1>2 DEF vars, IInv, PassShape, ErrorsCovered, Active
  <2>3. PlanClosed'
    BY <1>2 DEF vars, IInv, PlanClosed, Active, SourcesOf
  <2>4. RunsExplained'
    BY <1>2 DEF vars, IInv, RunsExplained, Active, SourcesOf
  <2>5. ReadingCurrent' /\ WaitsCover'
    BY <1>2 DEF vars, IInv, ReadingCurrent, Context, InputValues, WaitsCover, SourcesOf
  <2>6. StaleCovered'
    BY <1>2 DEF vars, IInv, StaleCovered, InPass, Arriving, RunMoved, Fresh, InputValues,
       SourcesOf
  <2> QED
    BY <2>1, <2>2, <2>3, <2>4, <2>5, <2>6 DEF IInv
<1> QED
  BY <1>1, <1>2, InvEdit, InvCall, InvShared DEF Next

(* IInv holds at every point of every pass: an out-of-date output is       *)
(* accounted for, by a mark, a failure, a run or the plan.                 *)
THEOREM Invariance == Spec => []IInv
BY InvInit, InvStep, PTL DEF Spec

-----------------------------------------------------------------------------
(* What follows.                                                           *)

(* Whatever the graph, the cutoff choices and the node functions: between  *)
(* passes every live node whose cached output is out of date is dirty.     *)
THEOREM StaleNodesAreDirty == Spec => []StaleIsDirty
<1>1. IInv => StaleIsDirty
  BY DEF IInv, StaleCovered, InPass, StaleIsDirty
<1> QED
  BY <1>1, Invariance, PTL

(* Between passes a node with an execution error is dirty, so the next     *)
(* execute call tries it again.                                            *)
THEOREM FailedNodesAreRetried == Spec => []ErrorsAreRetried
<1>1. IInv => ErrorsAreRetried
  BY DEF IInv, ErrorsCovered, ErrorsAreRetried
<1> QED
  BY <1>1, Invariance, PTL

(* A node runs in a pass only if it was dirty when the pass was planned, a *)
(* source of it delivered something new in the pass, or a call that        *)
(* overlaps the pass has marked it.                                        *)
THEOREM CutoffIsTight == Spec => []CutoffPrunes
<1>1. IInv => CutoffPrunes
  BY DEF IInv, RunsExplained, CutoffPrunes, TypeOK
<1> QED
  BY <1>1, Invariance, PTL

(* In a pass no output changes once a consumer has read it.                *)
THEOREM RunsSeeSettledInputs == Spec => NoGlitch
<1> DEFINE Settled ==
      \A n \in Node : phase = "levels" /\ cache'[n] # cache[n] =>
        \A m \in Node : n \in SourcesOf(m) =>
          m \notin ran /\ run[m] \in {"none", "queued", "todo"}
<1>1. IInv /\ [Next]_vars => [Settled]_vars
  <2> SUFFICES ASSUME IInv, Next, NEW n \in Node, phase = "levels", cache'[n] # cache[n],
                      NEW m \in Node, n \in SourcesOf(m)
               PROVE  m \notin ran /\ run[m] = "none"
    OBVIOUS
  <2>1. Active(n)
    <3>1. ~ EditStep
      BY DEF EditStep, AddNode, RemoveNode, Connect, Disconnect, UpdateData, Edit
    <3>2. ~ SharedCall
      BY DEF SharedCall, MarkAllNodesDirty, ReorderInputEdge, ReorderOutputEdge,
             DropPortEdge, SetPortDefault, Shared
    <3>3. ~ Call
      BY DEF Call, ExecuteNothing, ExecuteCyclic, Plan
    <3>4. PassStep
      BY <3>1, <3>2, <3>3 DEF Next
    <3>5. PICK k \in Node : FinishRun(k) \/ FailRun(k)
      BY <3>4 DEF PassStep, Reject, Commit, StartLevel, RecordRuns, EndPass, BeginRun, RunMissing
    <3>6. run[k] = "running" /\ \E v : cache' = [cache EXCEPT ![k] = v]
      BY <3>5 DEF FinishRun, FailRun
    <3>7. k = n
      BY <3>6 DEF IInv, TypeOK
    <3> QED
      BY <3>6, <3>7 DEF Active
  <2>2. m \in pending /\ ~ Active(m)
    BY <2>1, ActiveNode
  <2> QED
    BY <2>2 DEF IInv, PlanClosed, Active
<1> QED
  BY <1>1, Invariance, PTL DEF Spec, NoGlitch

(* A call that answers with an error leaves dirty what was dirty.          *)
THEOREM RejectionKeepsDirty == Spec => ErrorKeepsDirty
<1> DEFINE Kept ==
      outcome' \in {"rejected", "cycle"} /\ outcome' # outcome => seed \cup changed \subseteq changed'
<1>1. IInv /\ [Next]_vars => [Kept]_vars
  <2> SUFFICES ASSUME IInv, Next, outcome' \in {"rejected", "cycle"}, outcome' # outcome
               PROVE  seed \cup changed \subseteq changed'
    OBVIOUS
  <2>1. ExecuteCyclic \/ Reject
    <3>1. ~ EditStep
      BY DEF EditStep, AddNode, RemoveNode, Connect, Disconnect, UpdateData, Edit
    <3>2. ~ SharedCall
      BY DEF SharedCall, MarkAllNodesDirty, ReorderInputEdge, ReorderOutputEdge,
             DropPortEdge, SetPortDefault, Shared
    <3>3. Call => ExecuteCyclic
      BY DEF Call, ExecuteNothing, Plan
    <3>4. PassStep => Reject
      BY DEF PassStep, Commit, StartLevel, RecordRuns, EndPass, BeginRun, RunMissing,
         FinishRun, FailRun
    <3> QED
      BY <3>1, <3>2, <3>3, <3>4 DEF Next
  <2>2. CASE ExecuteCyclic
    BY <2>2 DEF ExecuteCyclic, IInv, PassShape
  <2>3. CASE Reject
    BY <2>3 DEF Reject, IInv, PassShape
  <2> QED
    BY <2>1, <2>2, <2>3
<1> QED
  BY <1>1, Invariance, PTL DEF Spec, ErrorKeepsDirty

-----------------------------------------------------------------------------
(* Executor implements Memo.                                                *)


(* Nothing is removed while it runs.                                        *)
RunningIsLive == \A n \in Node : run[n] = "running" => n \in live

LEMMA RunningStep ==
  ASSUME IInv, RunningIsLive, [Next]_vars
  PROVE  RunningIsLive'
<1>1. CASE EditStep
  BY <1>1 DEF EditStep, AddNode, RemoveNode, Connect, Disconnect, UpdateData, Edit,
              IInv, PassShape, Active, RunningIsLive, work
<1>2. CASE SharedCall
  BY <1>2 DEF SharedCall, MarkAllNodesDirty, ReorderInputEdge, ReorderOutputEdge,
              DropPortEdge, SetPortDefault, Shared, RunningIsLive, work
<1>3. CASE Call
  BY <1>3 DEF Call, ExecuteNothing, ExecuteCyclic, Plan, graph, work, RunningIsLive
<1>4. CASE PassStep
  <2>1. ASSUME NEW k \in Node, BeginRun(k) \/ RunMissing(k) \/ FinishRun(k) \/ FailRun(k)
        PROVE  RunningIsLive'
    <3>1. live' = live /\ \A n \in Node : n # k => run'[n] = run[n]
      BY <2>1 DEF BeginRun, RunMissing, FinishRun, FailRun, graph, IInv, TypeOK
    <3>2. run'[k] = "running" => k \in live
      BY <2>1 DEF BeginRun, RunMissing, FinishRun, FailRun, Verdict, IInv, TypeOK
    <3> QED
      BY <3>1, <3>2 DEF RunningIsLive
  <2>2. CASE Reject \/ Commit \/ StartLevel \/ RecordRuns \/ EndPass
    BY <2>2 DEF Reject, Commit, StartLevel, RecordRuns, EndPass, NoPass, graph, work, RunningIsLive
  <2> QED
    BY <1>4, <2>1, <2>2 DEF PassStep
<1>5. CASE UNCHANGED vars
  BY <1>5 DEF vars, RunningIsLive
<1> QED
  BY <1>1, <1>2, <1>3, <1>4, <1>5 DEF Next

(* Most steps of a pass move a debt from one book to another.               *)
LEMMA SameBooks ==
  ASSUME IInv, UNCHANGED <<graph, cache>>,
         \A n \in live : n \in changed \/ InPass(n) <=> n \in changed' \/ InPass(n)'
  PROVE  UNCHANGED <<live, data, conn, cache, Owed>>
BY DEF graph, Owed

(* So does every step that only runs up debts.                              *)
LEMMA NewDebts ==
  ASSUME IInv, IInv',
         \A n \in Node : cache'[n] # cache[n] => n \notin live',
         \A n \in live' : n \in Owed => n \in Owed',
         \A n \in live' \ Owed' :
            /\ n \in live
            /\ data'[n] = data[n] /\ conn'[n] = conn[n]
            /\ \A m \in SourcesOf(n) : cache'[m] = cache[m]
  PROVE  Promise!Edit
<1>1. /\ live' \subseteq Node /\ cache' \in [Node -> Value \cup {NoValue}]
      /\ Owed' \subseteq live'
  BY DEF IInv, TypeOK, Owed
<1> QED
  BY <1>1 DEF Promise!Edit, Promise!SourcesOf, SourcesOf

LEMMA PromiseEdit ==
  ASSUME IInv, IInv', EditStep
  PROVE  Promise!Edit
<1>1. phase = "idle" /\ phase' = "idle"
  BY DEF EditStep, AddNode, RemoveNode, Connect, Disconnect, UpdateData, Edit
<1>2. Owed = live \cap changed /\ Owed' = live' \cap changed'
  BY <1>1 DEF Owed, InPass
<1>3. TypeOK
  BY DEF IInv
<1>4. ASSUME NEW n \in Node, AddNode(n)
      PROVE  Promise!Edit
  BY <1>2, <1>3, <1>4, NewDebts DEF AddNode
<1>5. ASSUME NEW n \in Node, RemoveNode(n)
      PROVE  Promise!Edit
  <2>1. \A m \in Node : cache'[m] # cache[m] => m \notin live'
    BY <1>3, <1>5 DEF RemoveNode, TypeOK
  <2>2. \A m \in live' \ Owed' : n \notin SourcesOf(m) /\ m \in live /\ m # n
    BY <1>2, <1>3, <1>5 DEF RemoveNode, TypeOK
  <2>3. \A m \in live' \ Owed' : conn'[m] = conn[m] /\ data'[m] = data[m]
    <3> SUFFICES ASSUME NEW m \in live' \ Owed'
                 PROVE  conn'[m] = conn[m] /\ data'[m] = data[m]
      OBVIOUS
    <3>1. m \in Node /\ m # n /\ n \notin SourcesOf(m)
      BY <1>3, <2>2 DEF TypeOK
    <3>2. {i \in DOMAIN conn[m] : conn[m][i] # n} = DOMAIN conn[m]
      BY <3>1 DEF SourcesOf
    <3>3. Retain(conn[m], DOMAIN conn[m]) = conn[m]
      BY <1>3, <3>1, RetainAll DEF TypeOK
    <3>4. conn'[m] = Retain(conn[m], {i \in DOMAIN conn[m] : conn[m][i] # n})
      BY <1>5, <3>1 DEF RemoveNode
    <3>5. data'[m] = data[m]
      BY <1>3, <1>5, <3>1 DEF RemoveNode, TypeOK
    <3> QED
      BY <3>2, <3>3, <3>4, <3>5
  <2>4. \A m \in live' \ Owed' : \A k \in SourcesOf(m) : cache'[k] = cache[k]
    <3>1. \A k \in Node : k # n => cache'[k] = cache[k]
      BY <1>3, <1>5 DEF RemoveNode, TypeOK
    <3>2. \A m \in Node : SourcesOf(m) \subseteq Node
      BY <1>3 DEF TypeOK, SourcesOf
    <3> QED
      BY <2>2, <3>1, <3>2, <1>3 DEF TypeOK
  <2>5. \A m \in live' : m \in Owed => m \in Owed'
    BY <1>2, <1>5 DEF RemoveNode
  <2> QED
    BY <2>1, <2>2, <2>3, <2>4, <2>5, NewDebts
<1>6. ASSUME NEW m \in Node, NEW n \in Node, Connect(m, n)
      PROVE  Promise!Edit
  BY <1>2, <1>3, <1>6, NewDebts DEF Connect, TypeOK
<1>7. ASSUME NEW n \in Node, NEW i \in DOMAIN conn[n], Disconnect(n, i)
      PROVE  Promise!Edit
  BY <1>2, <1>3, <1>7, NewDebts DEF Disconnect, TypeOK
<1>8. ASSUME NEW n \in Node, NEW d \in Data, UpdateData(n, d)
      PROVE  Promise!Edit
  BY <1>2, <1>3, <1>8, NewDebts DEF UpdateData, TypeOK
<1> QED
  BY <1>4, <1>5, <1>6, <1>7, <1>8, NodeAssumption DEF EditStep

LEMMA PromiseShared ==
  ASSUME IInv, IInv', SharedCall
  PROVE  Promise!Edit
<1>1. TypeOK /\ Shared /\ changed \subseteq changed'
  BY DEF IInv, SharedCall, MarkAllNodesDirty, ReorderInputEdge, ReorderOutputEdge,
         DropPortEdge, SetPortDefault
<1>2. \A n \in Node \ changed' : conn'[n] = conn[n] /\ data'[n] = data[n]
  BY <1>1 DEF SharedCall, MarkAllNodesDirty, ReorderInputEdge, ReorderOutputEdge,
              DropPortEdge, SetPortDefault, TypeOK
<1>3. \A n \in Node \ changed' : SourcesOf(n)' = SourcesOf(n)
  BY <1>2 DEF SourcesOf
<1>4. \A n \in live : n \in Owed => n \in Owed'
  BY <1>1, <1>3 DEF Owed, InPass, Arriving, RunMoved, Shared, plan, work, TypeOK
<1>5. \A n \in live \ Owed' : n \in Node \ changed'
  BY <1>1 DEF Owed, Shared, TypeOK
<1> QED
  BY <1>1, <1>2, <1>4, <1>5, NewDebts DEF Shared

LEMMA PromisePass ==
  ASSUME IInv, IInv',
         Call \/ Reject \/ Commit \/ StartLevel \/ RecordRuns \/ EndPass
              \/ \E n \in Node : BeginRun(n)
  PROVE  UNCHANGED <<live, data, conn, cache, Owed>>
<1>1. CASE Call
  <2>1. phase = "idle" /\ phase' # "levels" /\ changed' = changed /\ UNCHANGED <<graph, cache>>
    BY <1>1 DEF Call, ExecuteNothing, ExecuteCyclic, Plan
  <2> QED
    BY <2>1, SameBooks DEF InPass
<1>2. CASE Reject
  BY <1>2, SameBooks DEF Reject, NoPass, InPass
<1>3. CASE Commit
  <2>1. /\ phase = "planned" /\ phase' = "levels" /\ changed' = {}
        /\ frontier = {} /\ failed = {} /\ changed = seed /\ seed \subseteq pending
        /\ \A n \in Node : run[n] = "none"
        /\ UNCHANGED <<graph, cache, seed, pending, run, frontier, failed>>
    BY <1>3 DEF Commit, IInv, PassShape, Active, plan, work
  <2>2. RunMoved' = {}
    BY <2>1 DEF RunMoved
  <2>3. \A n \in live : InPass(n)' <=> n \in seed
    BY <2>1, <2>2 DEF InPass, Arriving, IInv, TypeOK
  <2> QED
    BY <2>1, <2>3, SameBooks DEF InPass
<1>4. CASE StartLevel
  <2>1. /\ phase = "levels" /\ phase' = "levels"
        /\ \A n \in Node : run[n] = "none"
        /\ UNCHANGED <<graph, cache, changed, seed, frontier, failed>>
    BY <1>4 DEF StartLevel, LevelOpen, plan
  <2>2. /\ pending' = pending \ NextLevel
        /\ \A n \in Node : run'[n] \in {"none", "queued", "todo"}
        /\ \A n \in Node : run'[n] # "none" <=> n \in NextLevel /\ MustExecute(n)
    BY <1>4 DEF StartLevel
  <2>3. RunMoved = {} /\ RunMoved' = {} /\ \A n \in Node : SourcesOf(n)' = SourcesOf(n)
    BY <2>1, <2>2, SourcesFrame DEF RunMoved, IInv
  <2>4. ASSUME NEW n \in live
        PROVE  n \in changed \/ InPass(n) <=> n \in changed' \/ InPass(n)'
    <3>1. n \in Node
      BY DEF IInv, TypeOK
    <3>6. CASE n \in changed
      BY <2>1, <3>6
    <3> SUFFICES ASSUME n \notin changed
                 PROVE  InPass(n) <=> InPass(n)'
      BY <2>1, <3>6
    <3>2. InPass(n) <=> n \in failed \/ (n \in pending /\ MustExecute(n))
      BY <2>1, <2>3, <3>1 DEF InPass, Arriving, MustExecute, IInv, RunsExplained
    <3>3. InPass(n)' <=>
            n \in failed \/ (n \in NextLevel /\ MustExecute(n))
                         \/ (n \in pending \ NextLevel /\ (n \in seed \/ SourcesOf(n) \cap frontier # {}))
      BY <2>1, <2>2, <2>3, <3>1 DEF InPass, Arriving
    <3>4. n \in pending => (MustExecute(n) <=> n \in seed \/ SourcesOf(n) \cap frontier # {})
      BY <3>1 DEF MustExecute, IInv, RunsExplained
    <3>5. NextLevel \subseteq pending
      BY DEF NextLevel
    <3> QED
      BY <3>2, <3>3, <3>4, <3>5
  <2> QED
    BY <2>1, <2>4, SameBooks
<1>5. CASE RecordRuns
  <2>1. /\ frontier' = frontier \cup RunMoved /\ failed' = failed \cup RunFailed
        /\ UNCHANGED <<graph, cache, changed, phase, seed, pending>>
        /\ \A n \in Node : run[n] \notin {"todo", "running"}
        /\ \A n \in Node : run'[n] = IF run[n] = "queued" THEN "todo" ELSE "none"
    BY <1>5 DEF RecordRuns, plan
  <2>2. RunMoved' = {} /\ \A n \in Node : SourcesOf(n)' = SourcesOf(n)
    BY <2>1, SourcesFrame DEF RunMoved, IInv
  <2>3. ASSUME NEW n \in live
        PROVE  InPass(n) <=> InPass(n)'
    <3>1. n \in Node
      BY DEF IInv, TypeOK
    <3>2. Arriving(n) <=> Arriving(n)'
      BY <2>1, <2>2, <3>1 DEF Arriving
    <3>3. (run[n] \in {"queued", "todo", "running", "failed"} \/ n \in failed)
            <=> (run'[n] \in {"queued", "todo", "running", "failed"} \/ n \in failed')
      BY <2>1, <3>1 DEF RunFailed
    <3> QED
      BY <2>1, <3>2, <3>3 DEF InPass
  <2> QED
    BY <2>1, <2>3, SameBooks
<1>6. CASE EndPass
  <2>1. /\ phase = "levels" /\ pending = {} /\ phase' = "idle"
        /\ \A n \in Node : run[n] = "none"
        /\ changed' = changed \cup failed
        /\ UNCHANGED <<graph, cache>>
    BY <1>6 DEF EndPass, LevelOpen, NoPass
  <2>2. \A n \in live : (InPass(n) <=> n \in failed) /\ ~ InPass(n)'
    BY <2>1 DEF InPass, Arriving, IInv, TypeOK
  <2> QED
    BY <2>1, <2>2, SameBooks
<1>7. ASSUME NEW k \in Node, BeginRun(k)
      PROVE  UNCHANGED <<live, data, conn, cache, Owed>>
  <2>1. /\ run[k] = "todo" /\ run' = [run EXCEPT ![k] = "running"]
        /\ UNCHANGED <<graph, cache, changed, phase, seed, pending, frontier, failed>>
    BY <1>7 DEF BeginRun, plan
  <2>2. /\ RunMoved' = RunMoved
        /\ \A n \in Node : run[n] \in {"queued", "todo", "running", "failed"}
                             <=> run'[n] \in {"queued", "todo", "running", "failed"}
    BY <2>1 DEF RunMoved, IInv, TypeOK
  <2>3. \A n \in Node : SourcesOf(n)' = SourcesOf(n)
    BY <2>1, SourcesFrame DEF IInv
  <2>4. \A n \in live : InPass(n) <=> InPass(n)'
    BY <2>1, <2>2, <2>3 DEF InPass, Arriving, IInv, TypeOK
  <2> QED
    BY <2>1, <2>4, SameBooks
<1> QED
  BY <1>1, <1>2, <1>3, <1>4, <1>5, <1>6, <1>7

(* A run of a path without a node only wakes those who read from it.        *)
LEMMA PromiseMissing ==
  ASSUME IInv, IInv', NEW k \in Node, RunMissing(k)
  PROVE  Promise!Edit
<1>1. /\ run[k] = "todo" /\ k \notin live /\ run' = [run EXCEPT ![k] = "moved"]
      /\ UNCHANGED <<graph, cache, changed, phase, seed, pending, frontier, failed>>
  BY DEF RunMissing, plan
<1>2. /\ RunMoved \subseteq RunMoved'
      /\ \A n \in Node : n # k => run'[n] = run[n]
  BY <1>1 DEF RunMoved, IInv, TypeOK
<1>3. \A n \in Node : SourcesOf(n)' = SourcesOf(n)
  BY <1>1, SourcesFrame DEF IInv
<1>4. \A n \in live : n \in Owed => n \in Owed'
  BY <1>1, <1>2, <1>3 DEF Owed, InPass, Arriving, IInv, TypeOK, graph
<1> QED
  BY <1>1, <1>4, NewDebts DEF graph, Owed

(* A run that ends.                                                         *)
LEMMA PromiseRun ==
  ASSUME IInv, IInv', RunningIsLive, NEW k \in Node, FinishRun(k) \/ FailRun(k)
  PROVE  Promise!Run(k)
<1>1. /\ run[k] = "running" /\ TypeOK /\ TypeOK'
      /\ UNCHANGED <<graph, changed, phase, seed, pending, frontier, failed>>
  BY DEF FinishRun, FailRun, plan, IInv
<1>2. PICK v : cache' = [cache EXCEPT ![k] = v]
  BY DEF FinishRun, FailRun
<1>3. v \in Value \cup {NoValue}
  BY <1>1, <1>2 DEF TypeOK
<1>4. PICK s \in {"same", "moved", "failed"} :
        /\ run' = [run EXCEPT ![k] = s]
        /\ s = "same" => cache'[k] = cache[k]
        /\ s = "failed" => FailRun(k)
  BY <1>1 DEF FinishRun, FailRun, Verdict, TypeOK
<1>5. /\ phase = "levels" /\ k \notin pending /\ k \notin SourcesOf(k)
      /\ \A m \in Node : k \in SourcesOf(m) => m \in pending
  BY <1>1, ActiveNode DEF Active
<1>6. \A n \in Node : SourcesOf(n)' = SourcesOf(n)
  BY <1>1, SourcesFrame
<1>7. /\ RunMoved \subseteq RunMoved' /\ RunMoved' \subseteq RunMoved \cup {k}
      /\ cache'[k] # cache[k] => k \in RunMoved'
      /\ \A n \in Node : n # k => run'[n] = run[n]
  BY <1>1, <1>4 DEF RunMoved, TypeOK
<1>8. k \in live
  BY <1>1 DEF RunningIsLive
<1>9. k \in Owed
  BY <1>1, <1>5, <1>8 DEF Owed, InPass
<1>10. \A n \in Owed : n # k => n \in Owed'
  BY <1>1, <1>6, <1>7 DEF Owed, InPass, Arriving, graph, TypeOK
<1>11. \A m \in live : k \in SourcesOf(m) /\ cache'[k] # cache[k] => m \in Owed'
  BY <1>1, <1>5, <1>6, <1>7 DEF Owed, InPass, Arriving, graph, TypeOK
<1>12. k \in Owed' \/ Fresh(k)'
  BY <1>1, <1>8 DEF IInv, StaleCovered, Owed, graph
<1>13. k \in Owed' \/ Promise!Fresh(k)'
  BY <1>12 DEF Fresh, InputValues, Produced, Promise!Fresh, Promise!Delivered
<1>14. Owed' \subseteq live
  BY <1>1 DEF Owed, graph
<1>15. \E w \in Value \cup {NoValue} : cache' = [cache EXCEPT ![k] = w]
  BY <1>2, <1>3
<1>16. \A m \in live : k \in Promise!SourcesOf(m) /\ cache'[k] # cache[k] => m \in Owed'
  BY <1>11 DEF Promise!SourcesOf, SourcesOf
<1>17. UNCHANGED <<live, data, conn>>
  BY <1>1 DEF graph
<1> QED
  BY <1>9, <1>10, <1>13, <1>14, <1>15, <1>16, <1>17 DEF Promise!Run

LEMMA PromiseStep ==
  ASSUME IInv, IInv', RunningIsLive, [Next]_vars
  PROVE  [Promise!Next]_(Promise!memo)
<1>1. CASE EditStep \/ SharedCall
  BY <1>1, PromiseEdit, PromiseShared DEF Promise!Next
<1>2. CASE Call
  BY <1>2, PromisePass DEF Promise!memo
<1>3. CASE PassStep
  <2>1. CASE \E n \in Node : FinishRun(n) \/ FailRun(n)
    BY <2>1, PromiseRun DEF Promise!Next
  <2>2. CASE \E n \in Node : RunMissing(n)
    BY <2>2, PromiseMissing DEF Promise!Next
  <2>3. CASE \/ Reject \/ Commit \/ StartLevel \/ RecordRuns \/ EndPass
             \/ \E n \in Node : BeginRun(n)
    BY <2>3, PromisePass DEF Promise!memo
  <2> QED
    BY <1>3, <2>1, <2>2, <2>3 DEF PassStep
<1>4. CASE UNCHANGED vars
  BY <1>4 DEF vars, Promise!memo, Owed, InPass, Arriving, RunMoved, SourcesOf
<1> QED
  BY <1>1, <1>2, <1>3, <1>4 DEF Next

(* The executor keeps the promise of Memo: whatever the graph, the cutoff   *)
(* choices, the failures and the calls that overlap a pass, a node's debt   *)
(* leaves the books only with a run of it that leaves it up to date, or     *)
(* with the node.                                                           *)
THEOREM ImplementsMemo == Spec => KeepsPromise
<1>1. Init => Promise!Init /\ RunningIsLive
  BY DEF Init, Promise!Init, Owed, RunningIsLive
<1>2. IInv /\ IInv' /\ RunningIsLive /\ [Next]_vars
        => RunningIsLive' /\ [Promise!Next]_(Promise!memo)
  BY RunningStep, PromiseStep
<1> QED
  BY <1>1, <1>2, Invariance, PTL DEF Spec, KeepsPromise, Promise!Spec
=============================================================================
