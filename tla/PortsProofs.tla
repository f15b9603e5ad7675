---------------------------- MODULE PortsProofs ----------------------------
(* Proofs about Ports, for any number of callers, nodes, labels and ports.  *)
EXTENDS Ports, WellFoundedInduction, TLAPS

-----------------------------------------------------------------------------
(* Types.                                                                   *)

AddCalls    == [step : {"add"}, node : Node, label : Label, lock : BOOLEAN, read : SUBSET Label]
ReadCalls   == [step : {"read"}, node : Node, label : Label]
WriteCalls  == [step : {"write"}, node : Node, label : Label, read : SUBSET Label]
FindCalls   == [step : {"find"}, node : Node, label : Label, new : Label]
ChangeCalls == [step : {"remove", "rename"}, node : Node, label : Label, new : Label,
                at : Nat, overtaken : BOOLEAN]
CallRecords ==
  {Idle} \cup AddCalls \cup ReadCalls \cup WriteCalls \cup FindCalls \cup ChangeCalls

TablesTyped ==
  /\ table = [n \in Node |-> [t \in Tables(n) |-> table[n][t]]]
  /\ \A n \in Node : \A t \in Tables(n) : table[n][t] \in Seq(Label)

PortsTyped ==
  /\ TablesTyped
  /\ locked \in [Node -> SUBSET Label]
  /\ call \in [Caller -> CallRecords]

-----------------------------------------------------------------------------
(* Sequences.                                                               *)

(* A smallest position is a position.                                       *)
LEMMA SmallestIsThere ==
  ASSUME NEW I \in SUBSET Nat, I # {}
  PROVE  Min(I) \in I
<1> DEFINE R == OpToRel(<, Nat)
<1>1. \A i, j \in Nat : <<j, i>> \in R <=> j < i
  BY DEF OpToRel
<1>2. IsWellFoundedOn(R, Nat)
  BY NatLessThanWellFounded
<1>3. \E i \in I : \A j \in I : ~ (<<j, i>> \in R)
  <2> HIDE DEF R
  <2> QED
    BY <1>2, WFMin
<1>4. \E i \in I : \A j \in I : i <= j
  <2> HIDE DEF R
  <2>1. PICK i \in I : \A j \in I : ~ (<<j, i>> \in R)
    BY <1>3
  <2>2. \A j \in I : j \in Nat /\ i \in Nat /\ ~ (j < i)
    BY <1>1, <2>1
  <2>3. \A j \in I : i <= j
    BY <2>2
  <2> QED
    BY <2>3
<1>5. Min(I) = CHOOSE i \in I : \A j \in I : i <= j
  BY DEF Min
<1> HIDE DEF R
<1> QED
  BY <1>4, <1>5, Zenon

(* The index by label is 0, or that of a slot with the label.               *)
LEMMA FirstAtHits ==
  ASSUME PortsTyped, NEW n \in Node, NEW l
  PROVE  LET at == FirstAt(n, l)
         IN  at \in Nat /\ (at # 0 => at \in 1..Count(n) /\ table[n]["in"][at] = l)
<1> DEFINE I == {i \in 1..Len(table[n]["in"]) : table[n]["in"][i] = l}
<1>1. table[n]["in"] \in Seq(Label)
  BY DEF PortsTyped, TablesTyped, Tables
<1>2. FirstAt(n, l) = IF I # {} THEN Min(I) ELSE 0
  BY DEF FirstAt, SelectInSeq
<1>3. CASE I = {}
  BY <1>2, <1>3
<1>4. CASE I # {}
  <2>1. I \in SUBSET Nat
    BY <1>1
  <2>2. Min(I) \in I
    BY <1>4, <2>1, SmallestIsThere
  <2> QED
    BY <1>1, <1>2, <1>4, <2>2 DEF Count
<1> QED
  BY <1>3, <1>4

LEMMA AppendKeeps ==
  ASSUME NEW q \in Seq(Label), NEW l \in Label
  PROVE  /\ Append(q, l) \in Seq(Label)
         /\ Len(Append(q, l)) \in Nat /\ Len(Append(q, l)) >= Len(q)
         /\ \A i \in 1..Len(q) : Append(q, l)[i] = q[i]
OBVIOUS

LEMMA InsertAtType ==
  ASSUME NEW q \in Seq(Label), NEW i \in 1..Len(q) + 1, NEW l \in Label
  PROVE  InsertAt(q, i, l) \in Seq(Label)
BY DEF InsertAt

LEMMA RemoveAtType ==
  ASSUME NEW q \in Seq(Label), NEW i \in 1..Len(q)
  PROVE  RemoveAt(q, i) \in Seq(Label)
BY DEF RemoveAt

LEMMA RelabelType ==
  ASSUME NEW q \in Seq(Label), NEW i \in Nat, NEW l \in Label
  PROVE  Relabel(q, i, l) \in Seq(Label)
<1>1. CASE i \in DOMAIN q
  <2>1. [q EXCEPT ![i] = l] \in [1..Len(q) -> Label]
    BY <1>1
  <2> QED
    BY <1>1, <2>1 DEF Relabel
<1>2. CASE i \notin DOMAIN q
  BY <1>2 DEF Relabel
<1> QED
  BY <1>1, <1>2

-----------------------------------------------------------------------------
(* The inductive invariant.                                                 *)

PortsInv ==
  /\ PortsTyped
  /\ LabelsMirror
  /\ CallsHitTheirPort

(* A call is of the kind its step says.                                     *)
LEMMA KindOfCall ==
  ASSUME PortsTyped, NEW c \in Caller
  PROVE  /\ call[c] \in CallRecords
         /\ call[c].step = "add" => call[c] \in AddCalls
         /\ call[c].step = "read" => call[c] \in ReadCalls
         /\ call[c].step = "write" => call[c] \in WriteCalls
         /\ call[c].step = "find" => call[c] \in FindCalls
         /\ call[c].step \in {"remove", "rename"} => call[c] \in ChangeCalls
         /\ call[c].step = "idle" => call[c] = Idle
<1>1. call[c] \in CallRecords
  BY DEF PortsTyped
<1>2. /\ Idle.step = "idle"
      /\ \A x \in AddCalls : x.step = "add"
      /\ \A x \in ReadCalls : x.step = "read"
      /\ \A x \in WriteCalls : x.step = "write"
      /\ \A x \in FindCalls : x.step = "find"
      /\ \A x \in ChangeCalls : x.step \in {"remove", "rename"}
  BY DEF Idle, AddCalls, ReadCalls, WriteCalls, FindCalls, ChangeCalls
<1> QED
  BY <1>1, <1>2 DEF CallRecords

(* What a write to the tables of one node leaves.                           *)
LEMMA TablesAfter ==
  ASSUME TablesTyped, NEW n \in Node, NEW f \in [Tables(n) -> Seq(Label)],
         table' = [table EXCEPT ![n] = f]
  PROVE  /\ TablesTyped'
         /\ \A m \in Node : \A t \in Tables(m) :
              table'[m][t] = IF m = n THEN f[t] ELSE table[m][t]
<1>1. table' = [m \in Node |-> IF m = n THEN f ELSE table[m]]
  BY DEF TablesTyped
<1>2. \A m \in Node : table[m] = [t \in Tables(m) |-> table[m][t]]
  BY DEF TablesTyped
<1>3. \A m \in Node : table'[m] = [t \in Tables(m) |-> table'[m][t]]
  BY <1>1, <1>2
<1>4. table' = [m \in Node |-> table'[m]]
  BY <1>1
<1>5. \A m \in Node : \A t \in Tables(m) :
        table'[m][t] = IF m = n THEN f[t] ELSE table[m][t]
  BY <1>1
<1>6. \A m \in Node : \A t \in Tables(m) : table'[m][t] \in Seq(Label)
  BY <1>5 DEF TablesTyped
<1>7. table' = [m \in Node |-> [t \in Tables(m) |-> table'[m][t]]]
  BY <1>3, <1>4
<1> QED
  BY <1>5, <1>6, <1>7 DEF TablesTyped, Tables

(* Mirrored labels stay so when every table of a node changes alike.        *)
LEMMA MirrorAfter ==
  ASSUME TablesTyped, LabelsMirror,
         NEW n \in Node, NEW f \in [Tables(n) -> Seq(Label)],
         \A s, t \in Tables(n) : f[s] = f[t],
         table' = [table EXCEPT ![n] = f]
  PROVE  LabelsMirror'
<1>1. \A m \in Node : \A t \in Tables(m) :
        table'[m][t] = IF m = n THEN f[t] ELSE table[m][t]
  BY TablesAfter
<1> QED
  BY <1>1 DEF LabelsMirror, Tables

(* The calls of the others when one goes on, or overtakes them.             *)
LEMMA OthersAfter ==
  ASSUME PortsTyped, NEW c \in Caller, NEW n \in Node, NEW next \in CallRecords,
         Go(c, next) \/ Overtake(c, n, next)
  PROVE  /\ call' \in [Caller -> CallRecords]
         /\ call'[c] = next
         /\ \A d \in Caller \ {c} :
              \/ call'[d] = call[d]
              \/ /\ call[d].step \in {"remove", "rename"}
                 /\ call'[d].step = call[d].step
                 /\ call'[d].overtaken
<1>1. CASE Go(c, next)
  BY <1>1 DEF Go, PortsTyped
<1>2. CASE Overtake(c, n, next)
  <2>1. \A d \in Caller : call[d].step \in {"remove", "rename"} =>
          /\ [call[d] EXCEPT !.overtaken = TRUE] \in ChangeCalls
          /\ [call[d] EXCEPT !.overtaken = TRUE].step = call[d].step
          /\ [call[d] EXCEPT !.overtaken = TRUE].overtaken
    BY KindOfCall DEF ChangeCalls
  <2>2. \A d \in Caller :
          call'[d] = IF d = c THEN next
                     ELSE IF call[d].step \in {"remove", "rename"} /\ call[d].node = n
                          THEN [call[d] EXCEPT !.overtaken = TRUE] ELSE call[d]
    BY <1>2 DEF Overtake
  <2>3. \A d \in Caller : call[d] \in CallRecords
    BY DEF PortsTyped
  <2>4. \A d \in Caller : call'[d] \in CallRecords
    BY <2>1, <2>2, <2>3 DEF CallRecords
  <2>5. call' \in [Caller -> CallRecords]
    BY <1>2, <2>4 DEF Overtake
  <2> QED
    BY <2>1, <2>2, <2>5
<1> QED
  BY <1>1, <1>2

-----------------------------------------------------------------------------
(* What a step of one caller leaves of the invariant.                       *)

OthersOf(c) ==
  \A d \in Caller \ {c} :
    \/ call'[d] = call[d]
    \/ /\ call[d].step \in {"remove", "rename"}
       /\ call'[d].step = call[d].step
       /\ call'[d].overtaken

(* A write that moves ports overtakes whoever has an index into the node.   *)
LEMMA HitsAfterOvertaking ==
  ASSUME PortsTyped, CallsHitTheirPort, NEW c \in Caller, NEW n \in Node,
         NEW next \in CallRecords, Overtake(c, n, next), next.step \notin {"remove", "rename"},
         \A m \in Node \ {n} : \A t \in Tables(m) : table'[m][t] = table[m][t]
  PROVE  CallsHitTheirPort'
<1> SUFFICES ASSUME NEW d \in Caller,
                    call'[d].step \in {"remove", "rename"}, ~ call'[d].overtaken
             PROVE  /\ call'[d].at \in 1..Len(table'[call'[d].node]["in"])
                    /\ \A t \in Tables(call'[d].node) :
                         table'[call'[d].node][t][call'[d].at] = call'[d].label
  BY DEF CallsHitTheirPort, Tables, Count
<1>1. OthersOf(c) /\ call'[c] = next
  BY OthersAfter DEF OthersOf
<1>2. d # c
  BY <1>1
<1>3. call'[d] = call[d]
  BY <1>1, <1>2 DEF OthersOf
<1>4. call[d].node # n
  <2>1. call[d].node = n => call'[d] = [call[d] EXCEPT !.overtaken = TRUE]
    BY <1>2, <1>3 DEF Overtake
  <2>2. [call[d] EXCEPT !.overtaken = TRUE].overtaken = TRUE
    BY <1>3, KindOfCall DEF ChangeCalls
  <2> QED
    BY <2>1, <2>2
<1>5. call[d] \in ChangeCalls
  BY <1>3, KindOfCall
<1>6. call[d].node \in Node
  BY <1>5 DEF ChangeCalls
<1>7. \A t \in Tables(call[d].node) : table'[call[d].node][t] = table[call[d].node][t]
  BY <1>4, <1>6
<1>8. "in" \in Tables(call[d].node)
  BY DEF Tables
<1>9. /\ call[d].at \in 1..Len(table[call[d].node]["in"])
      /\ \A t \in Tables(call[d].node) : table[call[d].node][t][call[d].at] = call[d].label
  BY <1>3 DEF CallsHitTheirPort, Count
<1> QED
  BY <1>3, <1>7, <1>8, <1>9

(* A call that only appends to tables, or leaves them, moves no port.       *)
LEMMA HitsAfterAppending ==
  ASSUME PortsTyped, LabelsMirror, CallsHitTheirPort, NEW c \in Caller, NEW next, Go(c, next),
         \A m \in Node : \A t \in Tables(m) :
           /\ Len(table'[m][t]) \in Nat /\ Len(table'[m][t]) >= Len(table[m][t])
           /\ \A i \in 1..Len(table[m][t]) : table'[m][t][i] = table[m][t][i],
         next.step \in {"remove", "rename"} =>
           /\ next.node \in Node
           /\ next.at \in 1..Count(next.node)
           /\ \A t \in Tables(next.node) : table[next.node][t][next.at] = next.label
  PROVE  CallsHitTheirPort'
<1> SUFFICES ASSUME NEW d \in Caller,
                    call'[d].step \in {"remove", "rename"}, ~ call'[d].overtaken
             PROVE  /\ call'[d].at \in 1..Len(table'[call'[d].node]["in"])
                    /\ \A t \in Tables(call'[d].node) :
                         table'[call'[d].node][t][call'[d].at] = call'[d].label
  BY DEF CallsHitTheirPort, Tables, Count
<1>1. call'[d] = IF d = c THEN next ELSE call[d]
  BY DEF Go, PortsTyped
<1> DEFINE x == call'[d]
<1>2. /\ x.node \in Node
      /\ x.at \in 1..Count(x.node)
      /\ \A t \in Tables(x.node) : table[x.node][t][x.at] = x.label
  <2>1. CASE d = c
    BY <1>1, <2>1
  <2>2. CASE d # c
    <3>1. x \in ChangeCalls
      BY <1>1, <2>2, KindOfCall
    <3> QED
      BY <1>1, <2>2, <3>1 DEF CallsHitTheirPort, ChangeCalls
  <2> QED
    BY <2>1, <2>2
<1> HIDE DEF x
<1>3. \A t \in Tables(x.node) : Len(table[x.node][t]) = Count(x.node)
                                /\ table[x.node][t] \in Seq(Label)
  BY <1>2 DEF LabelsMirror, Count, Tables, PortsTyped, TablesTyped
<1>4. \A t \in Tables(x.node) : /\ Len(table'[x.node][t]) \in Nat
                                /\ Len(table'[x.node][t]) >= Count(x.node)
                                /\ table'[x.node][t][x.at] = x.label
  BY <1>2, <1>3
<1>5. "in" \in Tables(x.node) /\ Count(x.node) \in Nat
  BY <1>3 DEF Tables
<1>6. x.at \in 1..Len(table'[x.node]["in"])
  BY <1>2, <1>4, <1>5
<1> QED
  BY <1>2, <1>4, <1>6 DEF x

LEMMA TablesKept ==
  ASSUME PortsTyped, LabelsMirror, table' = table
  PROVE  /\ TablesTyped' /\ LabelsMirror'
         /\ \A m \in Node : \A t \in Tables(m) :
              /\ Len(table'[m][t]) \in Nat /\ Len(table'[m][t]) >= Len(table[m][t])
              /\ \A i \in 1..Len(table[m][t]) : table'[m][t][i] = table[m][t][i]
<1>1. \A m \in Node : \A t \in Tables(m) : Len(table[m][t]) \in Nat
  BY DEF PortsTyped, TablesTyped
<1>2. TablesTyped'
  BY DEF PortsTyped, TablesTyped, Tables
<1>3. LabelsMirror'
  BY DEF LabelsMirror, Tables
<1> QED
  BY <1>1, <1>2, <1>3

(* Appending one label to every table of a node.                            *)
LEMMA TablesAppended ==
  ASSUME PortsTyped, LabelsMirror, NEW n \in Node, NEW l \in Label,
         table' = [table EXCEPT ![n] = [t \in Tables(n) |-> Append(table[n][t], l)]]
  PROVE  /\ TablesTyped' /\ LabelsMirror'
         /\ \A m \in Node : \A t \in Tables(m) :
              /\ Len(table'[m][t]) \in Nat /\ Len(table'[m][t]) >= Len(table[m][t])
              /\ \A i \in 1..Len(table[m][t]) : table'[m][t][i] = table[m][t][i]
<1> DEFINE f == [t \in Tables(n) |-> Append(table[n][t], l)]
<1>1. \A m \in Node : \A t \in Tables(m) : table[m][t] \in Seq(Label)
  BY DEF PortsTyped, TablesTyped
<1>2. f \in [Tables(n) -> Seq(Label)]
  BY <1>1, AppendKeeps
<1>3. table' = [table EXCEPT ![n] = f]
  OBVIOUS
<1>4. \A s, t \in Tables(n) : f[s] = f[t]
  BY DEF LabelsMirror
<1>5. \A t \in Tables(n) : f[t] = Append(table[n][t], l)
  OBVIOUS
<1> HIDE DEF f
<1>6. TablesTyped' /\ LabelsMirror'
  BY <1>2, <1>3, <1>4, TablesAfter, MirrorAfter DEF PortsTyped
<1>7. \A m \in Node : \A t \in Tables(m) :
        table'[m][t] = IF m = n THEN f[t] ELSE table[m][t]
  BY <1>2, <1>3, TablesAfter DEF PortsTyped
<1>8. \A m \in Node : \A t \in Tables(m) :
        \/ table'[m][t] = Append(table[m][t], l)
        \/ table'[m][t] = table[m][t]
  BY <1>5, <1>7
<1>9. \A m \in Node : \A t \in Tables(m) :
        /\ Len(table'[m][t]) \in Nat /\ Len(table'[m][t]) >= Len(table[m][t])
        /\ \A i \in 1..Len(table[m][t]) : table'[m][t][i] = table[m][t][i]
  <2> SUFFICES ASSUME NEW m \in Node, NEW t \in Tables(m)
               PROVE  /\ Len(table'[m][t]) \in Nat /\ Len(table'[m][t]) >= Len(table[m][t])
                      /\ \A i \in 1..Len(table[m][t]) : table'[m][t][i] = table[m][t][i]
    OBVIOUS
  <2>1. table[m][t] \in Seq(Label)
    BY <1>1
  <2>2. CASE table'[m][t] = table[m][t]
    <3>1. Len(table[m][t]) \in Nat
      BY <2>1
    <3> QED
      BY <2>2, <3>1
  <2>3. CASE table'[m][t] = Append(table[m][t], l)
    BY <2>1, <2>3, AppendKeeps
  <2> QED
    BY <1>8, <2>2, <2>3
<1> QED
  BY <1>6, <1>9

-----------------------------------------------------------------------------
(* Every step keeps the invariant.                                          *)

LEMMA AfterwardsTyped ==
  ASSUME NEW n \in Node, NEW l \in Label, NEW lock \in BOOLEAN
  PROVE  Afterwards(n, l, lock) \in CallRecords
BY DEF Afterwards, CallRecords, ReadCalls

LEMMA AddPortKeeps ==
  ASSUME PortsInv, NEW c \in Caller, NEW n \in Node, NEW l \in Label, NEW lock \in BOOLEAN,
         AddPort(c, n, l, lock)
  PROVE  PortsInv'
<1> DEFINE next == Afterwards(n, l, lock)
<1>1. next \in CallRecords
  BY AfterwardsTyped
<1>2. next.step \in {"read", "idle"} /\ (next.step = "read" => lock /\ next.node = n)
  BY DEF Afterwards, Idle
<1> HIDE DEF next
<1>3. Go(c, next) /\ locked' = locked
  BY DEF AddPort, next
<1>4. OthersOf(c) /\ call'[c] = next /\ call' \in [Caller -> CallRecords]
  BY <1>1, <1>3, OthersAfter DEF OthersOf, PortsInv
<1>5. /\ TablesTyped' /\ LabelsMirror'
      /\ \A m \in Node : \A t \in Tables(m) :
           /\ Len(table'[m][t]) \in Nat /\ Len(table'[m][t]) >= Len(table[m][t])
           /\ \A i \in 1..Len(table[m][t]) : table'[m][t][i] = table[m][t][i]
  <2>1. table' = [table EXCEPT ![n] = [t \in Tables(n) |-> Append(table[n][t], l)]]
    BY DEF AddPort, Change
  <2> QED
    BY <2>1, TablesAppended DEF PortsInv
<1>6. PortsTyped'
  BY <1>3, <1>4, <1>5 DEF PortsTyped, PortsInv
<1>7. CallsHitTheirPort'
  BY <1>2, <1>3, <1>5, HitsAfterAppending DEF PortsInv
<1> QED
  BY <1>5, <1>6, <1>7 DEF PortsInv

LEMMA ReadLockedKeeps ==
  ASSUME PortsInv, NEW c \in Caller, ReadLocked(c)
  PROVE  PortsInv'
<1> DEFINE next == [step |-> "write", node |-> call[c].node, label |-> call[c].label,
                    read |-> locked[call[c].node]]
<1>1. call[c].step = "read" /\ call[c] \in ReadCalls
  BY KindOfCall DEF ReadLocked, PortsInv
<1>2. next \in WriteCalls
  BY <1>1 DEF ReadCalls, WriteCalls, PortsInv, PortsTyped
<1>3. /\ next.step = "write" /\ next.node = call[c].node
      /\ next \in CallRecords
  BY <1>2 DEF CallRecords
<1>4. Go(c, next) /\ locked' = locked /\ table' = table
  BY DEF ReadLocked
<1> HIDE DEF next
<1>5. OthersOf(c) /\ call'[c] = next /\ call' \in [Caller -> CallRecords]
  BY <1>1, <1>3, <1>4, OthersAfter DEF OthersOf, PortsInv, ReadCalls
<1>6. PortsTyped'
  BY <1>4, <1>5, TablesKept DEF PortsTyped, PortsInv
<1>7. CallsHitTheirPort'
  BY <1>3, <1>4, TablesKept, HitsAfterAppending DEF PortsInv
<1> QED
  BY <1>4, <1>6, <1>7, TablesKept DEF PortsInv

LEMMA WriteLockedKeeps ==
  ASSUME PortsInv, NEW c \in Caller, WriteLocked(c)
  PROVE  PortsInv'
<1>1. call[c].step = "write" /\ call[c] \in WriteCalls
  BY KindOfCall DEF WriteLocked, PortsInv
<1>2. Idle \in CallRecords /\ Idle.step = "idle"
  BY DEF CallRecords, Idle
<1>3. Go(c, Idle) /\ table' = table
  BY DEF WriteLocked
<1>4. OthersOf(c) /\ call'[c] = Idle /\ call' \in [Caller -> CallRecords]
  BY <1>1, <1>2, <1>3, OthersAfter DEF OthersOf, PortsInv, WriteCalls
<1>5. call[c].node \in Node /\ call[c].label \in Label /\ call[c].read \in SUBSET Label
  BY <1>1 DEF WriteCalls
<1>6. locked' \in [Node -> SUBSET Label]
  BY <1>5 DEF WriteLocked, PortsInv, PortsTyped
<1>7. PortsTyped'
  BY <1>3, <1>4, <1>6, TablesKept DEF PortsTyped, PortsInv
<1>8. CallsHitTheirPort'
  BY <1>2, <1>3, TablesKept, HitsAfterAppending DEF PortsInv
<1> QED
  BY <1>3, <1>7, <1>8, TablesKept DEF PortsInv

LEMMA BeginAddInterfacePortKeeps ==
  ASSUME PortsInv, NEW c \in Caller, NEW n \in Node, NEW l \in Label, NEW lock \in BOOLEAN,
         BeginAddInterfacePort(c, n, l, lock)
  PROVE  PortsInv'
<1> DEFINE next == [step |-> "add", node |-> n, label |-> l, lock |-> lock, read |-> locked[n]]
<1>1. next \in AddCalls
  BY DEF AddCalls, PortsInv, PortsTyped
<1>2. /\ next.step = "add" /\ next.node = n /\ next.lock = lock
      /\ next \in CallRecords
  BY <1>1 DEF CallRecords
<1>3. Go(c, next) /\ locked' = locked /\ table' = table
  BY DEF BeginAddInterfacePort
<1> HIDE DEF next
<1>4. OthersOf(c) /\ call'[c] = next /\ call' \in [Caller -> CallRecords]
  BY <1>2, <1>3, OthersAfter DEF OthersOf, PortsInv
<1>5. PortsTyped'
  BY <1>3, <1>4, TablesKept DEF PortsTyped, PortsInv
<1>6. CallsHitTheirPort'
  BY <1>2, <1>3, TablesKept, HitsAfterAppending DEF PortsInv
<1> QED
  BY <1>3, <1>5, <1>6, TablesKept DEF PortsInv

LEMMA AddInterfacePortKeeps ==
  ASSUME PortsInv, NEW c \in Caller, AddInterfacePort(c)
  PROVE  PortsInv'
<1> DEFINE x == call[c]
           next == IF x.lock THEN [step |-> "write", node |-> x.node, label |-> x.label,
                                   read |-> x.read]
                   ELSE Idle
<1>1. /\ x.step = "add" /\ x.node \in Node /\ x.label \in Label
      /\ x.lock \in BOOLEAN /\ x.read \in SUBSET Label
  BY KindOfCall DEF AddInterfacePort, PortsInv, AddCalls
<1>2. next \in CallRecords
  BY <1>1 DEF CallRecords, WriteCalls
<1>3. next.step \in {"write", "idle"}
      /\ (next.step = "write" => x.lock /\ next.node = x.node)
  BY DEF Idle
<1>4. Go(c, next) /\ locked' = locked
  BY DEF AddInterfacePort
<1>5. table' = [table EXCEPT ![x.node] =
                  [t \in Tables(x.node) |-> Append(table[x.node][t], x.label)]]
  BY DEF AddInterfacePort, Change
<1> HIDE DEF next
<1>6. OthersOf(c) /\ call'[c] = next /\ call' \in [Caller -> CallRecords]
  BY <1>1, <1>2, <1>4, OthersAfter DEF OthersOf, PortsInv
<1>7. /\ TablesTyped' /\ LabelsMirror'
      /\ \A m \in Node : \A t \in Tables(m) :
           /\ Len(table'[m][t]) \in Nat /\ Len(table'[m][t]) >= Len(table[m][t])
           /\ \A i \in 1..Len(table[m][t]) : table'[m][t][i] = table[m][t][i]
  <2>1. PortsTyped /\ LabelsMirror
    BY DEF PortsInv
  <2> HIDE DEF x
  <2> QED
    BY <1>1, <1>5, <2>1, TablesAppended
<1>8. PortsTyped'
  BY <1>4, <1>6, <1>7 DEF PortsTyped, PortsInv
<1>9. CallsHitTheirPort'
  BY <1>3, <1>4, <1>7, HitsAfterAppending DEF PortsInv
<1> QED
  BY <1>7, <1>8, <1>9 DEF PortsInv

(* A write that moves the ports of a node, and overtakes its other callers. *)
LEMMA MovingKeeps ==
  ASSUME PortsInv, NEW c \in Caller, NEW n \in Node, NEW next \in CallRecords,
         NEW f \in [Tables(n) -> Seq(Label)], \A s, t \in Tables(n) : f[s] = f[t],
         table' = [table EXCEPT ![n] = f], locked' = locked,
         Overtake(c, n, next), next.step \in {"read", "idle"}
  PROVE  PortsInv'
<1>1. OthersOf(c) /\ call'[c] = next /\ call' \in [Caller -> CallRecords]
  BY OthersAfter DEF OthersOf, PortsInv
<1>2. TablesTyped' /\ LabelsMirror'
  BY TablesAfter, MirrorAfter DEF PortsInv, PortsTyped
<1>3. PortsTyped'
  BY <1>1, <1>2 DEF PortsTyped, PortsInv
<1>4. CallsHitTheirPort'
  <2>1. \A m \in Node \ {n} : \A t \in Tables(m) : table'[m][t] = table[m][t]
    BY TablesAfter DEF PortsInv, PortsTyped
  <2> QED
    BY <2>1, HitsAfterOvertaking DEF PortsInv
<1> QED
  BY <1>2, <1>3, <1>4 DEF PortsInv

LEMMA InsertPortKeeps ==
  ASSUME PortsInv, NEW c \in Caller, NEW n \in Node, NEW i, NEW l \in Label,
         NEW lock \in BOOLEAN, InsertPort(c, n, i, l, lock)
  PROVE  PortsInv'
<1> DEFINE next == Afterwards(n, l, lock)
           f == [t \in Tables(n) |-> InsertAt(table[n][t], i, l)]
<1>1. next \in CallRecords
  BY AfterwardsTyped
<1>2. next.step \in {"read", "idle"} /\ (next.step = "read" => lock /\ next.node = n)
  BY DEF Afterwards, Idle
<1>3. \A t \in Tables(n) : table[n][t] \in Seq(Label) /\ i \in 1..Len(table[n][t]) + 1
  <2>1. "in" \in Tables(n)
    BY DEF Tables
  <2>2. \A t \in Tables(n) : table[n][t] \in Seq(Label) /\ table[n][t] = table[n]["in"]
    BY <2>1 DEF PortsInv, PortsTyped, TablesTyped, LabelsMirror
  <2> QED
    BY <2>2 DEF InsertPort, Count
<1>4. f \in [Tables(n) -> Seq(Label)]
  BY <1>3, InsertAtType
<1>5. \A s, t \in Tables(n) : f[s] = f[t]
  BY DEF PortsInv, LabelsMirror
<1>6. table' = [table EXCEPT ![n] = f]
  BY DEF InsertPort, Change
<1>7. /\ locked' = locked /\ Overtake(c, n, next)
  BY <1>2 DEF InsertPort
<1> HIDE DEF next, f
<1> QED
  BY <1>1, <1>2, <1>4, <1>5, <1>6, <1>7, MovingKeeps

LEMMA IdleIsACall == Idle \in CallRecords /\ Idle.step = "idle"
BY DEF CallRecords, Idle

LEMMA RemovePortKeeps ==
  ASSUME PortsInv, NEW c \in Caller, NEW n \in Node, NEW i, RemovePort(c, n, i)
  PROVE  PortsInv'
<1> DEFINE f == [t \in Tables(n) |-> RemoveAt(table[n][t], i)]
<1>1. \A t \in Tables(n) : table[n][t] \in Seq(Label) /\ i \in 1..Len(table[n][t])
  <2>1. "in" \in Tables(n)
    BY DEF Tables
  <2>2. \A t \in Tables(n) : table[n][t] \in Seq(Label) /\ table[n][t] = table[n]["in"]
    BY <2>1 DEF PortsInv, PortsTyped, TablesTyped, LabelsMirror
  <2> QED
    BY <2>2 DEF RemovePort, Count
<1>2. f \in [Tables(n) -> Seq(Label)]
  BY <1>1, RemoveAtType
<1>3. \A s, t \in Tables(n) : f[s] = f[t]
  BY DEF PortsInv, LabelsMirror
<1>4. table' = [table EXCEPT ![n] = f]
  BY DEF RemovePort, Change
<1>5. locked' = locked /\ Overtake(c, n, Idle)
  BY DEF RemovePort
<1> HIDE DEF f
<1> QED
  BY <1>2, <1>3, <1>4, <1>5, IdleIsACall, MovingKeeps

LEMMA RemoveFoundKeeps ==
  ASSUME PortsInv, NEW c \in Caller, RemoveFound(c)
  PROVE  PortsInv'
<1> DEFINE x == call[c]
           n == x.node
           f == [t \in Tables(n) |-> IF x.at \in DOMAIN table[n][t]
                                     THEN RemoveAt(table[n][t], x.at) ELSE table[n][t]]
<1>1. n \in Node
  BY KindOfCall DEF RemoveFound, PortsInv, ChangeCalls
<1>2. \A t \in Tables(n) : table[n][t] \in Seq(Label)
  BY <1>1 DEF PortsInv, PortsTyped, TablesTyped
<1>3. f \in [Tables(n) -> Seq(Label)]
  <2>1. \A t \in Tables(n) : x.at \in DOMAIN table[n][t] =>
          RemoveAt(table[n][t], x.at) \in Seq(Label)
    BY <1>2, RemoveAtType
  <2> QED
    BY <1>2, <2>1
<1>4. \A s, t \in Tables(n) : f[s] = f[t]
  BY <1>1 DEF PortsInv, LabelsMirror
<1>5. table' = [table EXCEPT ![n] = f]
  BY DEF RemoveFound, Change
<1>6. locked' = locked /\ Overtake(c, n, Idle)
  BY DEF RemoveFound
<1> HIDE DEF f, n
<1> QED
  BY <1>1, <1>3, <1>4, <1>5, <1>6, IdleIsACall, MovingKeeps

LEMMA RenameFoundKeeps ==
  ASSUME PortsInv, NEW c \in Caller, RenameFound(c)
  PROVE  PortsInv'
<1> DEFINE x == call[c]
           n == x.node
           f == [t \in Tables(n) |-> Relabel(table[n][t], x.at, x.new)]
<1>1. n \in Node /\ x.at \in Nat /\ x.new \in Label
  BY KindOfCall DEF RenameFound, PortsInv, ChangeCalls
<1>2. \A t \in Tables(n) : table[n][t] \in Seq(Label)
  BY <1>1 DEF PortsInv, PortsTyped, TablesTyped
<1>3. f \in [Tables(n) -> Seq(Label)]
  BY <1>1, <1>2, RelabelType
<1>4. \A s, t \in Tables(n) : f[s] = f[t]
  BY <1>1 DEF PortsInv, LabelsMirror
<1>5. table' = [table EXCEPT ![n] = f]
  BY DEF RenameFound, Change
<1>6. locked' = locked /\ Overtake(c, n, Idle)
  BY DEF RenameFound
<1> HIDE DEF f, n
<1> QED
  BY <1>1, <1>3, <1>4, <1>5, <1>6, IdleIsACall, MovingKeeps

LEMMA BeginKeeps ==
  ASSUME PortsInv, NEW c \in Caller, NEW n \in Node, NEW l \in Label, NEW new \in Label,
         Begin(c, n, l, new)
  PROVE  PortsInv'
<1> DEFINE next == [step |-> "find", node |-> n, label |-> l, new |-> new]
<1>1. next \in FindCalls
  BY DEF FindCalls, PortsInv, PortsTyped
<1>2. next \in CallRecords /\ next.step = "find"
  BY <1>1 DEF CallRecords, Begin
<1>3. Go(c, next) /\ locked' = locked /\ table' = table
  BY DEF Begin
<1> HIDE DEF next
<1>4. OthersOf(c) /\ call'[c] = next /\ call' \in [Caller -> CallRecords]
  BY <1>2, <1>3, OthersAfter DEF OthersOf, PortsInv
<1>5. PortsTyped'
  BY <1>3, <1>4, TablesKept DEF PortsTyped, PortsInv
<1>6. CallsHitTheirPort'
  BY <1>2, <1>3, TablesKept, HitsAfterAppending DEF PortsInv
<1> QED
  BY <1>3, <1>5, <1>6, TablesKept DEF PortsInv

LEMMA FindKeeps ==
  ASSUME PortsInv, NEW c \in Caller, Find(c)
  PROVE  PortsInv'
<1> DEFINE x == call[c]
           at == FirstAt(x.node, x.label)
           hit == [step |-> IF x.new = x.label THEN "remove" ELSE "rename",
                   node |-> x.node, label |-> x.label, new |-> x.new,
                   at |-> at, overtaken |-> FALSE]
<1>1. x.step = "find" /\ x \in FindCalls
  BY KindOfCall DEF Find, PortsInv
<1>2. /\ x.node \in Node /\ x.label \in Label /\ x.new \in Label
  BY <1>1 DEF FindCalls
<1>3. at \in Nat /\ (at # 0 => at \in 1..Count(x.node) /\ table[x.node]["in"][at] = x.label)
  <2> HIDE DEF x
  <2> QED
    BY <1>2, FirstAtHits DEF PortsInv
<1> HIDE DEF at
<1>4. hit \in ChangeCalls
  BY <1>2, <1>3 DEF ChangeCalls
<1>5. /\ hit \in CallRecords /\ hit.step \in {"remove", "rename"}
      /\ hit.node = x.node /\ hit.label = x.label /\ hit.at = at
  BY <1>4 DEF CallRecords
<1>6. PICK next \in {Idle, hit} : Go(c, next) /\ (next = hit => at # 0)
  BY <1>5, IdleIsACall DEF Find, at
<1>7. /\ next \in CallRecords
      /\ next.step \in {"idle", "remove", "rename"}
      /\ next.step \in {"remove", "rename"} => next = hit /\ at # 0
  BY <1>5, <1>6, IdleIsACall
<1>8. locked' = locked /\ table' = table
  BY DEF Find
<1> HIDE DEF hit
<1>9. OthersOf(c) /\ call'[c] = next /\ call' \in [Caller -> CallRecords]
  BY <1>2, <1>6, <1>7, OthersAfter DEF OthersOf, PortsInv
<1>10. PortsTyped'
  BY <1>8, <1>9, TablesKept DEF PortsTyped, PortsInv
<1>11. CallsHitTheirPort'
  <2>1. next.step \in {"remove", "rename"} =>
          /\ next.node \in Node
          /\ next.at \in 1..Count(next.node)
          /\ \A t \in Tables(next.node) : table[next.node][t][next.at] = next.label
    <3>1. "in" \in Tables(x.node)
      BY DEF Tables
    <3>2. \A t \in Tables(x.node) : table[x.node][t] = table[x.node]["in"]
      BY <1>2, <3>1 DEF PortsInv, LabelsMirror
    <3> QED
      BY <1>2, <1>3, <1>5, <1>7, <3>2
  <2> QED
    BY <1>6, <1>8, <2>1, TablesKept, HitsAfterAppending DEF PortsInv
<1> QED
  BY <1>8, <1>10, <1>11, TablesKept DEF PortsInv

-----------------------------------------------------------------------------
(* The theorems.                                                            *)

LEMMA InitHolds == PortsInit => PortsInv
<1> SUFFICES ASSUME PortsInit PROVE PortsInv
  OBVIOUS
<1>1. \A n \in Node : \A t \in Tables(n) : table[n][t] = <<>>
  BY DEF PortsInit
<1>2. TablesTyped
  BY <1>1 DEF PortsInit, TablesTyped
<1>3. PortsTyped
  BY <1>2, IdleIsACall DEF PortsInit, PortsTyped
<1>4. LabelsMirror
  BY <1>1 DEF LabelsMirror
<1>5. \A c \in Caller : call[c].step = "idle"
  BY IdleIsACall DEF PortsInit
<1> QED
  BY <1>3, <1>4, <1>5 DEF PortsInv, CallsHitTheirPort

LEMMA StepKeeps == PortsInv /\ [PortsNext]_ports => PortsInv'
<1> SUFFICES ASSUME PortsInv, [PortsNext]_ports PROVE PortsInv'
  OBVIOUS
<1>1. CASE UNCHANGED ports
  BY <1>1 DEF ports, PortsInv, PortsTyped, TablesTyped, Tables, LabelsMirror,
              CallsHitTheirPort, Count
<1>2. ASSUME NEW c \in Caller, AddStep(c)
      PROVE  PortsInv'
  BY <1>2, AddPortKeeps, InsertPortKeeps, BeginAddInterfacePortKeeps, AddInterfacePortKeeps
     DEF AddStep
<1>3. ASSUME NEW c \in Caller, LockStep(c)
      PROVE  PortsInv'
  BY <1>3, ReadLockedKeeps, WriteLockedKeeps DEF LockStep
<1>4. ASSUME NEW c \in Caller, ChangeStep(c)
      PROVE  PortsInv'
  BY <1>4, RemovePortKeeps, BeginKeeps, FindKeeps, RemoveFoundKeeps, RenameFoundKeeps
     DEF ChangeStep
<1> QED
  BY <1>1, <1>2, <1>3, <1>4 DEF PortsNext

LEMMA PortsInvariance == PortsSpec => []PortsInv
BY InitHolds, StepKeeps, PTL DEF PortsSpec

(* Whoever else is inside a call, the slot tables of a node have the same   *)
(* labels in the same order whenever the lock is free.                      *)
THEOREM PortsMirror == PortsSpec => []LabelsMirror
<1>1. PortsInv => LabelsMirror
  BY DEF PortsInv
<1> QED
  BY <1>1, PortsInvariance, PTL

(* A call by label that no moving call has overtaken acts on the port it    *)
(* named.                                                                   *)
THEOREM PortsAreHit == PortsSpec => []CallsHitTheirPort
<1>1. PortsInv => CallsHitTheirPort
  BY DEF PortsInv
<1> QED
  BY <1>1, PortsInvariance, PTL

=============================================================================
