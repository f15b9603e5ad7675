------------------------------- MODULE Ports -------------------------------
(***************************************************************************)
(* Ports by label (src/node_graph/subgraph_helpers.rs and                  *)
(* interface_helpers.rs): adding, removing, renaming and locking the ports *)
(* of a SubGraph and of a stand-alone InterfaceNode.  A port is one entry  *)
(* in each of several slot tables, under one label; the labels that are    *)
(* locked are in the node's data.                                          *)
(*                                                                         *)
(* These calls take &self: several callers may be inside one at a time.    *)
(* Each takes the lock of NodeStates anew for every step, to look at the   *)
(* locked labels, to find an index and to act, and a step is an action     *)
(* here.  NodeStates has the edges, ids and types of the same slots, where *)
(* a call is one step.                                                     *)
(***************************************************************************)
EXTENDS Integers, Vec, SequencesExt

CONSTANTS
  SubGraph,    \* the sides of SubGraphNodes: a proxy and the external slots
  Interface,   \* stand-alone InterfaceNodes
  Label,
  Caller,
  MaxPorts     \* bound: ports of a node

ASSUME PortsAssumption == SubGraph \cap Interface = {} /\ MaxPorts \in Nat

VARIABLES
  table,       \* table[n][t]: the labels in slot table t of n
  locked,      \* InterfaceNodeData.locked
  call         \* the call each caller is inside of

ports == <<table, locked, call>>

Node == SubGraph \cup Interface

(* The proxy's inputs and outputs; for a SubGraph its external slots too.  *)
Tables(n) == IF n \in SubGraph THEN {"in", "out", "external"} ELSE {"in", "out"}

Step == {"idle", "add", "read", "write", "find", "remove", "rename"}
Idle == [step |-> "idle"]

Count(n) == Len(table[n]["in"])

(* The first slot of that label: both families look at the inputs.         *)
FirstAt(n, l) == SelectInSeq(table[n]["in"], LAMBDA x : x = l)

(* bound: there is room, for the ports that are being added as well        *)
Room(n) ==
  Count(n) + Cardinality({c \in Caller : call[c].step = "add" /\ call[c].node = n}) < MaxPorts

(* Every table of n, changed alike under one write lock.                   *)
Change(n, Op(_)) == table' = [table EXCEPT ![n] = [t \in Tables(n) |-> Op(@[t])]]

(* set_input_slot_label, set_output_slot_label: a slot keeps its place and *)
(* its id, and an index without a slot is passed over.                     *)
Relabel(q, i, l) == IF i \in DOMAIN q THEN [q EXCEPT ![i] = l] ELSE q

(* The other callers' indexes may no longer be those they found.           *)
Overtake(c, n, next) ==
  call' = [d \in Caller |->
             IF d = c THEN next
             ELSE IF call[d].step \in {"remove", "rename"} /\ call[d].node = n
                  THEN [call[d] EXCEPT !.overtaken = TRUE] ELSE call[d]]

Go(c, next) == call' = [call EXCEPT ![c] = next]

-----------------------------------------------------------------------------
(* Adding.                                                                 *)

Afterwards(n, l, lock) ==
  IF lock THEN [step |-> "read", node |-> n, label |-> l] ELSE Idle

(* add_subgraph_input, add_subgraph_output and their locked siblings.      *)
AddPort(c, n, l, lock) ==
  /\ call[c] = Idle /\ n \in SubGraph /\ Room(n)
  /\ Change(n, LAMBDA q : Append(q, l))
  /\ Go(c, Afterwards(n, l, lock))
  /\ UNCHANGED locked

(* insert_subgraph_input_at, insert_subgraph_output_at, locked or not.     *)
InsertPort(c, n, i, l, lock) ==
  /\ call[c] = Idle /\ n \in SubGraph /\ Room(n)
  /\ i \in 1..Count(n) + 1
  /\ Change(n, LAMBDA q : InsertAt(q, i, l))
  /\ Overtake(c, n, Afterwards(n, l, lock))
  /\ UNCHANGED locked

(* append_locked_label_at reads the data under one lock ...                *)
ReadLocked(c) ==
  /\ call[c].step = "read"
  /\ Go(c, [step |-> "write", node |-> call[c].node, label |-> call[c].label,
            read |-> locked[call[c].node]])
  /\ UNCHANGED <<table, locked>>

(* ... and writes it back under another, whoever has written since.        *)
WriteLocked(c) ==
  /\ call[c].step = "write"
  /\ locked' = [locked EXCEPT ![call[c].node] = call[c].read \cup {call[c].label}]
  /\ Go(c, Idle)
  /\ UNCHANGED table

(* add_interface_port reads the data first, then adds, then writes.        *)
BeginAddInterfacePort(c, n, l, lock) ==
  /\ call[c] = Idle /\ n \in Interface /\ Room(n)
  /\ Go(c, [step |-> "add", node |-> n, label |-> l, lock |-> lock, read |-> locked[n]])
  /\ UNCHANGED <<table, locked>>

AddInterfacePort(c) ==
  LET x == call[c]
  IN  /\ x.step = "add"
      /\ Change(x.node, LAMBDA q : Append(q, x.label))
      /\ Go(c, IF x.lock THEN [step |-> "write", node |-> x.node, label |-> x.label,
                               read |-> x.read]
               ELSE Idle)
      /\ UNCHANGED locked

-----------------------------------------------------------------------------
(* Removing and renaming.                                                  *)

(* remove_subgraph_input, remove_subgraph_output: locks are not looked at. *)
RemovePort(c, n, i) ==
  /\ call[c] = Idle /\ n \in SubGraph /\ i \in 1..Count(n)
  /\ Change(n, LAMBDA q : RemoveAt(q, i))
  /\ Overtake(c, n, Idle)
  /\ UNCHANGED locked

(* The locked labels are looked at for an InterfaceNode only.              *)
Begin(c, n, l, new) ==
  /\ call[c] = Idle
  /\ n \in Interface => l \notin locked[n]
  /\ Go(c, [step |-> "find", node |-> n, label |-> l, new |-> new])
  /\ UNCHANGED <<table, locked>>

(* An index counted from the other end.                                    *)
FindFromEnd(c) ==
  LET x == call[c]
  IN  /\ x.step = "find"
      /\ Go(c, IF FirstAt(x.node, x.label) = 0 THEN Idle
               ELSE [step |-> IF x.new = x.label THEN "remove" ELSE "rename",
                     node |-> x.node, label |-> x.label, new |-> x.new,
                     at |-> Count(x.node) + 1 - FirstAt(x.node, x.label), overtaken |-> FALSE])
      /\ UNCHANGED <<table, locked>>

(* The index by label; for a renaming, only while the new label is free.   *)
(* A removal is a renaming to the label itself here.                       *)
Find(c) ==
  LET x == call[c]
      at == FirstAt(x.node, x.label)
      taken == x.new # x.label /\ FirstAt(x.node, x.new) # 0
  IN  /\ x.step = "find"
      /\ Go(c, IF at = 0 \/ taken THEN Idle
               ELSE [step |-> IF x.new = x.label THEN "remove" ELSE "rename",
                     node |-> x.node, label |-> x.label, new |-> x.new,
                     at |-> at, overtaken |-> FALSE])
      /\ UNCHANGED <<table, locked>>

(* What is at the index now is removed; if there is nothing, nothing is.   *)
RemoveFound(c) ==
  LET x == call[c]
  IN  /\ x.step = "remove"
      /\ Change(x.node, LAMBDA q : IF x.at \in DOMAIN q THEN RemoveAt(q, x.at) ELSE q)
      /\ Overtake(c, x.node, Idle)
      /\ UNCHANGED locked

(* A renaming that leaves the output label of the proxy.                   *)
RenameInput(c) ==
  LET x == call[c]
  IN  /\ x.step = "rename"
      /\ table' = [table EXCEPT ![x.node]["in"] =
                     Relabel(@, x.at, x.new)]
      /\ Overtake(c, x.node, Idle)
      /\ UNCHANGED locked

(* What is at the index now is renamed.                                    *)
RenameFound(c) ==
  LET x == call[c]
  IN  /\ x.step = "rename"
      /\ Change(x.node, LAMBDA q : Relabel(q, x.at, x.new))
      /\ Overtake(c, x.node, Idle)
      /\ UNCHANGED locked

-----------------------------------------------------------------------------
PortsInit ==
  /\ table = [n \in Node |-> [t \in Tables(n) |-> <<>>]]
  /\ locked = [n \in Node |-> {}]
  /\ call = [c \in Caller |-> Idle]

AddStep(c) ==
  \/ \E n \in Node, l \in Label, lock \in BOOLEAN :
       \/ AddPort(c, n, l, lock)
       \/ \E i \in 1..MaxPorts : InsertPort(c, n, i, l, lock)
       \/ BeginAddInterfacePort(c, n, l, lock)
  \/ AddInterfacePort(c)

LockStep(c) == ReadLocked(c) \/ WriteLocked(c)

ChangeStep(c) ==
  \/ \E n \in Node, i \in 1..MaxPorts : RemovePort(c, n, i)
  \/ \E n \in Node, l, new \in Label : Begin(c, n, l, new)
  \/ Find(c) \/ RemoveFound(c) \/ RenameFound(c)

PortsNext == \E c \in Caller : AddStep(c) \/ LockStep(c) \/ ChangeStep(c)

PortsSpec == PortsInit /\ [][PortsNext]_ports

-----------------------------------------------------------------------------
(* A port has one label and one position, in every table that has it, at   *)
(* every moment a reader can take the lock: "input and output slot indices *)
(* stay in lock-step", whoever else is inside a call.                      *)
LabelsMirror ==
  \A n \in Node : \A s, t \in Tables(n) : table[n][s] = table[n][t]

(* Calls that only append, lock or look may overlap a call by label: unless *)
(* a removal, an insertion or a renaming overtakes it between its two locks *)
(* (`remove_subgraph_input_by_label` finds under one and acts under         *)
(* another), it acts on the port it named.                                  *)
CallsHitTheirPort ==
  \A c \in Caller :
    LET x == call[c]
    IN  x.step \in {"remove", "rename"} /\ ~ x.overtaken =>
          /\ x.at \in 1..Count(x.node)
          /\ \A t \in Tables(x.node) : table[x.node][t][x.at] = x.label

=============================================================================
