------------------------------ MODULE MCEngine ------------------------------
(* An instance of Engine for TLC: src feeds the SubGraph sg, whose inside   *)
(* node feeds its output port, and so a sink.                               *)
EXTENDS Engine

CONSTANTS src, sg, sgIn, sgOut, inner, sink, root, t1, e1, e2, e3, e4, e5

ParentOf ==
  [p \in Path |-> IF p \in {sgIn, sgOut, inner} THEN sg ELSE root]

ProxyOf == [g \in SubGraph |-> [d \in Side |-> IF d = "in" THEN sgIn ELSE sgOut]]

IdsOfPath ==
  [p \in Path |-> CASE p = src -> {1} [] p = inner -> {2} [] p = sg -> {3}
                    [] p = sgIn -> {4} [] p = sgOut -> {5} [] p = sink -> {6}]

(* src has an output, sink an input, inner one of both.                     *)
DefsOf ==
  LET one == <<[type |-> t1, max |-> None]>>
  IN  [p \in Path |-> [d \in Side |->
         IF p = inner \/ (p = src /\ d = "out") \/ (p = sink /\ d = "in") THEN one ELSE <<>>]]

(* From the outside in, through, and out; and one more edge: past the       *)
(* SubGraph, past the node inside it, or onto the port that e1 takes.       *)
WiresOf ==
  [e \in EdgeId |-> CASE e = e1 -> {<<src, 1, sg, 1>>}
                      [] e = e2 -> {<<sgIn, 1, inner, 1>>}
                      [] e = e3 -> {<<inner, 1, sgOut, 1>>}
                      [] e = e4 -> {<<sg, 1, sink, 1>>}
                      [] e = e5 -> {<<src, 1, sink, 1>>, <<sgIn, 1, sgOut, 1>>, <<src, 1, sg, 1>>}]

(* Values have two fields, of which one varies.                             *)
Low  == [x |-> 0, y |-> 0]
High == [x |-> 1, y |-> 0]
Points == [{"x", "y"} -> Number]
FieldsOf == [t \in Type |-> {"x", "y"}]

(* The same paths with room for a second input port of sg, and what e1 and  *)
(* e2 wire to either of them: a port in front moves edges and defaults.     *)
(* Two more ways close a cycle: from the output port of sg to its input     *)
(* port, which leads straight back, and at the node inside.                 *)
IdsOfTwoPorts ==
  [p \in Path |-> CASE p = sg -> {3, 7} [] p = sgIn -> {4, 8} [] OTHER -> IdsOfPath[p]]

WiresOfShift ==
  [e \in EdgeId |->
     IF e = e1 THEN {<<src, 1, sg, 1>>, <<src, 1, sg, 2>>, <<sg, 1, sg, 1>>}
     ELSE {<<sgIn, 1, inner, 1>>, <<sgIn, 2, inner, 1>>, <<sgIn, 1, sgOut, 1>>,
           <<inner, 1, inner, 1>>}]

(* What is set: the data of src, the default of sg, whole or by the field.  *)
DataOf == [p \in Path |-> IF p = src THEN {Low, High} ELSE {}]
DefaultsOf == [p \in Path |-> IF p = sg THEN {High, None} ELSE {}]
SetFields == [p \in Path |-> IF p \in {src, sg} THEN {<<"x", 1>>} ELSE {}]

(* The nodes and ports have been created, and nothing else.                 *)
BuiltInit ==
  LET slot(d, p) ==
        [id |-> Min(Ids[p]), type |-> t1,
         max |-> IF d = "in" /\ p \in Interface THEN 1 ELSE None]
      has(d, p) == p \notin {src, sink} \/ <<p, d>> \in {<<src, "out">>, <<sink, "in">>}
  IN  /\ ns = [nodes    |-> Path,
               slots    |-> [d \in Side |-> [p \in Path |->
                               IF has(d, p) THEN <<slot(d, p)>> ELSE <<>>]],
               owner    |-> [d \in Side |-> [i \in SlotId |->
                               LET p == CHOOSE p \in Path : i \in Ids[p]
                               IN  IF has(d, p) /\ i = Min(Ids[p]) THEN <<p, 1>> ELSE None]],
               edges    |-> [e \in EdgeId |-> None],
               conn     |-> [d \in Side |-> [i \in SlotId |-> <<>>]],
               touching |-> [d \in Side |-> [p \in Path |-> <<>>]],
               changed  |-> Path]
      /\ data = [p \in Path |-> DefaultData]
      /\ default = [i \in SlotId |-> None]
      /\ cache = [i \in SlotId |-> None]
      /\ shown = [out |-> [p \in Path |-> Absent], edge |-> [e \in EdgeId |-> Absent]]

(* A pass over a cycle is refused and cleans nothing: wiring goes on.       *)
Rewiring ==
  LET planned == Downstream(ns, ns.changed)
  IN  Placed(Sort(ns, planned)) # planned /\ Rewire

BuiltSpec == BuiltInit /\ [][EngineNext \/ Rewiring]_engine

(* src emits its data; inner forwards its first value, or else Low: a new     *)
(* input may leave its output the same.                                     *)
Forward(p, d, ins) ==
  CASE p = src -> <<d>>
    [] p = inner -> <<IF ins[1] = <<>> THEN Low ELSE Head(ins[1])>>
    [] OTHER -> <<>>

(* The instance is one the theorems speak of; inputs are of two values here. *)
ASSUME HypothesesHold ==
  ProxiesAreKept /\ NoneSetAtProxies /\ RunsAreTypedOn(BoundedSeq(Value, 2))
=============================================================================
