---------------------------- MODULE MCNodeStates ----------------------------
(* Instances of NodeStates for TLC.                                         *)
EXTENDS NodeStates

CONSTANTS src, sg, sgIn, sgOut, inner, ifc, root, t1, t2, e1

ParentOf ==
  [p \in Path |-> IF p \in {sgIn, sgOut, inner} THEN sg ELSE root]

ProxyOf == [g \in SubGraph |-> [d \in Side |-> IF d = "in" THEN sgIn ELSE sgOut]]

(* Two ids for the ports that shift, the input ports of sg; one elsewhere.  *)
IdsOfPath ==
  [p \in Path |-> CASE p = src -> {1} [] p = inner -> {2} [] p = sg -> {3, 4}
                    [] p = sgIn -> {5, 6} [] p = sgOut -> {7} [] p = ifc -> {9}]

(* A second id for the port of the stand-alone InterfaceNode.               *)
FreshIds == [IdsOfPath EXCEPT ![ifc] = {9, 10}]

(* One slot on each side; the input of src takes two edges.                 *)
DefsOf ==
  [p \in Path |-> [d \in Side |->
     IF p \in {src, inner}
     THEN <<[type |-> t1, max |-> IF p = src THEN 2 ELSE None]>> ELSE <<>>]]

(* No edit reads the dirty set, so a pass drains it after every edit: the   *)
(* strongest case for what an edit must mark.                               *)
Settled == ns.changed = {}
DrainedNext ==
  \/ Settled /\ CreateStep
  \/ Settled /\ RemoveStep
  \/ Settled /\ AddPortStep
  \/ Settled /\ RemovePortStep
  \/ Settled /\ RemoveIdlePort
  \/ Settled /\ ConnectStep
  \/ Settled /\ DisconnectStep
  \/ Settled /\ ReorderStep
  \/ Drain
DrainedSpec == Init /\ [][DrainedNext]_vars
=============================================================================
