---------------------------- MODULE MCLifecycle ----------------------------
(* An instance of Lifecycle for TLC: a root-level node, and a SubGraph      *)
(* with a node inside that has the same id.                                 *)
EXTENDS Lifecycle

CONSTANTS own, builtin, e1, top, sg, sgIn, sgOut, inner, root, t1

ParentOf == [p \in Path |-> IF p \in {sgIn, sgOut, inner} THEN sg ELSE root]

ProxyOf == [g \in SubGraph |-> [d \in Side |-> IF d = "in" THEN sgIn ELSE sgOut]]

LeafOf == [p \in Path |-> IF p = inner THEN top ELSE p]

(* One id each: no node with slots is made over a live one with slots.      *)
IdsOfPath ==
  [p \in Path |-> CASE p = top -> {1} [] p = inner -> {2} [] OTHER -> {}]

DefsOf ==
  [p \in Path |-> [d \in Side |->
     IF p \in {top, inner} THEN <<[type |-> t1, max |-> 1]>> ELSE <<>>]]

(* Either way across the boundary, and inside, where it closes a cycle.     *)
EndsOf == {<<top, inner>>, <<inner, top>>, <<inner, inner>>}

(* Factories change only while all results are in, and while an entry is    *)
(* out nothing else does: whatever is pending does not depend on them.      *)
(* Edits stop once two nodes are dirty.                                     *)
QuietNext ==
  \/ ns.changed = {} /\ removed = {} /\ FactoryStep
  \/ /\ Cardinality(ns.changed) < 2 /\ saved = None
     /\ MakeStep \/ UnmakeStep \/ WireStep
  \/ PassStep
QuietSpec == LifecycleInit /\ [][QuietNext]_lifecycle
=============================================================================
