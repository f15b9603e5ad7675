------------------------------ MODULE Planning ------------------------------
(***************************************************************************)
(* What a pass is to visit, and in which order: the walk downstream from   *)
(* the dirty nodes (build_execution_plan) and topological_sort, over the   *)
(* edges of NodeStates (src/node_graph/node_graph_api.rs,                  *)
(* node_graph_system.rs).                                                  *)
(***************************************************************************)
EXTENDS NodeStates

Neighbors(s, p) == {s.edges[e]["in"].node : e \in {f \in EdgesOf(s) : s.edges[f]["out"].node = p}}

(* The nodes that edges lead to from the nodes of P.                       *)
Successors(s, P) ==
  {s.edges[e]["in"].node : e \in {f \in EdgesOf(s) : s.edges[f]["out"].node \in P}}

(* The walk over outgoing_edges_at from the dirty nodes.                   *)
Downstream(s, from) ==
  Iterate([P \in SUBSET Path |-> P \cup Successors(s, P)], from, Cardinality(Path))

(* A count that passes over the edges from a node to itself.               *)
BetweenOthers(s, P, p) ==
  {e \in EdgesOf(s) : s.edges[e]["out"].node \in P \ {p} /\ s.edges[e]["in"].node = p}

(* The edges from a node of P to p.                                        *)
Between(s, P, p) ==
  {e \in EdgesOf(s) : s.edges[e]["out"].node \in P /\ s.edges[e]["in"].node = p}

(* A count that includes the edges from nodes that are not planned.        *)
InDegreeOfAll(s, P) == [p \in P |-> Cardinality(Between(s, Path, p))]

InDegree(s, P) == [p \in P |-> Cardinality(Between(s, P, p))]

(* Every edge out of a level takes one from the degree of its target.      *)
Release(s, degree, level) ==
  [p \in DOMAIN degree |-> degree[p] - Cardinality(Between(s, level, p))]

(* The sort in progress: the degrees left, the level found last, and those *)
(* before it.                                                              *)
Sorting(P) == [degree : [P -> Int], level : SUBSET P, levels : Seq(SUBSET P)]

FirstLevel(s, P) ==
  LET degree == InDegree(s, P)
  IN  [degree |-> degree, level |-> {p \in P : degree[p] = 0}, levels |-> <<>>]

NextLevel(s, P, t) ==
  LET degree == Release(s, t.degree, t.level)
  IN  [degree |-> degree,
       level  |-> {p \in P : degree[p] = 0 /\ t.degree[p] # 0},
       levels |-> IF t.level = {} THEN t.levels ELSE Append(t.levels, t.level)]

(* topological_sort: the levels, or with a cycle fewer nodes than planned. *)
Sort(s, P) ==
  Iterate([t \in Sorting(P) |-> NextLevel(s, P, t)], FirstLevel(s, P), Cardinality(P)).levels

Placed(levels) == UNION {levels[k] : k \in DOMAIN levels}

-----------------------------------------------------------------------------
(* Every planned node stands once in the levels, after all that feed it,   *)
(* unless the plan has a cycle; then the sort says so.                     *)
SortIsRight ==
  LET P == Downstream(ns, ns.changed)
      levels == Sort(ns, P)
      level(p) == CHOOSE k \in DOMAIN levels : p \in levels[k]
      cyclic == \E p \in P : p \in Downstream(ns, Neighbors(ns, p))
  IN  /\ \A j, k \in DOMAIN levels : j # k => levels[j] \cap levels[k] = {}
      /\ Placed(levels) = P <=> ~ cyclic
      /\ Placed(levels) = P => \A p, q \in P : q \in Neighbors(ns, p) => level(p) < level(q)

=============================================================================
