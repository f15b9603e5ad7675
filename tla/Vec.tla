-------------------------------- MODULE Vec --------------------------------
(***************************************************************************)
(* The operations of std::vec::Vec the graph keeps its ordered lists with. *)
(***************************************************************************)
EXTENDS Naturals, Sequences, FiniteSets

(* Vec::retain: what q holds at the positions in I, in order.  (SelectSeq  *)
(* is a recursive definition, of which nothing could be proved.)           *)
Nth(I, k) == CHOOSE i \in I : Cardinality({j \in I : j <= i}) = k
Retain(q, I) == [k \in 1..Cardinality(I) |-> q[Nth(I, k)]]

(* retain(|x| !D.contains(x)).                                             *)
Without(q, D) == Retain(q, {k \in DOMAIN q : q[k] \notin D})

=============================================================================
