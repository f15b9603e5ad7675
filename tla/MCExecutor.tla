----------------------------- MODULE MCExecutor -----------------------------
(* Instances of Executor for TLC.                                           *)
EXTENDS ExecutorMemo, Nodes

CONSTANTS n1, n2, n3, none

(* A two-valued operator that forwards its first input when its data says  *)
(* so: it has no inverse, so a changed input may leave the output the same,*)
(* and it tells the order of its inputs.                                   *)
Gate(n, d, ins) ==
  IF ins = <<>> THEN d ELSE IF d = 0 THEN 0 ELSE Head(ins)

(* n1 emits its data; the others select, by the index in their data.       *)
Pick(n, d, ins) == IF n = n1 THEN d ELSE Select(ins, d, NoValue)

Diamond == {<<n1, n2>>, <<n2, n3>>, <<n1, n3>>}
Loop    == {<<n1, n2>>, <<n2, n3>>, <<n3, n2>>}
Pair    == {<<n1, n2>>}
=============================================================================
