---------------------------- MODULE ExecutorMemo ----------------------------
(* Executor implements Memo: where the dirty set, the plan and the runs of  *)
(* a pass keep the debts of the nodes.                                      *)
EXTENDS Executor

(* A planned node that has a reason to run: it was dirty, or something it   *)
(* reads has changed in this pass.                                          *)
Arriving(n) ==
  n \in pending /\ (n \in seed \/ SourcesOf(n) \cap (frontier \cup RunMoved) # {})

(* In a pass a debt has left the dirty set and is not paid yet while the    *)
(* node waits for its level, waits in it, runs, or has failed.              *)
InPass(n) ==
  phase = "levels" /\ \/ n \in failed
                      \/ run[n] \in {"queued", "todo", "running", "failed"}
                      \/ Arriving(n)

Owed == {n \in live : n \in changed \/ InPass(n)}

(* A source without a cache entry contributes no input value.               *)
Produced(n, d, delivered) ==
  Compute(n, d, Retain(delivered, {i \in DOMAIN delivered : delivered[i] # NoValue}))

Promise == INSTANCE Memo WITH owed <- Owed, Output <- Produced

(* Every step of an edit, of a pass and of the calls that overlap it is a   *)
(* step the promise allows, or none at all.  In particular a debt leaves    *)
(* the books only with the run that pays it: not when the dirty set is      *)
(* drained, not when the plan prunes a node, not with a failed run.         *)
KeepsPromise == Promise!Spec

=============================================================================
