-------------------------------- MODULE Loop --------------------------------
(***************************************************************************)
(* Loops, as functions of the turn they are in (of a recursive operator    *)
(* nothing could be proved).                                               *)
(***************************************************************************)
EXTENDS Naturals, FiniteSets

(* x after n turns of a loop whose body makes F[y] of y.                   *)
Iterate(F, x, n) ==
  LET turn[k \in 0..n] == IF k = 0 THEN x ELSE F[turn[k - 1]]
  IN  turn[n]

=============================================================================
