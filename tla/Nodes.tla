-------------------------------- MODULE Nodes --------------------------------
(***************************************************************************)
(* What a built-in node computes, where the graph's promises depend on it  *)
(* (src/node/primitives/select.rs).                                        *)
(***************************************************************************)
EXTENDS Integers, Sequences

(* Select: the option at a 0-based index, verbatim; with no such option    *)
(* the run succeeds and sets nothing.                                      *)
Select(options, index, nothing) ==
  IF index \in 0..(Len(options) - 1) THEN options[index + 1] ELSE nothing

=============================================================================
