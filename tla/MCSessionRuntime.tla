-------------------------- MODULE MCSessionRuntime --------------------------
(* Symmetry of SessionRuntime for the model checker. *)
EXTENDS SessionRuntime, TLC

\* Calls are interchangeable.
CallSymmetry == Permutations(Calls)
=============================================================================
