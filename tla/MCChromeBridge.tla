--------------------------- MODULE MCChromeBridge ---------------------------
(* Symmetry sets of ChromeBridge for the model checker. *)
EXTENDS ChromeBridge, TLC

\* Commands, connectors and request slots are interchangeable.
BridgeSymmetry ==
  Permutations(Cmds) \cup Permutations(Connectors) \cup Permutations(Handlers)
=============================================================================
