---------------------------- MODULE MCExtensionUi ----------------------------
(* A confirm and a select that wait for the user, an input with a timeout. *)
EXTENDS ExtensionUi

CONSTANTS confirm, select, input

ThreeDialogs == {confirm, select, input}
=============================================================================
