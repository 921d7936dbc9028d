--------------------------- MODULE MCSessionClient ---------------------------
(* Names the prompt of the instance of SessionClient that TLC checks. *)
EXTENDS SessionClient
CONSTANT q1
=============================================================================
