--------------------------- MODULE MCWeixinBridge ---------------------------
(* Kinds of messages for the model checker. *)
EXTENDS WeixinBridge

CONSTANTS s1, s2

\* Everything the bridge tells apart, s1 being the default session.
AllContents ==
  {[type |-> t, quote |-> NoSession] : t \in {"text", "image", "both", "notice", "foreign"}}
    \cup {[type |-> t, quote |-> s2] : t \in {"text", "image"}}

\* What goes to Pi.
Prompts ==
  {[type |-> t, quote |-> NoSession] : t \in {"text", "image", "both"}}
    \cup {[type |-> "text", quote |-> s2]}

TwoSessions == {s1, s2}
=============================================================================
