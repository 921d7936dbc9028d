---------------------------- MODULE ChromeCommand ----------------------------
(***************************************************************************)
(* What the chrome extension promises the caller of a tool: a command runs *)
(* in the browser at most once, and what the caller is told of it is true. *)
(*                                                                         *)
(* The answers are the classes of failures of core/errors.ts: a failure    *)
(* before delivery (BridgeStopped, ConnectorOffline, CommandTimeout, busy) *)
(* says that the command never runs, CommandOutcomeUnknown says nothing.   *)
(***************************************************************************)

CONSTANTS Cmds

VARIABLES
  told,  \* what the caller of each command was told
  ran    \* what the browser has done with it

Init ==
  /\ told = [c \in Cmds |-> "none"]
  /\ ran = [c \in Cmds |-> "no"]

Tell(c, answer) ==
  /\ told[c] = "none"
  /\ told' = [told EXCEPT ![c] = answer]
  /\ UNCHANGED ran

\* A caller who was told that the outcome is unknown may still see it run.
Begin(c) ==
  /\ ran[c] = "no" /\ told[c] \in {"none", "unknown"}
  /\ ran' = [ran EXCEPT ![c] = "running"]
  /\ UNCHANGED told

Finish(c) ==
  /\ ran[c] = "running"
  /\ \E outcome \in {"ok", "failed"} : ran' = [ran EXCEPT ![c] = outcome]
  /\ UNCHANGED told

Answer(c) == ran[c] \in {"ok", "failed"} /\ Tell(c, ran[c])
Refuse(c) == ran[c] = "no" /\ Tell(c, "never")

\* A process that ends takes all its callers along.
GiveUp(cs) ==
  /\ cs # {} /\ \A c \in cs : told[c] = "none"
  /\ told' = [c \in Cmds |-> IF c \in cs THEN "unknown" ELSE told[c]]
  /\ UNCHANGED ran

Next ==
  \/ \E c \in Cmds : Begin(c) \/ Finish(c) \/ Answer(c) \/ Refuse(c)
  \/ \E cs \in SUBSET Cmds : GiveUp(cs)

Spec == Init /\ [][Next]_<<told, ran>>
=============================================================================
