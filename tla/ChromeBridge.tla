---------------------------- MODULE ChromeBridge ----------------------------
(***************************************************************************)
(* The way of a command from a tool of the chrome extension to a browser   *)
(* and of its result back: NodeBridge.sendBound and its lifecycle gate,    *)
(* the CommandBroker with one mailbox per connector, the HTTP handlers of  *)
(* poll and result, the ConnectorOwner, and in each browser a worker that  *)
(* polls, journals, executes, records and delivers.                        *)
(*                                                                         *)
(* Actors: the callers, one for each command; the handlers of requests,    *)
(* which outlive a request that its worker has abandoned; the workers,     *)
(* whose process may be killed anywhere, the journal alone surviving; the  *)
(* process that owns the bridge, replaced by another when it ends.         *)
(*                                                                         *)
(* A dropped mailbox is empty and closed for good, so whoever still holds  *)
(* it is at Nowhere. Metadata of a connector is valid and never changes.   *)
(***************************************************************************)
EXTENDS Naturals, Sequences, FiniteSets

CONSTANTS
  Cmds,         \* commands, each sent once
  Connectors,   \* browser profiles, one worker each
  Handlers,     \* slots for requests in progress at the bridge
  Nobody,       \* no connector
  NoCmd,        \* no command
  Nowhere,      \* a mailbox that was dropped
  NoHandler,
  MaxAdmitted,  \* MAX_ADMITTED_COMMANDS_PER_CONNECTOR
  Gated,        \* TRUE: sends pass NodeBridge's gate; FALSE: the broker alone
  MaxLosses     \* bound on failures: lost requests, killed workers, lost bridges

ASSUME NamesAssumption ==
  Nobody \notin Connectors /\ Nowhere \notin Connectors /\ NoCmd \notin Cmds
    /\ NoHandler \notin Handlers
ASSUME LimitsAssumption ==
  MaxAdmitted \in Nat \ {0} /\ Gated \in BOOLEAN /\ MaxLosses \in Nat

VARIABLES
  up,       \* a process owns the port
  epoch,    \* how many have owned it before
  current,  \* the connector of ConnectorOwner
  box,      \* the mailbox of each connector
  sender,   \* the caller of each command
  reply,    \* the Deferred of each command
  told,     \* what each caller was told
  handler,  \* the requests in progress at the bridge
  worker,   \* what the worker of each connector is doing
  journal,  \* its chrome.storage entry
  ran,      \* what the browser did with each command (history)
  losses    \* failures so far (bound)

bridge == <<up, epoch, current>>
browser == <<worker, journal, ran>>
callers == <<sender, reply, told>>
vars == <<up, epoch, current, box, sender, reply, told, handler, worker,
          journal, ran, losses>>

-----------------------------------------------------------------------------
(* Types *)

Results == {"ok", "failed", "unknown"}
Answers == Results \cup {"never"}

Mailbox == [open: BOOLEAN, pending: [Cmds -> {"no", "queued", "executing", "completing"}],
            queue: Seq(Cmds), seen: {"never", "live", "stale"}]
Sender == [pc: {"idle", "gate", "offer", "await", "done"}, epoch: Nat,
           box: Connectors \cup {Nowhere}]
Handler == [stage: {"free", "poll", "permit", "take", "claim", "serve",
                    "result", "completing", "acknowledged", "unknown"},
            from: Connectors \cup {Nobody}, box: Connectors \cup {Nowhere},
            cmd: Cmds \cup {NoCmd}, res: Results \cup {"none"}, live: BOOLEAN]
Worker == [pc: {"load", "handshake", "request", "wait", "record", "begin",
                "execute", "save", "clear"},
           cmd: Cmds \cup {NoCmd}, res: Results \cup {"none"}, at: Handlers \cup {NoHandler}]
Entry == [state: {"none", "executing", "result"}, cmd: Cmds \cup {NoCmd},
          res: Results \cup {"none"}]

\* Everything has its type, and no mailbox queue outgrows its capacity.
TypeOK ==
  /\ up \in BOOLEAN /\ epoch \in Nat /\ current \in Connectors \cup {Nobody}
  /\ box \in [Connectors -> Mailbox]
  /\ \A k \in Connectors : Len(box[k].queue) <= MaxAdmitted
  /\ sender \in [Cmds -> Sender]
  /\ reply \in [Cmds -> Answers \cup {"none"}]
  /\ told \in [Cmds -> Answers \cup {"none"}]
  /\ handler \in [Handlers -> Handler]
  /\ worker \in [Connectors -> Worker]
  /\ journal \in [Connectors -> Entry]
  /\ ran \in [Cmds -> {"no", "running", "ok", "failed"}]
  /\ losses \in Nat

NothingPending == [c \in Cmds |-> "no"]
OpenBox == [open |-> TRUE, pending |-> NothingPending, queue |-> <<>>, seen |-> "never"]
ClosedBox == [OpenBox EXCEPT !.open = FALSE]
FreeHandler == [stage |-> "free", from |-> Nobody, box |-> Nowhere, cmd |-> NoCmd,
                res |-> "none", live |-> TRUE]
Loading == [pc |-> "load", cmd |-> NoCmd, res |-> "none", at |-> NoHandler]
NoEntry == [state |-> "none", cmd |-> NoCmd, res |-> "none"]

Init ==
  /\ up = TRUE /\ epoch = 0 /\ current = Nobody
  /\ box = [k \in Connectors |-> ClosedBox]
  /\ sender = [c \in Cmds |-> [pc |-> "idle", epoch |-> 0, box |-> Nowhere]]
  /\ reply = [c \in Cmds |-> "none"]
  /\ told = [c \in Cmds |-> "none"]
  /\ handler = [h \in Handlers |-> FreeHandler]
  /\ worker = [k \in Connectors |-> Loading]
  /\ journal = [k \in Connectors |-> NoEntry]
  /\ ran = [c \in Cmds |-> "no"]
  /\ losses = 0

-----------------------------------------------------------------------------
(* The mailbox *)

Admitted(k) == {c \in Cmds : box[k].pending[c] # "no"}
InFlight(k) == {c \in Cmds : box[k].pending[c] \in {"executing", "completing"}}

Live(k) == k \in Connectors /\ box[k].open /\ box[k].seen = "live"

\* Mutant: everything pending is refused.
RepliesAllNever(ks) ==
  [c \in Cmds |-> IF reply[c] # "none" \/ \A k \in ks : c \notin Admitted(k)
                  THEN reply[c] ELSE "never"]

\* stopMailbox of all these: what is queued never runs, the rest is unknown.
RepliesOnClose(ks) ==
  [c \in Cmds |->
     IF reply[c] # "none" \/ \A k \in ks : c \notin Admitted(k) THEN reply[c]
     ELSE IF \E k \in ks : c \in InFlight(k) THEN "unknown" ELSE "never"]

Detached(users, ks) ==
  [u \in DOMAIN users |-> IF users[u].box \in ks THEN [users[u] EXCEPT !.box = Nowhere]
                                                 ELSE users[u]]

-----------------------------------------------------------------------------
(* Callers: NodeBridge.sendBound and CommandBroker.send *)

Serving(c) == up /\ sender[c].epoch = epoch

\* The lifecycle gate is held for the whole send.
GateFree(c) ==
  Gated => \A d \in Cmds : sender[d].pc \in {"offer", "await"}
                              => sender[d].epoch # sender[c].epoch

Tell(c, answer) == told' = [told EXCEPT ![c] = IF @ = "none" THEN answer ELSE @]

\* The caller leaves: ensuring(removePending), and the gate is free again.
End(c, answer) ==
  /\ Tell(c, answer)
  /\ sender' = [sender EXCEPT ![c].pc = "done", ![c].box = Nowhere]
  /\ box' = IF sender[c].box = Nowhere THEN box
            ELSE [box EXCEPT ![sender[c].box].pending[c] = "no"]

\* A process without a bridge forwards to an owner it cannot reach.
Send(c) ==
  /\ sender[c].pc = "idle"
  /\ \/ /\ up
        /\ sender' = [sender EXCEPT ![c].pc = "gate", ![c].epoch = epoch]
        /\ UNCHANGED told
     \/ /\ ~up
        /\ sender' = [sender EXCEPT ![c].pc = "done"]
        /\ Tell(c, "unknown")
  /\ UNCHANGED <<bridge, box, reply, handler, browser, losses>>

\* A command is admitted by a live connector that is not full, else refused.
Reserve(c) ==
  LET admitted == Serving(c) /\ Live(current) /\ Cardinality(Admitted(current)) < MaxAdmitted
  IN /\ sender[c].pc = "gate" /\ GateFree(c)
     /\ \/ /\ admitted
           /\ box' = [box EXCEPT ![current].pending[c] = "queued"]
           /\ sender' = [sender EXCEPT ![c].pc = "offer", ![c].box = current]
           /\ UNCHANGED told
        \/ /\ ~admitted
           /\ End(c, "never")
     /\ UNCHANGED <<bridge, reply, handler, browser, losses>>

\* Mutant: the queue takes everything.
OfferAlways(c) ==
  LET k == sender[c].box
  IN /\ sender[c].pc = "offer"
     /\ \/ /\ k # Nowhere
           /\ box' = [box EXCEPT ![k].queue = Append(@, c)]
           /\ sender' = [sender EXCEPT ![c].pc = "await"]
           /\ UNCHANGED told
        \/ /\ k = Nowhere
           /\ End(c, "never")
     /\ UNCHANGED <<bridge, reply, handler, browser, losses>>

\* The queue drops what does not fit: withdrawn commands still take its room.
Offer(c) ==
  LET k == sender[c].box
      fits == k # Nowhere /\ Len(box[k].queue) < MaxAdmitted
  IN /\ sender[c].pc = "offer"
     /\ \/ /\ fits
           /\ box' = [box EXCEPT ![k].queue = Append(@, c)]
           /\ sender' = [sender EXCEPT ![c].pc = "await"]
           /\ UNCHANGED told
        \/ /\ ~fits
           /\ End(c, "never")
     /\ UNCHANGED <<bridge, reply, handler, browser, losses>>

Receive(c) ==
  /\ sender[c].pc = "await" /\ reply[c] # "none"
  /\ End(c, reply[c])
  /\ UNCHANGED <<bridge, reply, handler, browser, losses>>

\* withdrawQueued
Withdraw(c) ==
  IF sender[c].box # Nowhere /\ box[sender[c].box].pending[c] = "queued"
  THEN "never" ELSE "unknown"

\* Mutant: there is no deadline for a command that was delivered.
GiveUpQueued(c) ==
  /\ sender[c].pc \in {"offer", "await"} /\ Withdraw(c) = "never"
  /\ End(c, "never")
  /\ UNCHANGED <<bridge, reply, handler, browser, losses>>

\* The reply deadline, or the caller cancels. It may race with the reply.
GiveUp(c) ==
  /\ sender[c].pc \in {"offer", "await"}
  /\ End(c, Withdraw(c))
  /\ UNCHANGED <<bridge, reply, handler, browser, losses>>

\* The caller cancels while it waits for the gate, where there is no deadline.
Cancel(c) ==
  /\ sender[c].pc = "gate"
  /\ End(c, "never")
  /\ UNCHANGED <<bridge, reply, handler, browser, losses>>

\* The caller is another process and its request to the bridge fails; the
\* bridge does not know yet and goes on.
Disconnect(c) ==
  /\ losses < MaxLosses
  /\ sender[c].pc \in {"gate", "offer", "await"} /\ told[c] = "none"
  /\ Tell(c, "unknown")
  /\ losses' = losses + 1
  /\ UNCHANGED <<bridge, box, sender, reply, handler, browser>>

-----------------------------------------------------------------------------
(* Requests at the bridge: handlePoll and CommandBroker.next *)

Handle(h, st) == handler' = [handler EXCEPT ![h] = st]

\* Without a command the response is "none".
Served(h, c) == [handler[h] EXCEPT !.stage = "serve", !.box = Nowhere, !.cmd = c]

PermitFree(k) ==
  \A h \in Handlers : handler[h].box = k => handler[h].stage \notin {"take", "claim"}

\* The poll refreshes the lease of the connector, if its mailbox is there.
Connect(h) ==
  LET k == handler[h].from
  IN /\ handler[h].stage = "poll"
     /\ \/ /\ up /\ box[k].open
           /\ box' = [box EXCEPT ![k].seen = "live"]
           /\ Handle(h, [handler[h] EXCEPT !.stage = "permit", !.box = k])
        \/ /\ ~(up /\ box[k].open)
           /\ Handle(h, Served(h, NoCmd))
           /\ UNCHANGED box
     /\ UNCHANGED <<bridge, callers, browser, losses>>

\* Mutant: a poll does not look at what is in flight.
PermitAlways(h) ==
  LET k == handler[h].box
  IN /\ handler[h].stage = "permit"
     /\ k = Nowhere \/ PermitFree(k)
     /\ Handle(h, IF k = Nowhere THEN Served(h, NoCmd)
                  ELSE [handler[h] EXCEPT !.stage = "take"])
     /\ UNCHANGED <<bridge, box, callers, browser, losses>>

\* One poll at a time holds the delivery permit, and it gets nothing as long as
\* another command is in flight.
Permit(h) ==
  LET k == handler[h].box
  IN /\ handler[h].stage = "permit"
     /\ k = Nowhere \/ PermitFree(k)
     /\ Handle(h, IF k = Nowhere \/ InFlight(k) # {} THEN Served(h, NoCmd)
                  ELSE [handler[h] EXCEPT !.stage = "take"])
     /\ UNCHANGED <<bridge, box, callers, browser, losses>>

Take(h) ==
  LET k == handler[h].box
  IN /\ handler[h].stage = "take" /\ k # Nowhere /\ box[k].queue # <<>>
     /\ Handle(h, [handler[h] EXCEPT !.stage = "claim", !.cmd = Head(box[k].queue)])
     /\ box' = [box EXCEPT ![k].queue = Tail(@)]
     /\ UNCHANGED <<bridge, callers, browser, losses>>

\* Mutant: a command that was withdrawn is delivered all the same.
ClaimAny(h) ==
  LET k == handler[h].box
      c == handler[h].cmd
  IN /\ handler[h].stage = "claim" /\ k # Nowhere
     /\ box' = [box EXCEPT ![k].pending[c] = "executing"]
     /\ Handle(h, Served(h, c))
     /\ UNCHANGED <<bridge, callers, browser, losses>>

\* Only a command that is still pending is delivered.
Claim(h) ==
  LET k == handler[h].box
      c == handler[h].cmd
  IN /\ handler[h].stage = "claim" /\ k # Nowhere
     /\ \/ /\ c \in Admitted(k)
           /\ box' = [box EXCEPT ![k].pending[c] = "executing"]
           /\ Handle(h, Served(h, c))
        \/ /\ c \notin Admitted(k)
           /\ Handle(h, [handler[h] EXCEPT !.stage = "take", !.cmd = NoCmd])
           /\ UNCHANGED box
     /\ UNCHANGED <<bridge, callers, browser, losses>>

\* The poll deadline or the end of the mailbox wins the race. A command that
\* was taken and not yet claimed is in nobody's hands then.
PollEnds(h) ==
  /\ handler[h].stage \in {"take", "claim"}
  /\ Handle(h, Served(h, NoCmd))
  /\ UNCHANGED <<bridge, box, callers, browser, losses>>

\* handleResult and CommandBroker.complete, which cannot be interrupted: only a
\* command in flight is completed.
Complete(h) ==
  LET k == handler[h].from
      c == handler[h].cmd
      inTime == up /\ box[k].open /\ box[k].pending[c] = "executing"
  IN /\ handler[h].stage = "result"
     /\ \/ /\ inTime
           /\ box' = [box EXCEPT ![k].pending[c] = "completing", ![k].seen = "live"]
           /\ Handle(h, [handler[h] EXCEPT !.stage = "completing", !.box = k])
        \/ /\ ~inTime
           /\ Handle(h, [handler[h] EXCEPT !.stage = "unknown"])
           /\ UNCHANGED box
     /\ UNCHANGED <<bridge, callers, browser, losses>>

\* Mutant: the result is acknowledged and nobody gets it.
AcknowledgeOnly(h) ==
  LET k == handler[h].box
      c == handler[h].cmd
  IN /\ handler[h].stage = "completing"
     /\ box' = IF k = Nowhere THEN box ELSE [box EXCEPT ![k].pending[c] = "no"]
     /\ Handle(h, [handler[h] EXCEPT !.stage = "acknowledged", !.box = Nowhere])
     /\ UNCHANGED <<bridge, callers, browser, losses>>

Acknowledge(h) ==
  LET k == handler[h].box
      c == handler[h].cmd
  IN /\ handler[h].stage = "completing"
     /\ reply' = [reply EXCEPT ![c] = IF @ = "none" THEN handler[h].res ELSE @]
     /\ box' = IF k = Nowhere THEN box ELSE [box EXCEPT ![k].pending[c] = "no"]
     /\ Handle(h, [handler[h] EXCEPT !.stage = "acknowledged", !.box = Nowhere])
     /\ UNCHANGED <<bridge, sender, told, browser, losses>>

\* The connection of an abandoned request closes and interrupts its handler.
Interrupt(h) ==
  /\ handler[h].stage \notin {"free", "completing"} /\ ~handler[h].live
  /\ Handle(h, FreeHandler)
  /\ UNCHANGED <<bridge, box, callers, browser, losses>>

-----------------------------------------------------------------------------
(* The worker: connectorRuntimeStep, in a loop *)

Work(k, st) == worker' = [worker EXCEPT ![k] = st]

\* An execution that a killed worker had begun becomes an unknown outcome.
LoadJournal(k) ==
  /\ worker[k].pc = "load"
  /\ Work(k, [Loading EXCEPT !.pc = "handshake"])
  /\ journal' = [journal EXCEPT ![k] =
       IF @.state = "executing" THEN [@ EXCEPT !.state = "result", !.res = "unknown"] ELSE @]
  /\ UNCHANGED <<bridge, box, callers, handler, ran, losses>>

\* The handshake of every request: ConnectorOwner.adopt. A live connector is
\* not replaced; another one is, and its mailbox is dropped.
Adopt(k) ==
  /\ worker[k].pc = "handshake" /\ up
  /\ \/ /\ current # k /\ Live(current)
        /\ Work(k, Loading)
        /\ UNCHANGED <<current, box, sender, reply, handler>>
     \/ /\ current = k
        /\ Work(k, [worker[k] EXCEPT !.pc = "request"])
        /\ UNCHANGED <<current, box, sender, reply, handler>>
     \/ /\ current # k /\ ~Live(current)
        /\ LET closed == {current} \cap Connectors
           IN /\ box' = [b \in Connectors |-> IF b = k THEN OpenBox
                                              ELSE IF b \in closed THEN ClosedBox ELSE box[b]]
              /\ reply' = RepliesOnClose(closed)
              /\ sender' = Detached(sender, closed)
              /\ handler' = Detached(handler, closed)
        /\ current' = k
        /\ Work(k, [worker[k] EXCEPT !.pc = "request"])
  /\ UNCHANGED <<up, epoch, told, journal, ran, losses>>

\* The request itself, or its refusal because another connector was adopted.
Request(k) ==
  /\ worker[k].pc = "request"
  /\ \/ /\ up /\ current = k
        /\ \E h \in Handlers :
             /\ handler[h].stage = "free"
             /\ Handle(h, IF journal[k].state = "none"
                          THEN [FreeHandler EXCEPT !.stage = "poll", !.from = k]
                          ELSE [FreeHandler EXCEPT !.stage = "result", !.from = k,
                                  !.cmd = journal[k].cmd, !.res = journal[k].res])
             /\ Work(k, [worker[k] EXCEPT !.pc = "wait", !.at = h])
     \/ /\ ~(up /\ current = k)
        /\ Work(k, Loading)
        /\ UNCHANGED handler
  /\ UNCHANGED <<bridge, box, callers, journal, ran, losses>>

\* Mutant: only an acknowledgement ends the delivery of a result.
RespondRetrying(h) ==
  LET k == handler[h].from
  IN /\ handler[h].stage \in {"serve", "acknowledged", "unknown"} /\ handler[h].live
     /\ Handle(h, FreeHandler)
     /\ Work(k, IF handler[h].stage = "acknowledged" THEN [Loading EXCEPT !.pc = "clear"]
                ELSE IF handler[h].cmd = NoCmd \/ handler[h].stage = "unknown" THEN Loading
                ELSE [Loading EXCEPT !.pc = "record", !.cmd = handler[h].cmd])
     /\ UNCHANGED <<bridge, box, callers, journal, ran, losses>>

\* The response arrives. A result is done with when it is acknowledged or when
\* the bridge does not know the command any more.
Respond(h) ==
  LET k == handler[h].from
  IN /\ handler[h].stage \in {"serve", "acknowledged", "unknown"} /\ handler[h].live
     /\ Handle(h, FreeHandler)
     /\ Work(k, IF handler[h].stage # "serve" THEN [Loading EXCEPT !.pc = "clear"]
                ELSE IF handler[h].cmd = NoCmd THEN Loading
                ELSE [Loading EXCEPT !.pc = "record", !.cmd = handler[h].cmd])
     /\ UNCHANGED <<bridge, box, callers, journal, ran, losses>>

Record(k) ==
  /\ worker[k].pc = "record"
  /\ journal' = [journal EXCEPT ![k] =
                   [state |-> "executing", cmd |-> worker[k].cmd, res |-> "none"]]
  /\ Work(k, [worker[k] EXCEPT !.pc = "begin"])
  /\ UNCHANGED <<bridge, box, callers, handler, ran, losses>>

Begin(k) ==
  /\ worker[k].pc = "begin"
  /\ ran' = [ran EXCEPT ![worker[k].cmd] = "running"]
  /\ Work(k, [worker[k] EXCEPT !.pc = "execute"])
  /\ UNCHANGED <<bridge, box, callers, handler, journal, losses>>

\* A value outside the contract of its operation is an unknown outcome.
Finish(k) ==
  /\ worker[k].pc = "execute"
  /\ \E outcome \in {"ok", "failed"} : \E res \in {outcome, "unknown"} :
       /\ ran' = [ran EXCEPT ![worker[k].cmd] = outcome]
       /\ Work(k, [worker[k] EXCEPT !.pc = "save", !.res = res])
  /\ UNCHANGED <<bridge, box, callers, handler, journal, losses>>

Save(k) ==
  /\ worker[k].pc = "save"
  /\ journal' = [journal EXCEPT ![k] = [@ EXCEPT !.state = "result", !.res = worker[k].res]]
  /\ Work(k, Loading)
  /\ UNCHANGED <<bridge, box, callers, handler, ran, losses>>

Clear(k) ==
  /\ worker[k].pc = "clear"
  /\ journal' = [journal EXCEPT ![k] = NoEntry]
  /\ Work(k, Loading)
  /\ UNCHANGED <<bridge, box, callers, handler, ran, losses>>

-----------------------------------------------------------------------------
(* Time and failures *)

\* CONNECTOR_LEASE_DEADLINE_MS since the last poll or result.
Expire(k) ==
  /\ Live(k)
  /\ box' = [box EXCEPT ![k].seen = "stale"]
  /\ UNCHANGED <<bridge, callers, handler, browser, losses>>

\* Whatever the worker was waiting for is abandoned; its handler goes on until
\* the bridge notices.
Abandoned(k) ==
  [h \in Handlers |-> IF h = worker[k].at THEN [handler[h] EXCEPT !.live = FALSE]
                      ELSE handler[h]]

\* A request is lost on its way or back, or reaches its deadline.
RequestFails(k) ==
  /\ losses < MaxLosses
  /\ worker[k].pc \in {"request", "wait"}
  /\ Work(k, Loading)
  /\ handler' = Abandoned(k)
  /\ losses' = losses + 1
  /\ UNCHANGED <<bridge, box, callers, journal, ran>>

\* The service worker is killed; Chrome starts it again.
KillWorker(k) ==
  /\ losses < MaxLosses
  /\ worker[k].pc # "load"
  /\ Work(k, Loading)
  /\ handler' = Abandoned(k)
  /\ losses' = losses + 1
  /\ UNCHANGED <<bridge, box, callers, journal, ran>>

\* The connections of a bridge that ends are closed.
Disconnected == [k \in Connectors |-> IF worker[k].pc = "wait" THEN Loading ELSE worker[k]]

\* NodeBridge.stop: the handlers are interrupted, but not one that completes.
Stop ==
  /\ up /\ losses < MaxLosses
  /\ up' = FALSE /\ current' = Nobody
  /\ box' = [k \in Connectors |-> ClosedBox]
  /\ reply' = RepliesOnClose(Connectors)
  /\ sender' = Detached(sender, Connectors)
  /\ handler' = [h \in Handlers |->
       IF handler[h].stage = "completing"
       THEN [handler[h] EXCEPT !.box = Nowhere, !.live = FALSE] ELSE FreeHandler]
  /\ worker' = Disconnected
  /\ losses' = losses + 1
  /\ UNCHANGED <<epoch, told, journal, ran>>

\* The process of the bridge ends. Callers in other processes are not answered.
Crash ==
  LET lost == {c \in Cmds : sender[c].pc \in {"gate", "offer", "await"} /\ Serving(c)}
  IN /\ up /\ losses < MaxLosses
     /\ up' = FALSE /\ current' = Nobody
     /\ box' = [k \in Connectors |-> ClosedBox]
     /\ sender' = [c \in Cmds |-> IF c \in lost THEN [sender[c] EXCEPT !.pc = "done", !.box = Nowhere]
                                  ELSE sender[c]]
     /\ told' = [c \in Cmds |-> IF c \in lost /\ told[c] = "none" THEN "unknown" ELSE told[c]]
     /\ handler' = [h \in Handlers |-> FreeHandler]
     /\ worker' = Disconnected
     /\ losses' = losses + 1
     /\ UNCHANGED <<epoch, reply, journal, ran>>

\* Another process binds the port, with a broker that knows nothing.
Promote ==
  /\ ~up
  /\ up' = TRUE /\ epoch' = epoch + 1
  /\ UNCHANGED <<current, box, callers, handler, browser, losses>>

Caller(c) == Reserve(c) \/ Offer(c) \/ Receive(c) \/ GiveUp(c)

Requests(h) ==
  \/ Connect(h) \/ Permit(h) \/ Take(h) \/ Claim(h) \/ PollEnds(h)
  \/ Complete(h) \/ Acknowledge(h) \/ Interrupt(h) \/ Respond(h)

Loop(k) ==
  \/ LoadJournal(k) \/ Adopt(k) \/ Request(k)
  \/ Record(k) \/ Begin(k) \/ Finish(k) \/ Save(k) \/ Clear(k)

Next ==
  \/ \E c \in Cmds : Send(c) \/ Caller(c) \/ Cancel(c) \/ Disconnect(c)
  \/ \E h \in Handlers : Requests(h)
  \/ \E k \in Connectors : Loop(k) \/ Expire(k) \/ RequestFails(k) \/ KillWorker(k)
  \/ Stop \/ Crash \/ Promote

Spec == Init /\ [][Next]_vars

-----------------------------------------------------------------------------
(* Properties *)

Abstract == INSTANCE ChromeCommand
              WITH Cmds <- Cmds, told <- told, ran <- ran

\* Whatever requests are lost, workers killed, bridges replaced and callers
\* gone: a command runs at most once, it never runs after its caller was told
\* that it would not, and a success or a failure is reported only if the browser
\* had it (the withdrawal, the claim, the journal and the closing of mailboxes).
PromiseKept == Abstract!Spec

\* A mailbox has at most one command in flight, even when responses are lost
\* and stale polls are still waiting ("single-flight result delivery").
OneInFlight == \A k \in Connectors : Cardinality(InFlight(k)) <= 1

\* What the browser has done is not forgotten before the caller has an answer
\* or is certain to get one.
NoResultIsDropped ==
  \A c \in Cmds : ran[c] \in {"ok", "failed"} =>
    \/ told[c] # "none" \/ reply[c] # "none"
    \/ \E k \in Connectors : journal[k].cmd = c
    \/ \E h \in Handlers : handler[h].stage = "completing" /\ handler[h].cmd = c

-----------------------------------------------------------------------------
(* Liveness *)

\* Every program goes on by itself: sends have a deadline, polls end, closed
\* connections interrupt their handlers, storage calls are retried until they
\* succeed, the browser answers, and another process takes the port.
Fairness ==
  /\ \A c \in Cmds : WF_vars(Caller(c))
  /\ \A h \in Handlers : WF_vars(Requests(h))
  /\ \A k \in Connectors : WF_vars(Loop(k))
  /\ WF_vars(Promote)

FairSpec == Spec /\ Fairness

\* Every caller gets an answer, whatever happens to the others before it at the
\* gate and to the bridge.
EverySendEnds == \A c \in Cmds : sender[c].pc # "idle" ~> sender[c].pc = "done"

\* A journaled result is delivered or given up, so the worker polls again (with
\* failures that end and no other connector in its place).
ResultsDrain ==
  \A k \in Connectors : journal[k].state # "none" ~> journal[k].state = "none"
=============================================================================
