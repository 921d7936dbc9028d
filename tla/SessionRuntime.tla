--------------------------- MODULE SessionRuntime ---------------------------
(***************************************************************************)
(* One session of the server: the slot that SessionRuntimeRegistry keeps   *)
(* for it, the runtimes started for it one after the other, the operation  *)
(* slot of each, and the prompt requests their ledger makes idempotent.    *)
(*                                                                         *)
(* Actors: the HTTP calls, which start, wait for, use and restart the      *)
(* runtime; each runtime, which loads the file of the session, is          *)
(* installed, runs operations and closes; the server, which shuts down or  *)
(* crashes and comes back. A runtime reads the file once, when it loads:   *)
(* afterwards it knows what it read (seen) and what it wrote itself.       *)
(***************************************************************************)
EXTENDS Naturals, FiniteSets, PromptLedger

CONSTANTS
  Calls,        \* HTTP calls, each made once
  Requests,     \* request ids of prompts
  Payloads,     \* inputs of prompts
  Kinds,        \* what the calls may ask for
  NoRequest,    \* no prompt
  MaxRuntimes,  \* bound: runtimes started
  MaxCrashes    \* bound: ends of the server

ASSUME NoRequestAssumption == NoRequest \notin Requests
ASSUME PayloadsAssumption == Payloads # {}
ASSUME KindsAssumption == Kinds \subseteq {"prompt", "progress", "operation", "restart"}
ASSUME BoundsAssumption == MaxRuntimes \in Nat \ {0} /\ MaxCrashes \in Nat

Runtimes == 1 .. MaxRuntimes

VARIABLES
  accepting,  \* the registry accepts sessions
  slot,       \* its slot for the session
  phase,      \* the life of each runtime
  op,         \* the operation slot of each runtime
  seen,       \* the ledger as each runtime loaded it
  ledger,     \* the ledger in the file
  call,       \* the HTTP calls
  ran,        \* which runtime executed which request (history)
  overlap,    \* runtimes not yet closed when each one loaded (history)
  crashes     \* ends of the server so far (bound)

vars == <<accepting, slot, phase, op, seen, ledger, call, ran, overlap, crashes>>

-----------------------------------------------------------------------------
(* Types *)

Slot == [tag : {"none"}, rt : {0}] \cup [tag : {"starting", "active"}, rt : Runtimes]
Free == [tag |-> "none", rt |-> 0]

Phases == {"unused", "creating", "loaded", "open", "draining", "disposing",
           "closed", "failed"}

\* dead: begun on a runtime whose fibers are closed, so it never runs.
Stages == {"idle", "begun", "accepted", "dead", "other"}
Operation == [stage : Stages, req : Requests \cup {NoRequest}]
Idle == [stage |-> "idle", req |-> NoRequest]

Answers == {"none", "accepted", "completed", "failed", "inDoubt", "mismatch",
            "busy", "missing", "rejected", "ok", "gone"}
Call == [pc : {"idle", "start", "wait", "join", "held", "accept", "attach",
               "attaching", "follow", "closing", "done"},
         kind : Kinds \cup {"restart"}, req : Requests \cup {NoRequest}, pay : Payloads,
         rt : 0 .. MaxRuntimes, on : 0 .. MaxRuntimes, ans : Answers]

\* A call that has not been made; its fields mean nothing yet.
Unmade == [pc |-> "idle", kind |-> "restart", req |-> NoRequest,
           pay |-> CHOOSE p \in Payloads : TRUE, rt |-> 0, on |-> 0, ans |-> "none"]

Record == [req : Requests, pay : Payloads, rt : Runtimes, done : BOOLEAN]

Opened == {"open", "draining", "disposing", "closed"}
Live == {"begun", "accepted"}

\* What the session manager of runtime e holds.
View(e) == seen[e] \cup {r \in ledger : r.rt = e}

\* promptRequests of runtime e: the prompt it is executing.
Executing(e, req) == op[e].stage \in Live /\ op[e].req = req

-----------------------------------------------------------------------------
(* How a call goes on *)

\* A call that has ended keeps what it was told of its request.
End(r, ans) ==
  LET told == ans \in {"accepted", "completed", "inDoubt", "mismatch"}
  IN  [Unmade EXCEPT !.pc = "done", !.ans = ans,
         !.req = IF told THEN r.req ELSE @, !.pay = IF told THEN r.pay ELSE @]

\* registry.active: the handle, the start in progress, or nothing.
Active(r) ==
  CASE slot.tag = "active" -> [r EXCEPT !.pc = "held", !.rt = slot.rt]
    [] slot.tag = "starting" -> [r EXCEPT !.pc = "join", !.rt = slot.rt]
    [] OTHER -> End(r, "missing")

\* After a start: a restart is over, any other call looks the slot up again.
Started(r) == IF r.kind = "restart" THEN End(r, "ok") ELSE Active(r)

\* A prompt that was admitted returns its run, promptProgress follows it.
Admitted(r) == IF r.kind = "prompt" THEN End(r, "accepted") ELSE [r EXCEPT !.pc = "attach"]

Init ==
  /\ accepting = TRUE /\ slot = Free
  /\ phase = [e \in Runtimes |-> "unused"]
  /\ op = [e \in Runtimes |-> Idle]
  /\ seen = [e \in Runtimes |-> {}]
  /\ ledger = {}
  /\ call = [c \in Calls |-> Unmade]
  /\ ran = {}
  /\ overlap = [e \in Runtimes |-> {}]
  /\ crashes = 0

-----------------------------------------------------------------------------
(* Calls *)

runtimes == <<phase, op, seen, ledger, ran, overlap>>

\* A call arrives: a restart wants the runtime, any other takes the active
\* one or goes on to read the session in order to start one.
Arrive(c) ==
  /\ call[c].pc = "idle"
  /\ \E k \in Kinds, q \in Requests \cup {NoRequest}, p \in Payloads :
       /\ (q # NoRequest) <=> (k \in {"prompt", "progress"})
       /\ q # NoRequest \/ p = call[c].pay
       /\ LET r == [call[c] EXCEPT !.kind = k, !.req = q, !.pay = p]
          IN  call' = [call EXCEPT ![c] =
                IF k = "restart" \/ slot.tag = "active" THEN Active(r)
                ELSE [r EXCEPT !.pc = "start"]]
  /\ UNCHANGED <<accepting, slot, runtimes, crashes>>

\* The decision of registry.start.
Start(c) ==
  /\ call[c].pc = "start"
  /\ \/ /\ ~accepting
        /\ call' = [call EXCEPT ![c] = End(@, "rejected")]
        /\ UNCHANGED <<slot, phase>>
     \/ /\ accepting /\ slot.tag = "active"
        /\ call' = [call EXCEPT ![c] = Started(@)]
        /\ UNCHANGED <<slot, phase>>
     \/ /\ accepting /\ slot.tag = "starting"
        /\ call' = [call EXCEPT ![c].pc = "wait", ![c].on = slot.rt]
        /\ UNCHANGED <<slot, phase>>
     \/ /\ accepting /\ slot.tag = "none"
        /\ \E e \in Runtimes :
             /\ phase[e] = "unused" /\ \A d \in 1 .. e - 1 : phase[d] # "unused"
             /\ slot' = [tag |-> "starting", rt |-> e]
             /\ phase' = [phase EXCEPT ![e] = "creating"]
             /\ call' = [call EXCEPT ![c].pc = "wait", ![c].on = e]
  /\ UNCHANGED <<accepting, op, seen, ledger, ran, overlap, crashes>>

\* Mutant: a start that fails does not settle its Deferred
ResumeOnSuccess(c) ==
  /\ call[c].pc = "wait" /\ phase[call[c].on] \in Opened
  /\ call' = [call EXCEPT ![c] = Started([@ EXCEPT !.on = 0])]
  /\ UNCHANGED <<accepting, slot, runtimes, crashes>>

\* The Deferred of a start is settled: the caller of start looks the slot up.
Resume(c) ==
  /\ call[c].pc = "wait"
  /\ \/ /\ phase[call[c].on] \in Opened
        /\ call' = [call EXCEPT ![c] = Started([@ EXCEPT !.on = 0])]
     \/ /\ phase[call[c].on] = "failed"
        /\ call' = [call EXCEPT ![c] = End(@, "failed")]
  /\ UNCHANGED <<accepting, slot, runtimes, crashes>>

\* The same for a caller of active, which takes the handle as it is.
Join(c) ==
  /\ call[c].pc = "join"
  /\ \/ /\ phase[call[c].rt] \in Opened
        /\ call' = [call EXCEPT ![c].pc = "held"]
     \/ /\ phase[call[c].rt] = "failed"
        /\ call' = [call EXCEPT ![c] = End(@, "failed")]
  /\ UNCHANGED <<accepting, slot, runtimes, crashes>>

-----------------------------------------------------------------------------
(* Operations of a runtime *)

\* promptRequest under its lock: the prompt in execution, then the ledger,
\* then the operation slot, then the Started entry. The runtime may have
\* been closed since the call took its handle.
Admit(c) ==
  LET r == call[c]
      e == r.rt
      rec == [req |-> r.req, pay |-> r.pay, rt |-> e, done |-> FALSE]
      verdict == Decide(View(e), r.req, r.pay)
      answer(a) == /\ call' = [call EXCEPT ![c] = a]
                   /\ UNCHANGED <<op, ledger>>
  IN
  /\ r.pc = "held" /\ r.req # NoRequest
  /\ \/ /\ Executing(e, r.req)
        /\ answer(IF rec \in ledger THEN Admitted(r) ELSE End(r, "mismatch"))
     \/ /\ ~Executing(e, r.req) /\ verdict = "completed"
        /\ answer(Admitted(r))
     \/ /\ ~Executing(e, r.req) /\ verdict \in {"mismatch", "inDoubt"}
        /\ answer(End(r, verdict))
     \/ /\ ~Executing(e, r.req) /\ verdict = "begin" /\ op[e].stage # "idle"
        /\ answer(End(r, "busy"))
     \/ /\ ~Executing(e, r.req) /\ verdict = "begin" /\ op[e].stage = "idle"
        /\ answer(End(r, "failed"))  \* the Started entry cannot be written
     \/ /\ ~Executing(e, r.req) /\ verdict = "begin" /\ op[e].stage = "idle"
        /\ ledger' = ledger \cup {rec}
        /\ op' = [op EXCEPT ![e] =
             [req |-> r.req, stage |-> IF phase[e] = "closed" THEN "dead" ELSE "begun"]]
        /\ call' = [call EXCEPT ![c].pc = "accept"]
  /\ UNCHANGED <<accepting, slot, phase, seen, ran, overlap, crashes>>

\* Compaction or a shell command: one operation at a time. On a closed
\* runtime it takes the slot and never runs.
Operate(c) ==
  LET e == call[c].rt IN
  /\ call[c].pc = "held" /\ call[c].kind = "operation"
  /\ \/ /\ op[e].stage # "idle"
        /\ call' = [call EXCEPT ![c] = End(@, "busy")]
        /\ UNCHANGED op
     \/ /\ op[e].stage = "idle"
        /\ op' = [op EXCEPT ![e] =
             [Idle EXCEPT !.stage = IF phase[e] = "closed" THEN "dead" ELSE "other"]]
        /\ call' = [call EXCEPT ![c] = End(@, "ok")]
  /\ UNCHANGED <<accepting, slot, phase, seen, ledger, ran, overlap, crashes>>

\* The agent accepts the prompt and executes it.
Accept(e) ==
  /\ op[e].stage = "begun"
  /\ op' = [op EXCEPT ![e].stage = "accepted"]
  /\ ran' = ran \cup {<<op[e].req, e>>}
  /\ UNCHANGED <<accepting, slot, phase, seen, ledger, call, overlap, crashes>>

\* The agent is idle again: the Completed entry, then the slot is free.
Complete(e) ==
  /\ op[e].stage = "accepted"
  /\ ledger' = {IF r.rt = e /\ r.req = op[e].req THEN [r EXCEPT !.done = TRUE] ELSE r :
                r \in ledger}
  /\ op' = [op EXCEPT ![e] = Idle]
  /\ UNCHANGED <<accepting, slot, phase, seen, call, ran, overlap, crashes>>

\* The prompt is refused, or fails, or its completion cannot be written; or
\* another operation ends.
EndOperation(e) ==
  /\ op[e].stage \in Live \cup {"other"}
  /\ op' = [op EXCEPT ![e] = Idle]
  /\ UNCHANGED <<accepting, slot, phase, seen, ledger, call, ran, overlap, crashes>>

\* The call that began the prompt waits until the agent accepts it.
Accepted(c) ==
  /\ call[c].pc = "accept"
  /\ \/ /\ <<call[c].req, call[c].rt>> \in ran
        /\ call' = [call EXCEPT ![c] = Admitted(@)]
     \/ /\ <<call[c].req, call[c].rt>> \notin ran
        /\ op[call[c].rt].req # call[c].req
        /\ call' = [call EXCEPT ![c] = End(@, "failed")]
  /\ UNCHANGED <<accepting, slot, runtimes, crashes>>

\* promptProgress looks the runtime up once more for its events.
Attach(c) ==
  /\ call[c].pc = "attach"
  /\ call' = [call EXCEPT ![c] =
       CASE slot.tag = "active" -> [@ EXCEPT !.pc = "follow"]
         [] slot.tag = "starting" -> [@ EXCEPT !.pc = "attaching", !.on = slot.rt]
         [] OTHER -> End(@, "missing")]
  /\ UNCHANGED <<accepting, slot, runtimes, crashes>>

Attached(c) ==
  /\ call[c].pc = "attaching"
  /\ \/ /\ phase[call[c].on] \in Opened
        /\ call' = [call EXCEPT ![c].pc = "follow", ![c].on = 0]
     \/ /\ phase[call[c].on] = "failed"
        /\ call' = [call EXCEPT ![c] = End(@, "failed")]
  /\ UNCHANGED <<accepting, slot, runtimes, crashes>>

\* The completion of the request, from the runtime that admitted it.
Follow(c) ==
  LET r == call[c] IN
  /\ r.pc = "follow" /\ ~Executing(r.rt, r.req)
  /\ call' = [call EXCEPT ![c] =
       End(@, IF \E x \in View(r.rt) : x.req = r.req /\ x.done
              THEN "completed" ELSE "failed")]
  /\ UNCHANGED <<accepting, slot, runtimes, crashes>>

\* The client goes away where the handler can be interrupted.
Abandon(c) ==
  /\ call[c].pc \in {"start", "wait", "join", "held", "attaching", "follow"}
  /\ call' = [call EXCEPT ![c] = End(@, "gone")]
  /\ UNCHANGED <<accepting, slot, runtimes, crashes>>

-----------------------------------------------------------------------------
(* The life of a runtime *)

\* The session manager opens the file.
Load(e) ==
  /\ phase[e] = "creating"
  /\ phase' = [phase EXCEPT ![e] = "loaded"]
  /\ seen' = [seen EXCEPT ![e] = ledger]
  /\ overlap' = [overlap EXCEPT ![e] =
       {d \in Runtimes : phase[d] \in {"open", "draining", "disposing"}}]
  /\ UNCHANGED <<accepting, slot, op, ledger, call, ran, crashes>>

\* installHandle: only into the slot that was reserved for this start.
InstallableAlways(e) == TRUE  \* Mutant: installs whatever happened meanwhile
Installable(e) == accepting /\ slot = [tag |-> "starting", rt |-> e]

Install(e) ==
  /\ phase[e] = "loaded" /\ Installable(e)
  /\ slot' = [tag |-> "active", rt |-> e]
  /\ phase' = [phase EXCEPT ![e] = "open"]
  /\ UNCHANGED <<accepting, op, seen, ledger, call, ran, overlap, crashes>>

\* The start fails, or may not install: the reserved slot is given back.
StartFails(e) ==
  /\ phase[e] \in {"creating", "loaded"}
  /\ phase' = [phase EXCEPT ![e] = "failed"]
  /\ slot' = IF slot = [tag |-> "starting", rt |-> e] THEN Free ELSE slot
  /\ UNCHANGED <<accepting, op, seen, ledger, call, ran, overlap, crashes>>

\* closeHandle: the last finalizer, which frees the slot, runs first.
Released(e) == IF slot = [tag |-> "active", rt |-> e] THEN Free ELSE slot

\* Ten minutes without an event, changed packages, a fork or a removal.
Close(e) ==
  /\ phase[e] = "open"
  /\ phase' = [phase EXCEPT ![e] = "draining"]
  /\ slot' = Released(e)
  /\ UNCHANGED <<accepting, op, seen, ledger, call, ran, overlap, crashes>>

\* restart closes the handle it took. Only the first to close it waits.
Restart(c) ==
  LET e == call[c].rt IN
  /\ call[c].pc = "held" /\ call[c].kind = "restart"
  /\ \/ /\ phase[e] = "open"
        /\ phase' = [phase EXCEPT ![e] = "draining"]
        /\ slot' = Released(e)
        /\ call' = [call EXCEPT ![c].pc = "closing"]
     \/ /\ phase[e] # "open"
        /\ call' = [call EXCEPT ![c].pc = "start", ![c].rt = 0]
        /\ UNCHANGED <<phase, slot>>
  /\ UNCHANGED <<accepting, op, seen, ledger, ran, overlap, crashes>>

\* dispose waits until no operation runs.
Drain(e) ==
  /\ phase[e] = "draining" /\ op[e].stage = "idle"
  /\ phase' = [phase EXCEPT ![e] = "disposing"]
  /\ UNCHANGED <<accepting, slot, op, seen, ledger, call, ran, overlap, crashes>>

\* The rest of the scope closes: an operation begun meanwhile is interrupted.
Dispose(e) ==
  /\ phase[e] = "disposing"
  /\ phase' = [phase EXCEPT ![e] = "closed"]
  /\ op' = [op EXCEPT ![e] = Idle]
  /\ UNCHANGED <<accepting, slot, seen, ledger, call, ran, overlap, crashes>>

\* The restart that closed the old runtime starts the next one.
Closed(c) ==
  /\ call[c].pc = "closing" /\ phase[call[c].rt] = "closed"
  /\ call' = [call EXCEPT ![c].pc = "start", ![c].rt = 0]
  /\ UNCHANGED <<accepting, slot, runtimes, crashes>>

-----------------------------------------------------------------------------
(* The server *)

Shutdown ==
  /\ accepting
  /\ crashes < MaxCrashes
  /\ accepting' = FALSE /\ slot' = Free
  /\ phase' = [e \in Runtimes |-> IF phase[e] = "open" THEN "draining" ELSE phase[e]]
  /\ UNCHANGED <<op, seen, ledger, call, ran, overlap, crashes>>

\* The process ends, after its shutdown or without one, and another starts.
Crash ==
  /\ crashes < MaxCrashes
  /\ crashes' = crashes + 1
  /\ accepting' = TRUE /\ slot' = Free
  /\ phase' = [e \in Runtimes |-> IF phase[e] \in Opened THEN "closed"
                                  ELSE IF phase[e] = "unused" THEN "unused" ELSE "failed"]
  /\ op' = [e \in Runtimes |-> Idle]
  /\ call' = [c \in Calls |->
       IF call[c].pc \in {"idle", "done"} THEN call[c] ELSE End(call[c], "gone")]
  /\ UNCHANGED <<seen, ledger, ran, overlap>>

Goes(c) ==
  \/ Start(c) \/ Resume(c) \/ Join(c)
  \/ Admit(c) \/ Operate(c) \/ Accepted(c) \/ Attach(c) \/ Attached(c)
  \/ Follow(c) \/ Restart(c) \/ Closed(c)

Runs(e) == Load(e) \/ Install(e) \/ Drain(e) \/ Dispose(e)
Works(e) == Accept(e) \/ Complete(e) \/ EndOperation(e)

Next ==
  \/ \E c \in Calls : Arrive(c) \/ Goes(c) \/ Abandon(c)
  \/ \E e \in Runtimes : Runs(e) \/ Works(e) \/ StartFails(e) \/ Close(e)
  \/ Shutdown \/ Crash

Spec == Init /\ [][Next]_vars

\* Handlers and runtimes go on; the agent ends what it runs; a start that
\* may not install any more gives up. Nobody has to call, close, fail or crash.
Fairness ==
  /\ \A c \in Calls : WF_vars(Goes(c))
  /\ \A e \in Runtimes :
       WF_vars(Runs(e)) /\ WF_vars(Works(e)) /\ WF_vars(~Installable(e) /\ StartFails(e))

FairSpec == Spec /\ Fairness

-----------------------------------------------------------------------------
(* Properties *)

\* The types of the variables; the ledger holds one record per request and
\* runtime, and a runtime knows at most what the file holds.
TypeOK ==
  /\ accepting \in BOOLEAN /\ slot \in Slot
  /\ phase \in [Runtimes -> Phases]
  /\ op \in [Runtimes -> Operation]
  /\ seen \in [Runtimes -> SUBSET Record]
  /\ ledger \subseteq Record
  /\ call \in [Calls -> Call]
  /\ ran \subseteq Requests \X Runtimes
  /\ overlap \in [Runtimes -> SUBSET Runtimes]
  /\ crashes \in 0 .. MaxCrashes
  /\ \A r, s \in ledger : r.req = s.req /\ r.rt = s.rt => r = s

\* No runtime is leaked and none is started beside another: the table names
\* exactly the runtime that is open, or the one that is on its way while the
\* registry accepts sessions, and after a shutdown none. Concerns start, installHandle, the finalizer
\* that frees the slot, the failure of a start and shutdown, in any order.
TableIsLive ==
  /\ \A e \in Runtimes : phase[e] = "open" <=> slot = [tag |-> "active", rt |-> e]
  /\ \A e \in Runtimes : phase[e] \in {"creating", "loaded"} /\ accepting
                         <=> slot = [tag |-> "starting", rt |-> e]
  /\ ~accepting => slot = Free

\* A request is executed by two runtimes only if the first was still draining
\* when the second loaded the file: in particular never again after a close
\* that was waited for, a crash or a restart of the server, however often it
\* is sent, with whatever input. Concerns decidePromptRequest over the
\* ledger and the order of the finalizers of a runtime.
RunsTwiceOnlyInOverlap ==
  \A q \in Requests : \A d, e \in Runtimes :
    d < e /\ <<q, d>> \in ran /\ <<q, e>> \in ran => d \in overlap[e]

\* What a call was told is true of its own input: completed means that the
\* ledger has the completion of this request with this input, accepted that
\* some runtime began it, a mismatch that it was begun with another input.
AnswersAreTrue ==
  \A c \in Calls :
    LET told(a) == call[c].pc = "done" /\ call[c].ans = a
        began == {r \in ledger : r.req = call[c].req}
    IN  /\ told("completed") => \E r \in began : r.pay = call[c].pay /\ r.done
        /\ told("accepted") => \E r \in began : r.pay = call[c].pay
        /\ told("mismatch") => \E r \in began : r.pay # call[c].pay
        /\ told("inDoubt") => \E r \in began : r.pay = call[c].pay

\* No runtime is left to start (bound).
Spent == slot = Free /\ \A e \in Runtimes : phase[e] # "unused"

\* A call that may wait forever: its prompt was admitted on a runtime that
\* had closed, where it is recorded and never runs; or the bound holds it.
Unending(c) ==
  \/ call[c].pc = "accept" /\ op[call[c].rt].stage = "dead"
  \/ call[c].pc = "start" /\ Spent

\* Every call ends, and a call that has ended stays so: whoever waits for a
\* start, a close, an acceptance or a completion is released, also when the
\* runtime it waits for fails, closes or is replaced.
EveryCallEnds ==
  []<>(\A c \in Calls : call[c].pc \in {"idle", "done"} \/ Unending(c))
=============================================================================
