---------------------------- MODULE SessionClient ----------------------------
(***************************************************************************)
(* A browser tab on a session: the reducer of features/session/            *)
(* session-ui-state.ts, the loops of session-controller.ts that feed it    *)
(* (snapshot then event stream, snapshot every 15 seconds) and the sends   *)
(* and completion loads of hooks/useAgentSession.ts, against the server:   *)
(* the runtime of the session with its operation slot, run id and event    *)
(* window (pi-agent-adapter.ts) and the receipts of the session file       *)
(* (prompt-request.ts).                                                    *)
(*                                                                         *)
(* A run is named by its request: the ledger runs a request at most once   *)
(* (PromptLedger). The only runs are those of prompts: compactions, bash   *)
(* commands, dialogs and branches have no part in the properties here.     *)
(*                                                                         *)
(* A snapshot is read in two steps, the runtime and then the file, and may *)
(* be as late as the other loads in flight let it. A subscription replays  *)
(* any end of the event log: the window keeps 64 events, a run has         *)
(* hundreds.                                                               *)
(***************************************************************************)
EXTENDS Naturals, Sequences, SequencesExt

CONSTANTS
  Requests,      \* the prompts that are typed in this tab
  None,          \* null
  MaxRuntimes,   \* bound: runtimes of one server process
  MaxLoads,      \* bound: snapshot requests in flight
  MaxFailures    \* bound: lost connections and server restarts

ASSUME RequestsAssumption == None \notin Requests
ASSUME BoundsAssumption ==
  /\ MaxRuntimes \in Nat \ {0} /\ MaxLoads \in Nat \ {0} /\ MaxFailures \in Nat

VARIABLES
  runtime,   \* the active runtime of the session, its slot and run id
  started,   \* runtimes this server process has started
  log,       \* the events of the active runtime
  receipt,   \* the receipts of the session file
  ui,        \* SessionUiState
  post,      \* the POST of each request
  observer,  \* the loops of observeSession
  stream,    \* the open event stream: whose, and the events on their way
  loads,     \* snapshot requests in flight, oldest first
  handled,   \* handledCompletionRunIdRef
  failures   \* failures so far (bound)

server == <<runtime, started, log, receipt>>
vars == <<runtime, started, log, receipt, ui, post, observer, stream, loads,
          handled, failures>>

-----------------------------------------------------------------------------
(* Types *)

Runs == Requests \cup {None}
Identity == [registry : 0 .. MaxFailures, epoch : 1 .. MaxRuntimes]
Receipts == {"none", "started", "entered"}
NoReceipts == [q \in Requests |-> "none"]
Event == [type : {"activated"}, run : {None}]
           \cup [type : {"started", "message", "finished"}, run : Requests]
Snapshot == [id : Identity, run : Runs, busy : BOOLEAN]
Stage == {"idle", "admitted", "set", "running", "finished"}
Runtime == [id : Identity, run : Runs, op : Runs, stage : Stage]
Loaders == {"events", "reconcile", "completion"}
Load == [by : Loaders, stage : {"asked", "read", "answered", "failed"}, late : BOOLEAN,
         runtime : Snapshot \cup {None}, receipts : [Requests -> Receipts]]
Ui == [identity : Identity \cup {None}, pending : Runs, bound : Runs, run : Runs,
       terminal : Runs, completion : Runs, running : BOOLEAN, streaming : BOOLEAN,
       entries : SUBSET Requests]

Stream == [id : Identity, open : BOOLEAN, events : Seq(Event)]

ASSUME NoneAssumption == None \notin Runtime \cup Identity

TypeOK ==
  /\ runtime \in Runtime \cup {None}
  /\ started \in [registry : 0 .. MaxFailures, epoch : 0 .. MaxRuntimes]
  /\ log \in Seq(Event)
  /\ receipt \in [Requests -> Receipts]
  /\ ui \in Ui
  /\ post \in [Requests -> {"none", "sent", "waiting", "answered", "refused", "done"}]
  /\ observer \in [events : {"waiting", "loading", "connecting", "streaming"},
                   reconcile : {"waiting", "loading"}]
  /\ stream = None \/ stream \in Stream
  /\ loads \in Seq(Load)
  /\ handled \in Runs
  /\ failures \in 0 .. MaxFailures

-----------------------------------------------------------------------------
(* The reducer *)

EmptyUi ==
  [identity |-> None, pending |-> None, bound |-> None, run |-> None,
   terminal |-> None, completion |-> None, running |-> FALSE,
   streaming |-> FALSE, entries |-> {}]

\* The run whose events the reducer accepts.
ActiveRun(s) ==
  IF s.pending # None THEN s.bound
  ELSE IF s.run = s.terminal \/ (~s.running /\ ~s.streaming) THEN None
  ELSE s.run

\* Another runtime: all that is known of runs is forgotten.
InstallIdentity(s, id) ==
  [EmptyUi EXCEPT !.identity = id, !.entries = s.entries]

\* The run that the tab expects, if any.
Expected(s) == IF s.bound # None THEN s.bound ELSE s.run

\* A run other than the one expected.
Foreign(s, run) == Expected(s) # None /\ run # None /\ run # Expected(s)

\* The runtime of a snapshot, unless it says nothing of the pending prompt.
ApplyRuntime(s, rt) ==
  LET t == IF rt = None \/ s.identity = rt.id THEN s
           ELSE InstallIdentity(s, rt.id)
  IN  IF \/ rt = None
         \/ t.pending # None /\ rt.run \in {None, t.terminal}
         \/ Foreign(t, rt.run)
      THEN t
      ELSE [t EXCEPT
             !.run = rt.run,
             !.bound = IF t.pending = None THEN None ELSE rt.run,
             !.terminal = IF rt.run # None /\ ~rt.busy THEN rt.run
                          ELSE IF t.terminal = rt.run THEN None ELSE t.terminal,
             !.running = rt.busy, !.streaming = rt.busy]

\* Mutant: any receipt confirms the prompt.
ConfirmedByAny(s, receipts) ==
  IF s.pending = None \/ receipts[s.pending] = "none" THEN s
  ELSE [s EXCEPT !.pending = None, !.bound = None]

\* Mutant: the user message in the file is not looked at.
ConfirmedBinding(s, receipts) ==
  IF s.pending = None \/ receipts[s.pending] = "none" THEN s
  ELSE [s EXCEPT !.bound = s.pending]

\* The receipt of the pending prompt binds it to its run; once the file has
\* its user message, it is no longer pending.
Confirmed(s, receipts) ==
  IF s.pending = None \/ receipts[s.pending] = "none" THEN s
  ELSE IF receipts[s.pending] = "started" THEN [s EXCEPT !.bound = s.pending]
  ELSE [s EXCEPT !.pending = None, !.bound = None]

\* A snapshot, unless it is of another run of the same runtime.
Loaded(s, receipts, rt) ==
  LET t == Confirmed(s, receipts)
  IN  IF rt # None /\ s.identity = rt.id /\ Foreign(t, rt.run) THEN s
      ELSE ApplyRuntime([t EXCEPT !.entries = {q \in Requests :
                                                 receipts[q] = "entered"}], rt)

\* Whether an event of a runtime is of the runtime that the tab shows.
Accepts(s, id, e) ==
  /\ s.identity = id /\ e.type # "activated"
  /\ e.run # s.terminal
  /\ ActiveRun(s) \in {None, e.run}

\* A runtime that succeeds the one shown.
Succeeds(s, id) ==
  s.identity = None \/ (s.identity.registry = id.registry
                          /\ id.epoch > s.identity.epoch)

Handle(s, id, e) ==
  CASE e.type = "activated" -> IF Succeeds(s, id) THEN InstallIdentity(s, id) ELSE s
    [] e.type # "activated" /\ ~Accepts(s, id, e) -> s
    [] Accepts(s, id, e) /\ e.type = "started" ->
         [s EXCEPT !.run = e.run, !.running = TRUE, !.streaming = TRUE,
                   !.bound = IF s.pending = None THEN None ELSE e.run]
    [] Accepts(s, id, e) /\ e.type = "message" -> [s EXCEPT !.streaming = TRUE]
    [] Accepts(s, id, e) /\ e.type = "finished" ->
         IF ~s.running /\ ~s.streaming THEN s
         ELSE [s EXCEPT !.run = e.run, !.terminal = e.run, !.completion = e.run,
                        !.running = FALSE, !.streaming = FALSE]

PromptSubmitted(s, q) ==
  IF s.pending # None THEN s
  ELSE [s EXCEPT !.pending = q, !.bound = None, !.run = None,
                 !.completion = None, !.running = TRUE, !.streaming = TRUE]

PromptAccepted(s, q) ==
  IF s.pending # q \/ s.bound \notin {None, q} THEN s
  ELSE IF s.terminal = q THEN [s EXCEPT !.run = q, !.bound = q]
  ELSE [s EXCEPT !.run = q, !.bound = q, !.terminal = None,
                 !.completion = None, !.running = TRUE, !.streaming = TRUE]

PromptFailed(s) ==
  [s EXCEPT !.pending = None, !.bound = None, !.running = FALSE,
            !.streaming = FALSE]

-----------------------------------------------------------------------------
(* The server *)

NewRuntime(id) == [id |-> id, run |-> None, op |-> None, stage |-> "idle"]

\* Mutant: the epoch is used before it is counted up.
EnsuredTooEarly == IF runtime # None THEN runtime ELSE NewRuntime(started)

\* The runtime of the session, started if there is none (startExisting).
Ensured ==
  IF runtime # None THEN runtime
  ELSE NewRuntime([started EXCEPT !.epoch = @ + 1])

Ensure ==
  /\ runtime = None => started' = [started EXCEPT !.epoch = @ + 1] /\ log' = <<>>
  /\ runtime # None => UNCHANGED <<started, log>>

\* Every subscriber of the runtime gets the events.
Publish(events) ==
  /\ log' = log \o events
  /\ stream' = IF stream # None /\ stream.open
               THEN [stream EXCEPT !.events = @ \o events] ELSE stream

\* promptRequest: the request takes the slot and is recorded, or it is refused.
Admit(q) ==
  /\ post[q] = "sent"
  /\ Ensure
  /\ IF Ensured.op = None
     THEN /\ runtime' = [Ensured EXCEPT !.op = q, !.stage = "admitted"]
          /\ receipt' = [receipt EXCEPT ![q] = "started"]
          /\ post' = [post EXCEPT ![q] = "waiting"]
     ELSE /\ runtime' = Ensured /\ UNCHANGED receipt
          /\ post' = [post EXCEPT ![q] = "refused"]
  /\ UNCHANGED <<ui, observer, stream, loads, handled, failures>>

\* The execution: the run id is set, Pi accepts the prompt or rejects it
\* before it starts, and the caller hears of it.
Activate ==
  /\ runtime # None /\ runtime.stage = "admitted"
  /\ runtime' = [runtime EXCEPT !.stage = "set", !.run = runtime.op]
  /\ UNCHANGED <<started, log, receipt, ui, post, observer, stream, loads,
                 handled, failures>>

Answer(q, answer) ==
  post' = IF post[q] = "waiting" THEN [post EXCEPT ![q] = answer] ELSE post

\* The run starts, its user message is in the file, and the answer begins.
RunStarts ==
  /\ runtime # None /\ runtime.stage = "set"
  /\ runtime' = [runtime EXCEPT !.stage = "running"]
  /\ receipt' = [receipt EXCEPT ![runtime.op] = "entered"]
  /\ Publish(<<[type |-> "started", run |-> runtime.run],
               [type |-> "message", run |-> runtime.run]>>)
  /\ Answer(runtime.op, "answered")
  /\ UNCHANGED <<started, ui, observer, loads, handled, failures>>

RunFinishes ==
  /\ runtime # None /\ runtime.stage = "running"
  /\ runtime' = [runtime EXCEPT !.stage = "finished"]
  /\ Publish(<<[type |-> "finished", run |-> runtime.run]>>)
  /\ UNCHANGED <<started, receipt, ui, post, observer, loads, handled, failures>>

\* The slot is free again: after the run, or after a rejection or a failure of
\* the prompt, of which no event tells.
Release ==
  /\ runtime # None /\ runtime.stage \in {"set", "finished"}
  /\ runtime' = [runtime EXCEPT !.stage = "idle", !.op = None]
  /\ Answer(runtime.op, "refused")
  /\ UNCHANGED <<started, log, receipt, ui, observer, stream, loads, handled,
                 failures>>

\* An idle runtime expires, or is closed to restart.
Close ==
  /\ runtime # None /\ runtime.op = None /\ started.epoch < MaxRuntimes
  /\ runtime' = None
  /\ log' = <<>>
  /\ stream' = IF stream = None THEN None ELSE [stream EXCEPT !.open = FALSE]
  /\ UNCHANGED <<started, receipt, ui, post, observer, loads, handled, failures>>

-----------------------------------------------------------------------------
(* The tab *)

\* handleSend: the POST is sent even if the reducer ignores the submission.
Submit(q) ==
  /\ post[q] = "none" /\ ~ui.running
  /\ post' = [post EXCEPT ![q] = "sent"]
  /\ ui' = PromptSubmitted(ui, q)
  /\ UNCHANGED <<server, observer, stream, loads, handled, failures>>

Hear(q) ==
  /\ post[q] \in {"answered", "refused"}
  /\ post' = [post EXCEPT ![q] = "done"]
  /\ ui' = IF post[q] = "answered" THEN PromptAccepted(ui, q) ELSE PromptFailed(ui)
  /\ UNCHANGED <<server, observer, stream, loads, handled, failures>>

\* A snapshot is asked for, under the next request id.
Ask(by) ==
  /\ Len(loads) < MaxLoads
  /\ loads' = Append(loads, [by |-> by, stage |-> "asked", late |-> FALSE,
                             runtime |-> None, receipts |-> NoReceipts])

Start(loop) ==
  /\ observer[loop] = "waiting"
  /\ observer' = [observer EXCEPT ![loop] = "loading"]
  /\ Ask(loop)
  /\ UNCHANGED <<server, ui, post, stream, handled, failures>>

\* The effect on completionRunId.
LoadCompletion ==
  /\ ui.completion \notin {None, handled}
  /\ \A i \in DOMAIN loads : loads[i].by # "completion"
  /\ handled' = ui.completion
  /\ Ask("completion")
  /\ UNCHANGED <<server, ui, post, observer, stream, failures>>

\* The server reads the runtime, then the file; it starts no runtime for that.
ReadRuntime(i) ==
  /\ loads[i].stage = "asked"
  /\ loads' = [loads EXCEPT ![i].stage = "read", ![i].runtime =
                 IF runtime = None THEN None
                 ELSE [id |-> runtime.id, run |-> runtime.run,
                       busy |-> runtime.op # None]]
  /\ UNCHANGED <<server, ui, post, observer, stream, handled, failures>>

ReadFile(i) ==
  /\ loads[i].stage = "read"
  /\ loads' = [loads EXCEPT ![i].stage = "answered", ![i].receipts = receipt]
  /\ UNCHANGED <<server, ui, post, observer, stream, handled, failures>>

\* The loads once the i-th is applied: those asked for before it are late
\* (requestId < snapshotRequestId), and what they bring is of no interest.
Applied(i) ==
  [j \in 1 .. (Len(loads) - 1) |->
     CASE j < i /\ loads[j].stage # "failed" ->
            [loads[j] EXCEPT !.late = TRUE, !.stage = "answered",
               !.runtime = None, !.receipts = NoReceipts]
       [] j < i /\ loads[j].stage = "failed" -> loads[j]
       [] OTHER -> loads[j + 1]]

Arrive(i) ==
  /\ loads[i].stage = "answered"
  /\ loads' = IF loads[i].late THEN RemoveAt(loads, i) ELSE Applied(i)
  /\ ui' = IF loads[i].late THEN ui
           ELSE Loaded(ui, loads[i].receipts, loads[i].runtime)
  /\ observer' = CASE loads[i].by = "events" ->
                        [observer EXCEPT !.events = "connecting"]
                   [] loads[i].by = "reconcile" ->
                        [observer EXCEPT !.reconcile = "waiting"]
                   [] OTHER -> observer
  /\ UNCHANGED <<server, post, stream, handled, failures>>

\* A load comes to nothing: its loop sleeps and asks again.
Drop(i) ==
  /\ loads' = RemoveAt(loads, i)
  /\ observer' = IF loads[i].by = "completion" THEN observer
                 ELSE [observer EXCEPT ![loads[i].by] = "waiting"]
  /\ UNCHANGED <<server, ui, post, stream, handled>>

\* The tab hears that a load has failed.
LoadFails(i) ==
  /\ loads[i].stage = "failed"
  /\ Drop(i)
  /\ UNCHANGED failures

\* The subscription: RuntimeActivated, the events that the window still has,
\* and the live ones.
Connect ==
  /\ observer.events = "connecting"
  /\ Ensure
  /\ runtime' = Ensured
  /\ observer' = [observer EXCEPT !.events = "streaming"]
  /\ \E n \in 0 .. Len(log') :
       stream' = [id |-> Ensured.id, open |-> TRUE,
                  events |-> <<[type |-> "activated", run |-> None]>>
                               \o SubSeq(log', n + 1, Len(log'))]
  /\ UNCHANGED <<receipt, ui, post, loads, handled, failures>>

Deliver ==
  /\ stream # None /\ stream.events # <<>>
  /\ ui' = Handle(ui, stream.id, Head(stream.events))
  /\ stream' = [stream EXCEPT !.events = Tail(@)]
  /\ UNCHANGED <<server, post, observer, loads, handled, failures>>

\* The stream ends: the loop sleeps and starts again.
StreamEnds ==
  /\ stream # None /\ stream.events = <<>> /\ ~stream.open
  /\ stream' = None
  /\ observer' = [observer EXCEPT !.events = "waiting"]
  /\ UNCHANGED <<server, ui, post, loads, handled, failures>>

-----------------------------------------------------------------------------
(* Failures *)

Fail == failures < MaxFailures /\ failures' = failures + 1

\* The connection of the stream breaks: what was on its way is lost.
LoseStream ==
  /\ Fail
  /\ stream # None
  /\ stream' = None
  /\ observer' = [observer EXCEPT !.events = "waiting"]
  /\ UNCHANGED <<server, ui, post, loads, handled>>

LoseLoad(i) == Fail /\ Drop(i)

\* A POST fails on its way to the server, or its answer on the way back.
LosePost(q) ==
  /\ Fail
  /\ post[q] \in {"sent", "waiting", "answered"}
  /\ post' = [post EXCEPT ![q] = "done"]
  /\ ui' = PromptFailed(ui)
  /\ UNCHANGED <<server, observer, stream, loads, handled>>

\* The server ends, with what it is reading, and another one is started on the
\* same files.
Restart ==
  /\ Fail
  /\ runtime' = None /\ log' = <<>>
  /\ started' = [registry |-> started.registry + 1, epoch |-> 0]
  /\ post' = [q \in Requests |-> IF post[q] \in {"sent", "waiting"} THEN "refused"
                                 ELSE post[q]]
  /\ stream' = IF stream = None THEN None ELSE [stream EXCEPT !.open = FALSE]
  /\ loads' = [i \in DOMAIN loads |->
                IF loads[i].stage = "read"
                THEN [loads[i] EXCEPT !.stage = "failed", !.runtime = None]
                ELSE loads[i]]
  /\ UNCHANGED <<receipt, ui, observer, handled>>

-----------------------------------------------------------------------------
(* The specification *)

Init ==
  /\ runtime = None /\ started = [registry |-> 0, epoch |-> 0] /\ log = <<>>
  /\ receipt = NoReceipts
  /\ ui = EmptyUi
  /\ post = [q \in Requests |-> "none"]
  /\ observer = [events |-> "waiting", reconcile |-> "waiting"]
  /\ stream = None /\ loads = <<>> /\ handled = None /\ failures = 0

Running == Activate \/ RunStarts \/ RunFinishes \/ Release

Loading(i) == ReadRuntime(i) \/ ReadFile(i) \/ Arrive(i) \/ LoadFails(i)

Next ==
  \/ \E q \in Requests : Admit(q) \/ Submit(q) \/ Hear(q) \/ LosePost(q)
  \/ Running \/ Close
  \/ \E loop \in {"events", "reconcile"} : Start(loop)
  \/ \E i \in DOMAIN loads : Loading(i) \/ LoseLoad(i)
  \/ LoadCompletion \/ Connect \/ Deliver \/ StreamEnds \/ LoseStream \/ Restart

Spec == Init /\ [][Next]_vars

Fairness ==
  /\ \A q \in Requests : WF_vars(Admit(q)) /\ WF_vars(Hear(q))
  /\ WF_vars(Running)
  /\ \A loop \in {"events", "reconcile"} : WF_vars(Start(loop))
  /\ \A by \in Loaders :
       WF_vars(\E i \in DOMAIN loads : loads[i].by = by /\ Loading(i))
  /\ WF_vars(LoadCompletion) /\ WF_vars(Connect) /\ WF_vars(Deliver) /\ WF_vars(StreamEnds)

FairSpec == Spec /\ Fairness

-----------------------------------------------------------------------------
(* Properties *)

\* The POST of a prompt of this tab fails.
PostFails ==
  /\ \E q \in Requests : post[q] # "done" /\ post'[q] = "done"
  /\ ui' = PromptFailed(ui)

\* What the user typed does not vanish: a prompt stops to be shown as pending
\* only when the file has its user message, when another runtime takes the place
\* of the one that was shown, or when a POST fails: the failure names no request
\* (OperationFailed), so that of an earlier prompt takes a later one with it.
NoSubmissionIsLost ==
  [][ui.pending # None /\ ui'.pending # ui.pending =>
       \/ receipt[ui.pending] = "entered"
       \/ PostFails
       \/ ui'.identity # ui.identity]_vars

\* The tab comes to agree with the server, whatever was lost, late or
\* replayed: nothing is running or pending, and the transcript is the file's.
Agrees ==
  /\ ~ui.running /\ ~ui.streaming /\ ui.pending = None
  /\ ui.entries = {q \in Requests : receipt[q] = "entered"}
Settles == <>[]Agrees
=============================================================================
