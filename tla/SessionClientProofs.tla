------------------------- MODULE SessionClientProofs -------------------------
(***************************************************************************)
(* Proofs about SessionClient, for any prompts, any number of loads in      *)
(* flight, runtimes and failures: the types, and that what the user typed   *)
(* does not vanish.                                                         *)
(***************************************************************************)
EXTENDS SessionClient, SequenceTheorems, TLAPS

-----------------------------------------------------------------------------
(* The invariant *)

\* The active runtime is the last one started; there is room for one more when
\* none is active; the slot, the stage and the run id agree; and a prompt that the
\* server does not have yet has no receipt and is in no slot.
ServerInv ==
  /\ started.registry <= failures
  /\ runtime = None => started.epoch < MaxRuntimes
  /\ runtime # None =>
       /\ runtime.id = started
       /\ runtime.stage # "idle" =>
            runtime.op \in Requests /\ post[runtime.op] \notin {"none", "sent"}
       /\ runtime.stage \in {"set", "running", "finished"} => runtime.run = runtime.op
  /\ \A q \in Requests : post[q] \in {"none", "sent"} => receipt[q] = "none"

\* A load brings no user message that is not in the file.
ReceiptInv ==
  \A i \in DOMAIN loads, q \in Requests :
    loads[i].receipts[q] = "entered" => receipt[q] = "entered"

ClientInv == TypeOK /\ ServerInv /\ ReceiptInv

-----------------------------------------------------------------------------
(* The reducer *)

\* A tab that knows nothing.
LEMMA EmptyUiType == EmptyUi \in Ui
BY DEF EmptyUi, Ui, Runs

\* installRuntimeIdentity keeps the transcript alone.
LEMMA InstallType ==
  ASSUME NEW s \in Ui, NEW id \in Identity
  PROVE  InstallIdentity(s, id) \in Ui /\ InstallIdentity(s, id).identity = id
BY EmptyUiType DEF InstallIdentity, Ui

\* applyRuntime keeps the pending prompt unless it installs another identity.
LEMMA ApplyType ==
  ASSUME NEW s \in Ui, NEW rt \in Snapshot \cup {None}
  PROVE  /\ ApplyRuntime(s, rt) \in Ui
         /\ \/ ApplyRuntime(s, rt).pending = s.pending
               /\ ApplyRuntime(s, rt).identity = s.identity
            \/ ApplyRuntime(s, rt).identity # s.identity
<1> DEFINE t == IF rt = None \/ s.identity = rt.id THEN s ELSE InstallIdentity(s, rt.id)
<1>1. /\ t \in Ui
      /\ (t.pending = s.pending /\ t.identity = s.identity) \/ t.identity # s.identity
  BY InstallType DEF Snapshot
<1>. HIDE DEF t
<1>2. CASE rt = None \/ (t.pending # None /\ rt.run \in {None, t.terminal}) \/ Foreign(t, rt.run)
  <2>1. ApplyRuntime(s, rt) = t
    BY <1>2 DEF ApplyRuntime, t
  <2>. QED
    BY <1>1, <2>1
<1>3. CASE ~(rt = None \/ (t.pending # None /\ rt.run \in {None, t.terminal})
               \/ Foreign(t, rt.run))
  <2> DEFINE u == [t EXCEPT
             !.run = rt.run,
             !.bound = IF t.pending = None THEN None ELSE rt.run,
             !.terminal = IF rt.run # None /\ ~rt.busy THEN rt.run
                          ELSE IF t.terminal = rt.run THEN None ELSE t.terminal,
             !.running = rt.busy, !.streaming = rt.busy]
  <2>1. ApplyRuntime(s, rt) = u
    BY <1>3 DEF ApplyRuntime, t
  <2>2. rt \in Snapshot
    BY <1>3
  <2>3. rt.run \in Runs /\ rt.busy \in BOOLEAN
    BY <2>2 DEF Snapshot
  <2>4. u \in Ui
    <3>1. /\ (IF t.pending = None THEN None ELSE rt.run) \in Runs
          /\ (IF rt.run # None /\ ~rt.busy THEN rt.run
               ELSE IF t.terminal = rt.run THEN None ELSE t.terminal) \in Runs
      BY <1>1, <2>3 DEF Ui, Runs
    <3>. QED
      BY <1>1, <2>3, <3>1 DEF Ui
  <2>5. u.pending = t.pending /\ u.identity = t.identity
    BY <1>1 DEF Ui
  <2>. QED
    BY <1>1, <2>1, <2>4, <2>5
<1>. QED
  BY <1>2, <1>3

\* A receipt ends the pending prompt only with its user message.
LEMMA ConfirmedType ==
  ASSUME NEW s \in Ui, NEW receipts \in [Requests -> Receipts]
  PROVE  /\ Confirmed(s, receipts) \in Ui
         /\ Confirmed(s, receipts).identity = s.identity
         /\ s.pending # None /\ Confirmed(s, receipts).pending # s.pending =>
              receipts[s.pending] = "entered"
<1>1. s.pending \in Runs
  BY DEF Ui
<1>2. CASE s.pending = None \/ receipts[s.pending] = "none"
  BY <1>2 DEF Confirmed
<1>3. CASE s.pending # None /\ receipts[s.pending] = "started"
  BY <1>1, <1>3 DEF Confirmed, Ui, Runs
<1>4. CASE s.pending # None /\ receipts[s.pending] = "entered"
  BY <1>1, <1>4 DEF Confirmed, Ui, Runs
<1>. QED
  BY <1>1, <1>2, <1>3, <1>4 DEF Receipts, Runs

\* Nor does a snapshot.
LEMMA LoadedType ==
  ASSUME NEW s \in Ui, NEW receipts \in [Requests -> Receipts],
         NEW rt \in Snapshot \cup {None}
  PROVE  /\ Loaded(s, receipts, rt) \in Ui
         /\ s.pending # None /\ Loaded(s, receipts, rt).pending # s.pending =>
              \/ receipts[s.pending] = "entered"
              \/ Loaded(s, receipts, rt).identity # s.identity
<1> DEFINE t == Confirmed(s, receipts)
           u == [t EXCEPT !.entries = {q \in Requests : receipts[q] = "entered"}]
<1>1. /\ t \in Ui /\ t.identity = s.identity
      /\ s.pending # None /\ t.pending # s.pending => receipts[s.pending] = "entered"
  BY ConfirmedType
<1>2. u \in Ui /\ u.pending = t.pending /\ u.identity = t.identity
  BY <1>1 DEF Ui
<1>3. Loaded(s, receipts, rt) \in {s, ApplyRuntime(u, rt)}
  BY DEF Loaded
<1>. HIDE DEF t, u
<1>. QED
  BY <1>1, <1>2, <1>3, ApplyType

\* An event ends the pending prompt only with the runtime that is shown.
LEMMA HandleType ==
  ASSUME NEW s \in Ui, NEW id \in Identity, NEW e \in Event
  PROVE  /\ Handle(s, id, e) \in Ui
         /\ \/ Handle(s, id, e).pending = s.pending
            \/ Handle(s, id, e).identity # s.identity
<1>1. e.run \in Runs
  BY DEF Event, Runs
<1>2. CASE e.type = "activated" /\ Succeeds(s, id)
  <2>1. Handle(s, id, e) = InstallIdentity(s, id)
    BY <1>2 DEF Handle
  <2>2. s.identity # id
    BY <1>2, NoneAssumption DEF Succeeds, Identity
  <2>. QED
    BY <2>1, <2>2, InstallType
<1>3. CASE e.type = "activated" /\ ~Succeeds(s, id)
  BY <1>3 DEF Handle
<1>4. CASE e.type # "activated"
  <2>1. CASE ~Accepts(s, id, e)
    BY <1>4, <2>1 DEF Handle
  <2>2. CASE Accepts(s, id, e)
    <3>1. CASE e.type = "started"
      <4>1. Handle(s, id, e) =
              [s EXCEPT !.run = e.run, !.running = TRUE, !.streaming = TRUE,
                        !.bound = IF s.pending = None THEN None ELSE e.run]
        BY <2>2, <3>1 DEF Handle
      <4>. QED
        BY <1>1, <4>1 DEF Ui, Runs
    <3>2. CASE e.type = "message"
      <4>1. Handle(s, id, e) = [s EXCEPT !.streaming = TRUE]
        BY <2>2, <3>2 DEF Handle
      <4>. QED
        BY <4>1 DEF Ui
    <3>3. CASE e.type = "finished"
      <4>1. Handle(s, id, e) =
              IF ~s.running /\ ~s.streaming THEN s
              ELSE [s EXCEPT !.run = e.run, !.terminal = e.run, !.completion = e.run,
                             !.running = FALSE, !.streaming = FALSE]
        BY <2>2, <3>3 DEF Handle
      <4>. QED
        BY <1>1, <4>1 DEF Ui
    <3>. QED
      BY <1>4, <3>1, <3>2, <3>3 DEF Event
  <2>. QED
    BY <2>1, <2>2
<1>. QED
  BY <1>2, <1>3, <1>4

\* handleSend's three actions.
LEMMA PromptType ==
  ASSUME NEW s \in Ui, NEW q \in Requests
  PROVE  /\ PromptSubmitted(s, q) \in Ui /\ PromptAccepted(s, q) \in Ui /\ PromptFailed(s) \in Ui
         /\ s.pending # None => PromptSubmitted(s, q).pending = s.pending
         /\ PromptAccepted(s, q).pending = s.pending
<1>1. q \in Runs /\ None \in Runs
  BY DEF Runs
<1>2. PromptSubmitted(s, q) \in Ui /\ (s.pending # None => PromptSubmitted(s, q).pending = s.pending)
  BY <1>1 DEF PromptSubmitted, Ui
<1>3. PromptAccepted(s, q) \in Ui /\ PromptAccepted(s, q).pending = s.pending
  BY <1>1 DEF PromptAccepted, Ui
<1>4. PromptFailed(s) \in Ui
  BY <1>1 DEF PromptFailed, Ui
<1>. QED
  BY <1>2, <1>3, <1>4

-----------------------------------------------------------------------------
(* Sequences *)

\* What remains of a sequence without one element.
LEMMA RemoveAtIs ==
  ASSUME NEW S, NEW s \in Seq(S), NEW i \in DOMAIN s
  PROVE  /\ RemoveAt(s, i) \in Seq(S)
         /\ \A k \in DOMAIN RemoveAt(s, i) : \E j \in DOMAIN s : RemoveAt(s, i)[k] = s[j]
<1>1. i \in 1 .. Len(s) /\ Len(s) \in Nat
  OBVIOUS
<1> DEFINE a == SubSeq(s, 1, i - 1)
           b == SubSeq(s, i + 1, Len(s))
<1>2. a \in Seq(S) /\ b \in Seq(S)
  BY <1>1
<1>3. \A k \in DOMAIN a : \E j \in DOMAIN s : a[k] = s[j]
  <2>1. Len(a) = i - 1 /\ \A k \in 1 .. i - 1 : k \in 1 .. Len(s) /\ a[k] = s[k]
    BY <1>1
  <2>2. DOMAIN a = 1 .. i - 1 /\ DOMAIN s = 1 .. Len(s)
    BY <1>2, <2>1
  <2>. HIDE DEF a
  <2>. QED
    BY <2>1, <2>2
<1>4. \A k \in DOMAIN b : \E j \in DOMAIN s : b[k] = s[j]
  <2>1. /\ Len(b) = Len(s) - i
        /\ \A k \in 1 .. Len(s) - i : (i + k) \in 1 .. Len(s) /\ b[k] = s[i + k]
    BY <1>1
  <2>2. DOMAIN b = 1 .. Len(s) - i /\ DOMAIN s = 1 .. Len(s)
    BY <1>2, <2>1
  <2>. HIDE DEF b
  <2>. QED
    BY <2>1, <2>2
<1>5. RemoveAt(s, i) = a \o b
  BY DEF RemoveAt
<1>. HIDE DEF a, b
<1>6. \A k \in DOMAIN (a \o b) : (a \o b)[k] = IF k <= Len(a) THEN a[k] ELSE b[k - Len(a)]
  BY <1>2
<1>7. \A k \in DOMAIN (a \o b) :
        IF k <= Len(a) THEN k \in DOMAIN a ELSE (k - Len(a)) \in DOMAIN b
  BY <1>2
<1>. QED
  BY <1>2, <1>3, <1>4, <1>5, <1>6, <1>7

\* What remains of the loads when one is applied.
LEMMA AppliedIs ==
  ASSUME loads \in Seq(Load), NEW i \in DOMAIN loads
  PROVE  /\ Applied(i) \in Seq(Load)
         /\ \A k \in DOMAIN Applied(i) :
              \/ Applied(i)[k].receipts = NoReceipts
              \/ \E j \in DOMAIN loads : Applied(i)[k] = loads[j]
<1>1. Len(loads) \in Nat /\ i \in 1 .. Len(loads) /\ DOMAIN loads = 1 .. Len(loads)
  OBVIOUS
<1>2. NoReceipts \in [Requests -> Receipts]
  BY DEF NoReceipts, Receipts
<1> DEFINE late(j) == [loads[j] EXCEPT !.late = TRUE, !.stage = "answered",
                         !.runtime = None, !.receipts = NoReceipts]
<1>3. ASSUME NEW j \in DOMAIN loads PROVE late(j) \in Load /\ late(j).receipts = NoReceipts
  <2>1. loads[j] \in Load
    BY <1>1
  <2>. QED
    BY <1>2, <2>1 DEF Load
<1>4. ASSUME NEW j \in 1 .. (Len(loads) - 1)
      PROVE  /\ Applied(i)[j] \in Load
             /\ \/ Applied(i)[j].receipts = NoReceipts
                \/ \E k \in DOMAIN loads : Applied(i)[j] = loads[k]
  <2>1. /\ j \in DOMAIN loads /\ (j + 1) \in DOMAIN loads
        /\ loads[j] \in Load /\ loads[j + 1] \in Load
    BY <1>1
  <2>2. Applied(i)[j] = CASE j < i /\ loads[j].stage # "failed" -> late(j)
                          [] j < i /\ loads[j].stage = "failed" -> loads[j]
                          [] OTHER -> loads[j + 1]
    BY DEF Applied
  <2>. HIDE DEF late
  <2>. QED
    BY <1>3, <2>1, <2>2
<1>5. DOMAIN Applied(i) = 1 .. (Len(loads) - 1) /\ Len(loads) - 1 \in Nat
  BY <1>1 DEF Applied
<1>6. Applied(i) \in [1 .. (Len(loads) - 1) -> Load]
  BY <1>4, <1>5 DEF Applied
<1>. QED
  BY <1>4, <1>5, <1>6

-----------------------------------------------------------------------------
(* The server *)

\* The server's part of the types.
ServerOK ==
  /\ runtime \in Runtime \cup {None}
  /\ started \in [registry : 0 .. MaxFailures, epoch : 0 .. MaxRuntimes]
  /\ log \in Seq(Event)
  /\ receipt \in [Requests -> Receipts]
  /\ stream = None \/ stream \in Stream
  /\ post \in [Requests -> {"none", "sent", "waiting", "answered", "refused", "done"}]

\* A receipt never goes back.
ReceiptsGrow ==
  \A q \in Requests : receipt[q] = "entered" => receipt'[q] = "entered"

\* The runtime that a request or a subscription finds or starts.
LEMMA EnsureIs ==
  ASSUME ServerOK, ServerInv, failures \in 0 .. MaxFailures, Ensure
  PROVE  /\ Ensured \in Runtime /\ Ensured # None /\ Ensured.id = started'
         /\ started' \in [registry : 0 .. MaxFailures, epoch : 0 .. MaxRuntimes]
         /\ started'.registry <= failures
         /\ log' \in Seq(Event)
         /\ Ensured.stage # "idle" =>
              Ensured.op \in Requests /\ post[Ensured.op] \notin {"none", "sent"}
         /\ Ensured.stage \in {"set", "running", "finished"} => Ensured.run = Ensured.op
<1>1. CASE runtime # None
  BY <1>1 DEF Ensure, Ensured, ServerOK, ServerInv
<1>2. CASE runtime = None
  <2> DEFINE next == [started EXCEPT !.epoch = @ + 1]
  <2>1. /\ next \in Identity
        /\ next \in [registry : 0 .. MaxFailures, epoch : 0 .. MaxRuntimes]
        /\ next.registry = started.registry
    BY <1>2, BoundsAssumption DEF ServerOK, ServerInv, Identity
  <2>2. Ensured = NewRuntime(next) /\ started' = next /\ log' = <<>>
    BY <1>2 DEF Ensured, Ensure
  <2>. HIDE DEF next
  <2>3. NewRuntime(next) \in Runtime
    BY <2>1 DEF NewRuntime, Runtime, Runs, Stage
  <2>4. /\ NewRuntime(next).stage = "idle" /\ NewRuntime(next).id = next
    BY DEF NewRuntime
  <2>. QED
    BY <2>1, <2>2, <2>3, <2>4, NoneAssumption DEF ServerInv
<1>. QED
  BY <1>1, <1>2

\* Events reach the log and the subscriber.
LEMMA PublishIs ==
  ASSUME ServerOK, NEW events \in Seq(Event), Publish(events)
  PROVE  log' \in Seq(Event) /\ (stream' = None \/ stream' \in Stream)
<1>1. log' \in Seq(Event)
  BY DEF Publish, ServerOK
<1>2. CASE stream # None /\ stream.open
  <2>1. stream \in Stream /\ stream' = [stream EXCEPT !.events = @ \o events]
    BY <1>2 DEF Publish, ServerOK
  <2>2. stream.events \o events \in Seq(Event)
    BY <2>1 DEF Stream
  <2>. QED
    BY <1>1, <2>1, <2>2 DEF Stream
<1>3. CASE ~(stream # None /\ stream.open)
  BY <1>1, <1>3 DEF Publish, ServerOK
<1>. QED
  BY <1>2, <1>3

\* A prompt takes the slot or is refused (promptRequest).
LEMMA AdmitServer ==
  ASSUME ServerOK, ServerInv, failures \in 0 .. MaxFailures, NEW q \in Requests, Admit(q)
  PROVE  ServerOK' /\ ServerInv' /\ ReceiptsGrow
<1>1. Ensure /\ failures' = failures /\ stream' = stream
  BY DEF Admit
<1>2. CASE Ensured.op = None
  <2>1. /\ runtime' = [Ensured EXCEPT !.op = q, !.stage = "admitted"]
        /\ receipt' = [receipt EXCEPT ![q] = "started"] /\ post' = [post EXCEPT ![q] = "waiting"]
    BY <1>2 DEF Admit
  <2>2. /\ runtime' \in Runtime /\ runtime'.id = Ensured.id /\ runtime'.op = q
        /\ runtime'.stage = "admitted"
    BY <1>1, <2>1, EnsureIs DEF Runtime, Runs, Stage
  <2>3. receipt' \in [Requests -> Receipts] /\ post' \in [Requests ->
          {"none", "sent", "waiting", "answered", "refused", "done"}]
    BY <2>1 DEF ServerOK, Receipts
  <2>4. receipt[q] = "none" /\ \A p \in Requests : p # q =>
          receipt'[p] = receipt[p] /\ post'[p] = post[p]
    BY <2>1 DEF Admit, ServerInv, ServerOK
  <2>5. post'[q] = "waiting"
    BY <2>1 DEF ServerOK
  <2>6. ServerOK'
    BY <1>1, <2>2, <2>3, EnsureIs DEF ServerOK
  <2>7. ServerInv'
    BY <1>1, <2>2, <2>4, <2>5, EnsureIs, NoneAssumption DEF ServerInv
  <2>. QED
    BY <2>4, <2>6, <2>7 DEF ReceiptsGrow
<1>3. CASE Ensured.op # None
  <2>1. /\ runtime' = Ensured /\ receipt' = receipt /\ post' = [post EXCEPT ![q] = "refused"]
    BY <1>3 DEF Admit
  <2>2. post'[q] = "refused" /\ \A p \in Requests : p # q => post'[p] = post[p]
    BY <2>1 DEF ServerOK
  <2>3. post' \in [Requests -> {"none", "sent", "waiting", "answered", "refused", "done"}]
    BY <2>1 DEF ServerOK
  <2>4. ServerOK'
    BY <1>1, <2>1, <2>3, EnsureIs DEF ServerOK
  <2>5. ServerInv'
    BY <1>1, <2>1, <2>2, EnsureIs DEF ServerInv
  <2>. QED
    BY <2>1, <2>4, <2>5 DEF ReceiptsGrow
<1>. QED
  BY <1>2, <1>3

\* The answer to a caller that waits.
LEMMA AnswerIs ==
  ASSUME ServerOK, NEW q \in Requests, NEW a \in {"answered", "refused"}, Answer(q, a)
  PROVE  /\ post' \in [Requests -> {"none", "sent", "waiting", "answered", "refused", "done"}]
         /\ \A p \in Requests : post'[p] \in {"none", "sent"} <=> post[p] \in {"none", "sent"}
<1>1. CASE post[q] = "waiting"
  BY <1>1 DEF Answer, ServerOK
<1>2. CASE post[q] # "waiting"
  BY <1>2 DEF Answer, ServerOK
<1>. QED
  BY <1>1, <1>2

\* The stages of an execution in the active runtime.
LEMMA RunningServer ==
  ASSUME ServerOK, ServerInv, Running
  PROVE  ServerOK' /\ ServerInv' /\ ReceiptsGrow
<1>1. /\ runtime # None /\ runtime \in Runtime /\ runtime.stage # "idle"
      /\ runtime.op \in Requests /\ runtime.id = started
      /\ started' = started /\ failures' = failures
  BY DEF Running, Activate, RunStarts, RunFinishes, Release, ServerOK, ServerInv
<1>2. CASE Activate
  <2>1. /\ runtime' = [runtime EXCEPT !.stage = "set", !.run = runtime.op]
        /\ UNCHANGED <<log, receipt, post, stream>>
    BY <1>2 DEF Activate
  <2>2. /\ runtime' \in Runtime /\ runtime'.id = runtime.id /\ runtime'.stage = "set"
        /\ runtime'.op = runtime.op /\ runtime'.run = runtime.op
    BY <1>1, <2>1 DEF Runtime, Runs, Stage
  <2>3. ServerOK'
    BY <1>1, <2>1, <2>2 DEF ServerOK
  <2>4. ServerInv'
    BY <1>1, <2>1, <2>2, NoneAssumption DEF ServerInv
  <2>. QED
    BY <2>1, <2>3, <2>4 DEF ReceiptsGrow
<1>3. CASE RunStarts
  <2> DEFINE events == <<[type |-> "started", run |-> runtime.run],
                         [type |-> "message", run |-> runtime.run]>>
  <2>1. /\ runtime' = [runtime EXCEPT !.stage = "running"]
        /\ receipt' = [receipt EXCEPT ![runtime.op] = "entered"]
        /\ Publish(events) /\ Answer(runtime.op, "answered") /\ runtime.run = runtime.op
    BY <1>3 DEF RunStarts, ServerInv
  <2>2. events \in Seq(Event)
    BY <1>1, <2>1 DEF Event
  <2>. HIDE DEF events
  <2>3. /\ runtime' \in Runtime /\ runtime'.id = runtime.id /\ runtime'.stage = "running"
        /\ runtime'.op = runtime.op /\ runtime'.run = runtime.op
    BY <1>1, <2>1 DEF Runtime, Stage
  <2>4. /\ receipt' \in [Requests -> Receipts] /\ receipt'[runtime.op] = "entered"
        /\ \A q \in Requests : q # runtime.op => receipt'[q] = receipt[q]
    BY <1>1, <2>1 DEF ServerOK, Receipts
  <2>5. ServerOK'
    BY <1>1, <2>1, <2>2, <2>3, <2>4, PublishIs, AnswerIs DEF ServerOK
  <2>6. ServerInv'
    <3>1. \A p \in Requests : post'[p] \in {"none", "sent"} <=> post[p] \in {"none", "sent"}
      BY <1>1, <2>1, AnswerIs
    <3>. QED
      BY <1>1, <2>3, <2>4, <3>1, NoneAssumption DEF ServerInv
  <2>. QED
    BY <2>4, <2>5, <2>6 DEF ReceiptsGrow
<1>4. CASE RunFinishes
  <2> DEFINE events == <<[type |-> "finished", run |-> runtime.run]>>
  <2>1. /\ runtime' = [runtime EXCEPT !.stage = "finished"]
        /\ UNCHANGED <<receipt, post>> /\ Publish(events) /\ runtime.run = runtime.op
    BY <1>4 DEF RunFinishes, ServerInv
  <2>2. events \in Seq(Event)
    BY <1>1, <2>1 DEF Event
  <2>. HIDE DEF events
  <2>3. /\ runtime' \in Runtime /\ runtime'.id = runtime.id /\ runtime'.stage = "finished"
        /\ runtime'.op = runtime.op /\ runtime'.run = runtime.op
    BY <1>1, <2>1 DEF Runtime, Stage
  <2>4. ServerOK'
    BY <1>1, <2>1, <2>2, <2>3, PublishIs DEF ServerOK
  <2>5. ServerInv'
    BY <1>1, <2>1, <2>3, NoneAssumption DEF ServerInv
  <2>. QED
    BY <2>1, <2>4, <2>5 DEF ReceiptsGrow
<1>5. CASE Release
  <2>1. /\ runtime' = [runtime EXCEPT !.stage = "idle", !.op = None]
        /\ UNCHANGED <<log, receipt, stream>> /\ Answer(runtime.op, "refused")
    BY <1>5 DEF Release
  <2>2. runtime' \in Runtime /\ runtime'.id = runtime.id /\ runtime'.stage = "idle"
    BY <1>1, <2>1 DEF Runtime, Stage, Runs
  <2>3. ServerOK'
    BY <1>1, <2>1, <2>2, AnswerIs DEF ServerOK
  <2>4. ServerInv'
    <3>1. \A p \in Requests : post'[p] \in {"none", "sent"} <=> post[p] \in {"none", "sent"}
      BY <1>1, <2>1, AnswerIs
    <3>. QED
      BY <1>1, <2>1, <2>2, <3>1, NoneAssumption DEF ServerInv
  <2>. QED
    BY <2>1, <2>3, <2>4 DEF ReceiptsGrow
<1>. QED
  BY <1>2, <1>3, <1>4, <1>5 DEF Running

\* The subscription may start a runtime.
LEMMA ConnectServer ==
  ASSUME ServerOK, ServerInv, failures \in 0 .. MaxFailures, Connect
  PROVE  ServerOK' /\ ServerInv' /\ ReceiptsGrow
<1>1. Ensure /\ runtime' = Ensured /\ UNCHANGED <<receipt, post, failures>>
  BY DEF Connect
<1>2. PICK n \in 0 .. Len(log') :
        stream' = [id |-> Ensured.id, open |-> TRUE,
                   events |-> <<[type |-> "activated", run |-> None]>>
                                \o SubSeq(log', n + 1, Len(log'))]
  BY DEF Connect
<1>3. /\ Ensured \in Runtime /\ Ensured # None /\ Ensured.id = started' /\ log' \in Seq(Event)
      /\ started' \in [registry : 0 .. MaxFailures, epoch : 0 .. MaxRuntimes]
      /\ started'.registry <= failures
      /\ Ensured.stage # "idle" =>
           Ensured.op \in Requests /\ post[Ensured.op] \notin {"none", "sent"}
      /\ Ensured.stage \in {"set", "running", "finished"} => Ensured.run = Ensured.op
  BY <1>1, EnsureIs
<1>4. <<[type |-> "activated", run |-> None]>> \in Seq(Event)
  BY DEF Event
<1>5. SubSeq(log', n + 1, Len(log')) \in Seq(Event)
  BY <1>3
<1>6. <<[type |-> "activated", run |-> None]>> \o SubSeq(log', n + 1, Len(log')) \in Seq(Event)
  BY <1>4, <1>5
<1>7. stream' \in Stream
  BY <1>2, <1>3, <1>6 DEF Stream, Runtime
<1>8. ServerOK'
  BY <1>1, <1>3, <1>7 DEF ServerOK
<1>9. ServerInv'
  BY <1>1, <1>3 DEF ServerInv
<1>. QED
  BY <1>1, <1>8, <1>9 DEF ReceiptsGrow

\* The end of a runtime or of the server; no receipt is lost.
LEMMA EndServer ==
  ASSUME ServerOK, ServerInv, failures \in 0 .. MaxFailures, Close \/ Restart
  PROVE  ServerOK' /\ ServerInv' /\ ReceiptsGrow
<1>1. stream' = None \/ stream' \in Stream
  <2>1. CASE stream = None
    BY <2>1 DEF Close, Restart
  <2>2. CASE stream # None
    <3>1. stream \in Stream /\ stream' = [stream EXCEPT !.open = FALSE]
      BY <2>2 DEF Close, Restart, ServerOK
    <3>. QED
      BY <3>1 DEF Stream
  <2>. QED
    BY <2>1, <2>2
<1>2. runtime' = None /\ log' = <<>> /\ receipt' = receipt
  BY DEF Close, Restart
<1>3. <<>> \in Seq(Event)
  OBVIOUS
<1>4. CASE Close
  <2>1. started' = started /\ started.epoch < MaxRuntimes /\ UNCHANGED <<post, failures>>
    BY <1>4 DEF Close
  <2>2. ServerOK'
    BY <1>1, <1>2, <1>3, <2>1 DEF ServerOK
  <2>3. ServerInv'
    BY <1>2, <2>1 DEF ServerInv
  <2>. QED
    BY <1>2, <2>2, <2>3 DEF ReceiptsGrow
<1>5. CASE Restart
  <2>1. /\ started' = [registry |-> started.registry + 1, epoch |-> 0]
        /\ failures < MaxFailures /\ failures' = failures + 1
        /\ post' = [q \in Requests |-> IF post[q] \in {"sent", "waiting"} THEN "refused"
                                       ELSE post[q]]
    BY <1>5 DEF Restart, Fail
  <2>2. /\ started.registry \in 0 .. MaxFailures /\ started.registry <= failures
        /\ MaxFailures \in Nat /\ MaxRuntimes \in Nat \ {0}
    BY BoundsAssumption DEF ServerOK, ServerInv
  <2>3. started' \in [registry : 0 .. MaxFailures, epoch : 0 .. MaxRuntimes]
    <3>1. started.registry + 1 \in 0 .. MaxFailures /\ 0 \in 0 .. MaxRuntimes
      BY <2>1, <2>2
    <3>. QED
      BY <2>1, <3>1
  <2>4. ServerOK'
    BY <1>1, <1>2, <1>3, <2>1, <2>3 DEF ServerOK
  <2>5. ServerInv'
    <3>1. started'.registry <= failures' /\ started'.epoch < MaxRuntimes
      BY <2>1, <2>2
    <3>2. \A q \in Requests : post'[q] \in {"none", "sent"} => receipt'[q] = "none"
      BY <1>2, <2>1 DEF ServerInv
    <3>. QED
      BY <1>2, <3>1, <3>2 DEF ServerInv
  <2>. QED
    BY <1>2, <2>4, <2>5 DEF ReceiptsGrow
<1>. QED
  BY <1>4, <1>5

\* The prompts of the tab: sent, answered or failed.
LEMMA PromptServer ==
  ASSUME ServerOK, ServerInv, failures \in 0 .. MaxFailures, NEW q \in Requests,
         Submit(q) \/ Hear(q) \/ LosePost(q)
  PROVE  ServerOK' /\ ServerInv' /\ ReceiptsGrow
<1>1. UNCHANGED <<server, stream>> /\ failures' \in {failures, failures + 1}
  BY BoundsAssumption DEF Submit, Hear, LosePost, Fail
<1>2. PICK to \in {"sent", "done"} : post' = [post EXCEPT ![q] = to]
  BY DEF Submit, Hear, LosePost
<1>3. to = "sent" => post[q] = "none"
  BY <1>2 DEF Submit, Hear, LosePost, ServerOK
<1>4. /\ post' \in [Requests -> {"none", "sent", "waiting", "answered", "refused", "done"}]
      /\ post'[q] = to /\ \A p \in Requests : p # q => post'[p] = post[p]
  BY <1>2 DEF ServerOK
<1>5. ServerOK'
  BY <1>1, <1>4 DEF ServerOK, server
<1>6. ServerInv'
  <2>1. started'.registry <= failures'
    BY <1>1, BoundsAssumption DEF server, ServerInv, ServerOK
  <2>2. \A p \in Requests : post'[p] \in {"none", "sent"} => receipt'[p] = "none"
    BY <1>1, <1>3, <1>4 DEF server, ServerInv
  <2>3. ASSUME runtime # None, runtime.stage # "idle"
        PROVE  post'[runtime.op] \notin {"none", "sent"}
    BY <1>3, <1>4, <2>3 DEF ServerInv
  <2>. QED
    BY <1>1, <2>1, <2>2, <2>3 DEF server, ServerInv
<1>. QED
  BY <1>1, <1>5, <1>6 DEF server, ReceiptsGrow

\* The stream is read, ends or is lost.
LEMMA StreamServer ==
  ASSUME ServerOK, ServerInv, failures \in 0 .. MaxFailures,
         Deliver \/ StreamEnds \/ LoseStream
  PROVE  ServerOK' /\ ServerInv' /\ ReceiptsGrow
<1>1. UNCHANGED <<server, post>> /\ failures' \in {failures, failures + 1}
  BY DEF Deliver, StreamEnds, LoseStream, Fail
<1>2. stream' = None \/ stream' \in Stream
  <2>1. CASE Deliver
    <3>1. stream \in Stream /\ stream.events # <<>> /\ stream' = [stream EXCEPT !.events = Tail(@)]
      BY <2>1 DEF Deliver, ServerOK
    <3>2. stream.events \in Seq(Event)
      BY <3>1 DEF Stream
    <3>3. Tail(stream.events) \in Seq(Event)
      BY <3>1, <3>2
    <3>. QED
      BY <3>1, <3>3 DEF Stream
  <2>2. CASE StreamEnds \/ LoseStream
    BY <2>2 DEF StreamEnds, LoseStream
  <2>. QED
    BY <2>1, <2>2
<1>3. ServerOK'
  BY <1>1, <1>2 DEF ServerOK, server
<1>4. started'.registry <= failures'
  BY <1>1, BoundsAssumption DEF server, ServerInv, ServerOK
<1>5. ServerInv'
  BY <1>1, <1>4 DEF ServerInv, server
<1>. QED
  BY <1>1, <1>3, <1>5 DEF ReceiptsGrow, server

-----------------------------------------------------------------------------
(* The loads *)

\* A load brings nothing, the receipts of the file, or what it had.
ReceiptsOf(k) ==
  \/ loads'[k].receipts = NoReceipts
  \/ loads'[k].receipts = receipt
  \/ \E j \in DOMAIN loads : loads'[k].receipts = loads[j].receipts

\* One load goes on.
LEMMA OneLoad ==
  ASSUME loads \in Seq(Load), NEW i \in DOMAIN loads, NEW l \in Load,
         loads' = [loads EXCEPT ![i] = l],
         l.receipts = receipt \/ l.receipts = loads[i].receipts
  PROVE  loads' \in Seq(Load) /\ \A k \in DOMAIN loads' : ReceiptsOf(k)
<1>1. loads' \in Seq(Load) /\ DOMAIN loads' = DOMAIN loads
  OBVIOUS
<1>2. \A k \in DOMAIN loads : loads'[k] = IF k = i THEN l ELSE loads[k]
  OBVIOUS
<1>. QED
  BY <1>1, <1>2 DEF ReceiptsOf

\* The loads after any step.
LEMMA LoadsStep ==
  ASSUME TypeOK, ServerInv, [Next]_vars
  PROVE  loads' \in Seq(Load) /\ \A k \in DOMAIN loads' : ReceiptsOf(k)
<1>0. loads \in Seq(Load) /\ NoReceipts \in [Requests -> Receipts]
  BY DEF TypeOK, NoReceipts, Receipts
<1>1. CASE UNCHANGED loads
  BY <1>0, <1>1 DEF ReceiptsOf
<1>2. ASSUME NEW by \in Loaders, Ask(by)
      PROVE  loads' \in Seq(Load) /\ \A k \in DOMAIN loads' : ReceiptsOf(k)
  <2> DEFINE l == [by |-> by, stage |-> "asked", late |-> FALSE, runtime |-> None,
                   receipts |-> NoReceipts]
  <2>1. l \in Load /\ loads' = Append(loads, l) /\ l.receipts = NoReceipts
    BY <1>0, <1>2 DEF Load, Ask
  <2>. HIDE DEF l
  <2>2. /\ loads' \in Seq(Load)
        /\ \A k \in DOMAIN loads' : IF k = Len(loads) + 1 THEN loads'[k] = l
                                    ELSE k \in DOMAIN loads /\ loads'[k] = loads[k]
    BY <1>0, <2>1
  <2>. QED
    BY <2>1, <2>2 DEF ReceiptsOf
<1>3. ASSUME NEW i \in DOMAIN loads, ReadRuntime(i)
      PROVE  loads' \in Seq(Load) /\ \A k \in DOMAIN loads' : ReceiptsOf(k)
  <2> DEFINE rt == IF runtime = None THEN None
                   ELSE [id |-> runtime.id, run |-> runtime.run, busy |-> runtime.op # None]
             l == [loads[i] EXCEPT !.stage = "read", !.runtime = rt]
  <2>1. rt \in Snapshot \cup {None}
    BY DEF TypeOK, Runtime, Snapshot
  <2>2. loads' = [loads EXCEPT ![i] = l]
    BY <1>0, <1>3 DEF ReadRuntime
  <2>. HIDE DEF rt
  <2>3. loads[i] \in Load
    BY <1>0
  <2>4. l \in Load /\ l.receipts = loads[i].receipts
    BY <2>1, <2>3 DEF Load
  <2>. HIDE DEF l
  <2>. QED
    BY <1>0, <2>2, <2>4, OneLoad
<1>4. ASSUME NEW i \in DOMAIN loads, ReadFile(i)
      PROVE  loads' \in Seq(Load) /\ \A k \in DOMAIN loads' : ReceiptsOf(k)
  <2> DEFINE l == [loads[i] EXCEPT !.stage = "answered", !.receipts = receipt]
  <2>1. loads' = [loads EXCEPT ![i] = l]
    BY <1>0, <1>4 DEF ReadFile
  <2>2. loads[i] \in Load
    BY <1>0
  <2>3. l \in Load /\ l.receipts = receipt
    BY <2>2 DEF Load, TypeOK
  <2>. HIDE DEF l
  <2>. QED
    BY <1>0, <2>1, <2>3, OneLoad
<1>5. ASSUME NEW i \in DOMAIN loads, loads' \in {RemoveAt(loads, i), Applied(i)}
      PROVE  loads' \in Seq(Load) /\ \A k \in DOMAIN loads' : ReceiptsOf(k)
  <2>1. CASE loads' = RemoveAt(loads, i)
    BY <1>0, <2>1, RemoveAtIs DEF ReceiptsOf
  <2>2. CASE loads' = Applied(i)
    BY <1>0, <2>2, AppliedIs DEF ReceiptsOf
  <2>. QED
    BY <1>5, <2>1, <2>2
<1>6. CASE Restart
  <2>1. loads' = [i \in DOMAIN loads |->
                    IF loads[i].stage = "read"
                    THEN [loads[i] EXCEPT !.stage = "failed", !.runtime = None]
                    ELSE loads[i]]
    BY <1>6 DEF Restart
  <2>2. ASSUME NEW i \in DOMAIN loads
        PROVE  loads'[i] \in Load /\ loads'[i].receipts = loads[i].receipts
    <3>1. loads[i] \in Load
      BY <1>0
    <3>. QED
      BY <2>1, <3>1 DEF Load
  <2>3. DOMAIN loads' = 1 .. Len(loads) /\ DOMAIN loads = 1 .. Len(loads) /\ Len(loads) \in Nat
    <3>1. DOMAIN loads' = DOMAIN loads
      BY <2>1
    <3>2. DOMAIN loads = 1 .. Len(loads) /\ Len(loads) \in Nat
      BY <1>0
    <3>. QED
      BY <3>1, <3>2
  <2>4. loads' \in [1 .. Len(loads) -> Load]
    BY <2>1, <2>2, <2>3
  <2>. QED
    BY <2>2, <2>3, <2>4 DEF ReceiptsOf
<1>7. CASE Next /\ ~Restart
  <2>1. \/ UNCHANGED loads
        \/ \E by \in Loaders : Ask(by)
        \/ \E i \in DOMAIN loads :
             ReadRuntime(i) \/ ReadFile(i) \/ loads' \in {RemoveAt(loads, i), Applied(i)}
    <3>1. CASE \E q \in Requests : Admit(q) \/ Submit(q) \/ Hear(q) \/ LosePost(q)
      BY <3>1 DEF Admit, Submit, Hear, LosePost
    <3>2. CASE Running \/ Close \/ Connect \/ Deliver \/ StreamEnds \/ LoseStream
      BY <3>2 DEF Running, Activate, RunStarts, RunFinishes, Release, Close, Connect, Deliver,
                  StreamEnds, LoseStream
    <3>3. CASE LoadCompletion \/ \E loop \in {"events", "reconcile"} : Start(loop)
      BY <3>3 DEF LoadCompletion, Start, Loaders
    <3>4. CASE \E i \in DOMAIN loads : Loading(i) \/ LoseLoad(i)
      BY <3>4 DEF Loading, Arrive, LoadFails, LoseLoad, Drop
    <3>. QED
      BY <1>7, <3>1, <3>2, <3>3, <3>4 DEF Next
  <2>. QED
    BY <1>1, <1>2, <1>3, <1>4, <1>5, <2>1
<1>. QED
  BY <1>1, <1>6, <1>7 DEF vars

-----------------------------------------------------------------------------
(* The tab *)

\* The tab's part of the types.
TabOK ==
  /\ ui \in Ui
  /\ observer \in [events : {"waiting", "loading", "connecting", "streaming"},
                   reconcile : {"waiting", "loading"}]
  /\ loads \in Seq(Load) /\ handled \in Runs /\ failures \in 0 .. MaxFailures

\* The types are the server's and the tab's.
LEMMA Parts == TypeOK <=> ServerOK /\ TabOK
BY DEF TypeOK, ServerOK, TabOK

\* A step keeps the pending prompt, or has a reason.
PendingKept ==
  ui.pending # None /\ ui'.pending # ui.pending =>
    \/ receipt[ui.pending] = "entered"
    \/ PostFails
    \/ ui'.identity # ui.identity

\* What the tab shows.
LEMMA UiStep ==
  ASSUME ClientInv, [Next]_vars
  PROVE  ui' \in Ui /\ PendingKept
<1>0. ServerOK /\ TabOK /\ ReceiptInv
  BY Parts DEF ClientInv
<1>1. CASE UNCHANGED ui
  BY <1>0, <1>1 DEF TabOK, PendingKept
<1>2. ASSUME NEW q \in Requests, Submit(q) \/ Hear(q) \/ LosePost(q)
      PROVE  ui' \in Ui /\ PendingKept
  <2>1. CASE LosePost(q) \/ (Hear(q) /\ post[q] # "answered")
    <3>1. post[q] # "done" /\ post' = [post EXCEPT ![q] = "done"] /\ ui' = PromptFailed(ui)
      BY <2>1 DEF Hear, LosePost
    <3>2. PostFails
      BY <1>0, <3>1 DEF PostFails, ServerOK
    <3>. QED
      BY <1>0, <3>1, <3>2, PromptType DEF TabOK, PendingKept
  <2>2. CASE ui' \in {PromptSubmitted(ui, q), PromptAccepted(ui, q)}
    BY <1>0, <2>2, PromptType DEF TabOK, PendingKept
  <2>. QED
    BY <1>2, <2>1, <2>2 DEF Submit, Hear
<1>3. ASSUME NEW i \in DOMAIN loads, Arrive(i)
      PROVE  ui' \in Ui /\ PendingKept
  <2>1. CASE loads[i].late
    BY <1>0, <1>3, <2>1 DEF Arrive, TabOK, PendingKept
  <2>2. CASE ~loads[i].late
    <3>1. ui' = Loaded(ui, loads[i].receipts, loads[i].runtime)
      BY <1>3, <2>2 DEF Arrive
    <3>2. loads[i] \in Load
      BY <1>0 DEF TabOK
    <3>3. loads[i].receipts \in [Requests -> Receipts] /\ loads[i].runtime \in Snapshot \cup {None}
      BY <3>2 DEF Load
    <3>4. \A q \in Requests : loads[i].receipts[q] = "entered" => receipt[q] = "entered"
      BY <1>0 DEF ReceiptInv
    <3>5. ui \in Ui /\ ui.pending \in Runs
      BY <1>0 DEF TabOK, Ui
    <3>. QED
      BY <3>1, <3>3, <3>4, <3>5, LoadedType DEF PendingKept, Runs
  <2>. QED
    BY <2>1, <2>2
<1>4. CASE Deliver
  <2>1. /\ stream \in Stream /\ stream.events # <<>>
        /\ ui' = Handle(ui, stream.id, Head(stream.events))
    BY <1>0, <1>4 DEF Deliver, ServerOK
  <2>2. stream.id \in Identity /\ stream.events \in Seq(Event)
    BY <2>1 DEF Stream
  <2>3. Head(stream.events) \in Event
    BY <2>1, <2>2
  <2>. QED
    BY <1>0, <2>1, <2>2, <2>3, HandleType DEF TabOK, PendingKept
<1>5. CASE Next
  <2>1. \/ UNCHANGED ui \/ Deliver
        \/ \E q \in Requests : Submit(q) \/ Hear(q) \/ LosePost(q)
        \/ \E i \in DOMAIN loads : Arrive(i)
    BY <1>5 DEF Next, Admit, Running, Activate, RunStarts, RunFinishes, Release, Close, Connect,
                StreamEnds, LoseStream, LoadCompletion, Start, Loading, ReadRuntime, ReadFile,
                LoadFails, LoseLoad, Drop, Restart
  <2>. QED
    BY <1>1, <1>2, <1>3, <1>4, <2>1
<1>. QED
  BY <1>1, <1>5 DEF vars

\* The loops of the tab, and what it has handled.
LEMMA LoopsStep ==
  ASSUME ClientInv, [Next]_vars
  PROVE  /\ observer' \in [events : {"waiting", "loading", "connecting", "streaming"},
                           reconcile : {"waiting", "loading"}]
         /\ handled' \in Runs /\ failures' \in 0 .. MaxFailures
<1> DEFINE O == [events : {"waiting", "loading", "connecting", "streaming"},
                 reconcile : {"waiting", "loading"}]
<1>0. TabOK
  BY Parts DEF ClientInv
<1>1. observer \in O
  BY <1>0 DEF TabOK
<1>2. /\ \A to \in {"waiting", "loading", "connecting", "streaming"} :
           [observer EXCEPT !.events = to] \in O
      /\ \A to \in {"waiting", "loading"} : [observer EXCEPT !.reconcile = to] \in O
  BY <1>1
<1>3. \A loop \in {"events", "reconcile"}, to \in {"waiting", "loading"} :
        [observer EXCEPT ![loop] = to] \in O
  BY <1>2
<1>. HIDE DEF O
<1>4. handled' \in Runs
  <2>1. ui.completion \in Runs
    BY <1>0 DEF TabOK, Ui
  <2>2. handled' \in {handled, ui.completion}
    BY DEF Next, vars, Admit, Submit, Hear, LosePost, Running, Activate, RunStarts, RunFinishes,
           Release, Close, Connect, Deliver, StreamEnds, LoseStream, LoadCompletion, Start, Loading,
           ReadRuntime, ReadFile, Arrive, LoadFails, LoseLoad, Drop, Restart
  <2>. QED
    BY <1>0, <2>1, <2>2 DEF TabOK
<1>5. failures' \in 0 .. MaxFailures
  <2>1. failures' = failures \/ Fail
    BY DEF Next, vars, Admit, Submit, Hear, LosePost, Running, Activate, RunStarts, RunFinishes,
           Release, Close, Connect, Deliver, StreamEnds, LoseStream, LoadCompletion, Start, Loading,
           ReadRuntime, ReadFile, Arrive, LoadFails, LoseLoad, Drop, Restart
  <2>. QED
    BY <1>0, <2>1, BoundsAssumption DEF TabOK, Fail
<1>6. observer' \in O
  <2>1. ASSUME NEW i \in DOMAIN loads, Loading(i) \/ LoseLoad(i)
        PROVE  observer' \in O
    <3>1. loads[i] \in Load
      BY <1>0 DEF TabOK
    <3>2. loads[i].by \in Loaders
      BY <3>1 DEF Load
    <3>3. CASE LoadFails(i) \/ LoseLoad(i)
      <4>1. observer' = IF loads[i].by = "completion" THEN observer
                        ELSE [observer EXCEPT ![loads[i].by] = "waiting"]
        BY <3>3 DEF LoadFails, LoseLoad, Drop
      <4>. QED
        BY <1>1, <1>3, <3>2, <4>1 DEF Loaders
    <3>4. CASE ReadRuntime(i) \/ ReadFile(i) \/ Arrive(i)
      BY <1>1, <1>2, <3>4 DEF ReadRuntime, ReadFile, Arrive
    <3>. QED
      BY <2>1, <3>3, <3>4 DEF Loading
  <2>2. ASSUME NEW loop \in {"events", "reconcile"}, Start(loop)
        PROVE  observer' \in O
    BY <1>3, <2>2 DEF Start
  <2>3. CASE Connect \/ StreamEnds \/ LoseStream
    BY <1>2, <2>3 DEF Connect, StreamEnds, LoseStream
  <2>4. CASE UNCHANGED observer
    BY <1>1, <2>4
  <2>5. \/ UNCHANGED observer \/ Connect \/ StreamEnds \/ LoseStream
        \/ \E i \in DOMAIN loads : Loading(i) \/ LoseLoad(i)
        \/ \E loop \in {"events", "reconcile"} : Start(loop)
    BY DEF Next, vars, Admit, Submit, Hear, LosePost, Running, Activate, RunStarts, RunFinishes,
           Release, Close, Deliver, LoadCompletion, Restart
  <2>. QED
    BY <2>1, <2>2, <2>3, <2>4, <2>5
<1>. QED
  BY <1>4, <1>5, <1>6 DEF O

\* The server after any step.
LEMMA ServerStep ==
  ASSUME ServerOK, ServerInv, failures \in 0 .. MaxFailures, [Next]_vars
  PROVE  ServerOK' /\ ServerInv' /\ ReceiptsGrow
<1>1. CASE UNCHANGED <<server, stream, post>> /\ failures' \in {failures, failures + 1}
  <2>1. started'.registry <= failures'
    BY <1>1, BoundsAssumption DEF server, ServerInv, ServerOK
  <2>2. ServerOK'
    BY <1>1 DEF server, ServerOK
  <2>3. ServerInv'
    BY <1>1, <2>1 DEF server, ServerInv
  <2>. QED
    BY <1>1, <2>2, <2>3 DEF server, ReceiptsGrow
<1>2. CASE Next
  <2>1. CASE \E q \in Requests : Admit(q) \/ Submit(q) \/ Hear(q) \/ LosePost(q)
    BY <2>1, AdmitServer, PromptServer
  <2>2. CASE Running \/ Connect \/ Close \/ Restart \/ Deliver \/ StreamEnds \/ LoseStream
    BY <2>2, RunningServer, ConnectServer, EndServer, StreamServer
  <2>3. CASE \/ LoadCompletion \/ \E loop \in {"events", "reconcile"} : Start(loop)
             \/ \E i \in DOMAIN loads : Loading(i) \/ LoseLoad(i)
    BY <1>1, <2>3 DEF LoadCompletion, Start, Loading, ReadRuntime, ReadFile, Arrive, LoadFails,
                      LoseLoad, Drop, Fail
  <2>. QED
    BY <1>2, <2>1, <2>2, <2>3 DEF Next
<1>. QED
  BY <1>1, <1>2 DEF vars, server

-----------------------------------------------------------------------------
(* The theorems *)

\* The invariant always holds.
LEMMA ClientInvariance == Spec => []ClientInv
<1>1. Init => ClientInv
  <2>. SUFFICES ASSUME Init PROVE ClientInv
    OBVIOUS
  <2>1. /\ started.registry = 0 /\ started.epoch = 0
        /\ started \in [registry : 0 .. MaxFailures, epoch : 0 .. MaxRuntimes]
    BY BoundsAssumption DEF Init
  <2>2. receipt \in [Requests -> Receipts] /\ \A q \in Requests : receipt[q] = "none"
    BY DEF Init, NoReceipts, Receipts
  <2>3. loads \in Seq(Load) /\ log \in Seq(Event) /\ DOMAIN loads = {}
    BY DEF Init
  <2>4. observer \in [events : {"waiting", "loading", "connecting", "streaming"},
                      reconcile : {"waiting", "loading"}]
    BY DEF Init
  <2>5. ServerOK
    BY <2>1, <2>2, <2>3 DEF Init, ServerOK
  <2>6. TabOK
    BY <2>3, <2>4, EmptyUiType, BoundsAssumption DEF Init, TabOK, Runs
  <2>7. ServerInv
    BY <2>1, <2>2, BoundsAssumption DEF Init, ServerInv
  <2>. QED
    BY <2>3, <2>5, <2>6, <2>7, Parts DEF ClientInv, ReceiptInv
<1>2. ClientInv /\ [Next]_vars => ClientInv'
  <2>. SUFFICES ASSUME ClientInv, [Next]_vars PROVE ClientInv'
    OBVIOUS
  <2>0. TypeOK /\ ServerOK /\ TabOK /\ ServerInv /\ ReceiptInv /\ failures \in 0 .. MaxFailures
    BY Parts DEF ClientInv, TabOK
  <2>1. ServerOK' /\ ServerInv' /\ ReceiptsGrow
    BY <2>0, ServerStep
  <2>2. loads' \in Seq(Load) /\ \A k \in DOMAIN loads' : ReceiptsOf(k)
    BY <2>0, LoadsStep
  <2>3. TabOK'
    BY <2>2, UiStep, LoopsStep DEF TabOK
  <2>4. ReceiptInv'
    <3>1. \A q \in Requests : NoReceipts[q] # "entered"
      BY DEF NoReceipts
    <3>. QED
      BY <2>0, <2>1, <2>2, <3>1 DEF ReceiptInv, ReceiptsOf, ReceiptsGrow
  <2>5. TypeOK'
    BY <2>1, <2>3 DEF TypeOK, ServerOK, TabOK
  <2>. QED
    BY <2>1, <2>4, <2>5 DEF ClientInv
<1>. QED
  BY <1>1, <1>2, PTL DEF Spec

\* The server's runtime and file, the stream, the loads and what the tab shows
\* always have their types: for any prompts, loads in flight, runtimes, lost
\* connections and restarts.
THEOREM TypeCorrect == Spec => []TypeOK
<1>1. ClientInv => TypeOK
  BY DEF ClientInv
<1>. QED
  BY <1>1, ClientInvariance, PTL

\* What the user typed does not vanish (pendingPrompt of the reducer), for any
\* prompts, snapshots in any order, replays, restarts and losses.
THEOREM SubmissionsStay == Spec => NoSubmissionIsLost
<1> DEFINE Kept ==
      ui.pending # None /\ ui'.pending # ui.pending =>
       \/ receipt[ui.pending] = "entered"
       \/ PostFails
       \/ ui'.identity # ui.identity
<1>1. ClientInv /\ [Next]_vars => [Kept]_vars
  BY UiStep DEF PendingKept
<1>. HIDE DEF Kept
<1>2. Spec => [][Kept]_vars
  BY <1>1, ClientInvariance, PTL DEF Spec
<1>. QED
  BY <1>2, PTL DEF NoSubmissionIsLost, Kept
=============================================================================
