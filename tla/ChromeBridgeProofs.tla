-------------------------- MODULE ChromeBridgeProofs --------------------------
(***************************************************************************)
(* Proofs about ChromeBridge, for any commands, connectors and requests:   *)
(* it keeps the promise of ChromeCommand.                                  *)
(***************************************************************************)
EXTENDS ChromeBridge, FiniteSetTheorems, SequenceTheorems, TLAPS

\* The caller was told something, or its answer is already decided.
Known(c) == told[c] # "none" \/ reply[c] # "none"

\* It is, or a result is being completed, which nothing interrupts but the end of
\* the process.
Answered(c) ==
  Known(c) \/ \E h \in Handlers : handler[h].stage = "completing" /\ handler[h].cmd = c

IsTrue(c, res) == res \in {"ok", "failed"} => ran[c] = res

\* The command c was delivered to k once: it will not be queued again, nobody
\* is told that it never runs, and it is in flight until its answer is decided.
Sent(k, c) ==
  /\ sender[c].pc \in {"await", "done"} /\ sender[c].box \in {k, Nowhere}
  /\ box[k].pending[c] # "queued" /\ (box[k].pending[c] = "no" => Known(c))
  /\ told[c] # "never" /\ reply[c] # "never"

\* Only the mailbox of the current connector is open. What is pending in it has a caller
\* who has not left, what is queued has been offered, what is completing has a handler.
BoxInv ==
  /\ ~up => current = Nobody
  /\ \A k \in Connectors : IF k = current THEN box[k].open ELSE box[k] = ClosedBox
  /\ \A k \in Connectors, c \in Cmds : box[k].pending[c] # "no" => sender[c].box = k
  /\ \A k \in Connectors : \A i \in 1 .. Len(box[k].queue) :
       sender[box[k].queue[i]].pc \in {"await", "done"}
  /\ \A k \in Connectors, c \in Cmds : box[k].pending[c] = "completing" =>
       \E h \in Handlers :
         handler[h].stage = "completing" /\ handler[h].cmd = c /\ handler[h].box = k

\* A caller who holds a mailbox waits at the current one; one who left was told;
\* what callers are told is true; what has begun was delivered.
CallerInv ==
  \A c \in Cmds :
    /\ sender[c].box # Nowhere =>
         sender[c].pc \in {"offer", "await"} /\ sender[c].box = current /\ sender[c].epoch = epoch
    /\ sender[c].pc = "done" => told[c] # "none"
    /\ told[c] = "never" => sender[c].pc = "done"
    /\ reply[c] = "never" => sender[c].pc \notin {"idle", "gate"} /\ sender[c].box = Nowhere
    /\ IsTrue(c, told[c]) /\ IsTrue(c, reply[c])
    /\ ran[c] # "no" => \E k \in Connectors : Sent(k, c)

\* Whoever holds the delivery permit is alone, and nothing is in flight then.
Taking(h, k) == handler[h].stage \in {"take", "claim"} /\ handler[h].box = k

FlightInv ==
  \A k \in Connectors :
    /\ \A c, d \in InFlight(k) : c = d
    /\ \A h \in Handlers : Taking(h, k) => InFlight(k) = {}
    /\ \A h, g \in Handlers : Taking(h, k) /\ Taking(g, k) => h = g

Returning == {"result", "completing", "acknowledged", "unknown"}

\* A request in progress: the mailbox it holds is the one of its connector, what it serves
\* was delivered and has not begun, and what it returns was delivered and is true.
HandlerOK(h) ==
  /\ handler[h].box # Nowhere =>
       /\ handler[h].box = handler[h].from /\ handler[h].box = current
       /\ handler[h].stage \in {"permit", "take", "claim", "completing"}
  /\ handler[h].stage = "claim" =>
       \E c \in Cmds : handler[h].cmd = c /\ sender[c].pc \in {"await", "done"}
  /\ handler[h].stage \in Returning => handler[h].cmd \in Cmds /\ handler[h].res \in Results
  /\ \A k \in Connectors, c \in Cmds : handler[h].from = k /\ handler[h].cmd = c =>
       /\ handler[h].stage = "serve" => Sent(k, c) /\ ran[c] = "no"
       /\ handler[h].stage \in Returning => Sent(k, c) /\ IsTrue(c, handler[h].res)
       /\ handler[h].stage = "completing" =>
            Known(c) \/ (handler[h].box = k /\ box[k].pending[c] = "completing")
       /\ handler[h].stage = "acknowledged" => Known(c)
       /\ handler[h].stage = "unknown" => Answered(c)

HandlerInv == \A h \in Handlers : HandlerOK(h)

\* A request that was not abandoned is the one its worker waits for.
WaitInv ==
  /\ \A h \in Handlers : handler[h].stage # "free" =>
       /\ handler[h].from \in Connectors
       /\ handler[h].live => worker[handler[h].from].pc = "wait" /\ worker[handler[h].from].at = h
  /\ \A k \in Connectors : worker[k].pc # "wait" => worker[k].at = NoHandler
  /\ \A k \in Connectors, h \in Handlers : worker[k].at = h =>
       /\ handler[h].from = k /\ handler[h].live /\ handler[h].stage # "free"
       /\ IF handler[h].stage \in Returning
          THEN journal[k].state = "result" /\ handler[h].cmd = journal[k].cmd
          ELSE journal[k] = NoEntry

\* The journal of a worker has what the worker is doing, and its results are true.
WorkerOK(k) ==
  /\ worker[k].pc \in {"record", "begin", "execute", "save"} => worker[k].cmd \in Cmds
  /\ worker[k].pc = "record" => journal[k] = NoEntry
  /\ worker[k].pc \in {"begin", "execute", "save"} =>
       journal[k].state = "executing" /\ journal[k].cmd = worker[k].cmd
  /\ worker[k].pc = "save" => worker[k].res \in Results
  /\ worker[k].pc = "clear" => journal[k].state = "result"
  /\ journal[k].state = "none" => journal[k] = NoEntry
  /\ journal[k].state # "none" => journal[k].cmd \in Cmds
  /\ journal[k].state = "executing" => worker[k].pc \in {"load", "begin", "execute", "save"}
  /\ journal[k].state = "result" => journal[k].res \in Results
  /\ worker[k].pc = "wait" => worker[k].at \in Handlers
  /\ \A c \in Cmds :
       /\ worker[k].pc = "record" /\ worker[k].cmd = c => Sent(k, c)
       /\ worker[k].pc \in {"record", "begin"} /\ worker[k].cmd = c => ran[c] = "no"
       /\ worker[k].pc = "execute" /\ worker[k].cmd = c => ran[c] = "running"
       /\ worker[k].pc = "save" /\ worker[k].cmd = c =>
            ran[c] \in {"ok", "failed"} /\ IsTrue(c, worker[k].res)
       /\ journal[k].cmd = c => Sent(k, c)
       /\ journal[k].state = "result" /\ journal[k].cmd = c => IsTrue(c, journal[k].res)
       /\ worker[k].pc = "clear" /\ journal[k].cmd = c => Answered(c)

WorkerInv == \A k \in Connectors : WorkerOK(k)

\* A command that was delivered is in one place: on its way to a worker, or with it.
Holding(k, c) == (worker[k].pc = "record" /\ worker[k].cmd = c) \/ journal[k].cmd = c
Serves(h, c) == handler[h].stage = "serve" /\ handler[h].cmd = c

PlaceInv ==
  \A c \in Cmds :
    /\ \A h, g \in Handlers : Serves(h, c) /\ Serves(g, c) => h = g
    /\ \A k, j \in Connectors : Holding(k, c) /\ Holding(j, c) => k = j
    /\ \A h \in Handlers, k \in Connectors : ~(Serves(h, c) /\ Holding(k, c))

BridgeInv ==
  /\ TypeOK /\ BoxInv /\ CallerInv /\ FlightInv
  /\ HandlerInv /\ WaitInv /\ WorkerInv /\ PlaceInv /\ NoResultIsDropped

-----------------------------------------------------------------------------
(* Types *)

USE NamesAssumption, LimitsAssumption

\* The initial values of the parts have their types.
LEMMA ConstantTypes ==
  /\ ClosedBox \in Mailbox /\ OpenBox \in Mailbox /\ FreeHandler \in Handler
  /\ Loading \in Worker /\ NoEntry \in Entry
  /\ ClosedBox.queue = <<>> /\ OpenBox.queue = <<>> /\ Len(<<>>) = 0
<1>1. NothingPending \in [Cmds -> {"no", "queued", "executing", "completing"}] /\ <<>> \in Seq(Cmds)
  BY DEF NothingPending
<1>2. OpenBox \in Mailbox /\ OpenBox.queue = <<>>
  BY <1>1 DEF OpenBox, Mailbox
<1>3. ClosedBox \in Mailbox /\ ClosedBox.queue = <<>>
  BY <1>2 DEF ClosedBox, Mailbox
<1> QED
  BY <1>2, <1>3, LenProperties DEF FreeHandler, Loading, NoEntry, Handler, Worker, Entry

\* What the actions put into a mailbox keeps its type and its queue.
LEMMA MailboxUpdates ==
  ASSUME NEW b \in Mailbox
  PROVE  /\ b.queue \in Seq(Cmds)
         /\ \A x \in {"never", "live", "stale"} :
              [b EXCEPT !.seen = x] \in Mailbox /\ [b EXCEPT !.seen = x].queue = b.queue
         /\ \A c \in Cmds, p \in {"no", "queued", "executing", "completing"} :
              /\ [b EXCEPT !.pending[c] = p] \in Mailbox /\ [b EXCEPT !.pending[c] = p].queue = b.queue
         /\ \A c \in Cmds :
              /\ [b EXCEPT !.pending[c] = "completing", !.seen = "live"] \in Mailbox
              /\ [b EXCEPT !.pending[c] = "completing", !.seen = "live"].queue = b.queue
BY DEF Mailbox

\* What the actions make of a caller is one.
LEMMA SenderUpdates ==
  ASSUME NEW s \in Sender
  PROVE  /\ s.box \in Connectors \cup {Nowhere}
         /\ [s EXCEPT !.box = Nowhere] \in Sender
         /\ \A pc \in {"idle", "gate", "offer", "await", "done"} :
              /\ [s EXCEPT !.pc = pc] \in Sender /\ [s EXCEPT !.pc = pc, !.box = Nowhere] \in Sender
              /\ \A e \in Nat : [s EXCEPT !.pc = pc, !.epoch = e] \in Sender
              /\ \A k \in Connectors : [s EXCEPT !.pc = pc, !.box = k] \in Sender
BY DEF Sender

\* What the actions make of a request is one.
LEMMA HandlerUpdates ==
  ASSUME NEW s \in Handler
  PROVE  /\ s.box \in Connectors \cup {Nowhere}
         /\ [s EXCEPT !.live = FALSE] \in Handler /\ [s EXCEPT !.box = Nowhere] \in Handler
         /\ [s EXCEPT !.box = Nowhere, !.live = FALSE] \in Handler
         /\ \A c \in Cmds \cup {NoCmd} :
              [s EXCEPT !.stage = "serve", !.box = Nowhere, !.cmd = c] \in Handler
BY DEF Handler

\* One mailbox changes, without a longer queue than the capacity.
LEMMA BoxTyped ==
  ASSUME TypeOK, NEW k \in Connectors, NEW b \in Mailbox, Len(b.queue) <= MaxAdmitted,
         box' = [box EXCEPT ![k] = b]
  PROVE  box' \in [Connectors -> Mailbox] /\ \A j \in Connectors : Len(box'[j].queue) <= MaxAdmitted
<1> USE DEF TypeOK
<1>1. box'[k] = b /\ \A j \in Connectors \ {k} : box'[j] = box[j]
  OBVIOUS
<1> QED
  BY <1>1

\* The initial state has its types.
LEMMA InitTyped == Init => TypeOK
<1> SUFFICES ASSUME Init PROVE TypeOK
  OBVIOUS
<1>1. [pc |-> "idle", epoch |-> 0, box |-> Nowhere] \in Sender
  BY DEF Sender
<1> QED
  BY <1>1, ConstantTypes DEF Init, TypeOK, Answers, Results

\* Callers and requests that lose a mailbox keep their types.
LEMMA DetachedTyped ==
  ASSUME TypeOK, NEW ks
  PROVE  /\ Detached(sender, ks) \in [Cmds -> Sender]
         /\ Detached(handler, ks) \in [Handlers -> Handler]
<1>0. \A c \in Cmds : sender[c] \in Sender
  BY DEF TypeOK
<1>1. \A c \in Cmds : [sender[c] EXCEPT !.box = Nowhere] \in Sender
  BY <1>0, SenderUpdates
<1>2. \A h \in Handlers : handler[h] \in Handler
  BY DEF TypeOK
<1>3. \A h \in Handlers : [handler[h] EXCEPT !.box = Nowhere] \in Handler
  BY <1>2, HandlerUpdates
<1> QED
  BY <1>1, <1>3 DEF TypeOK, Detached

\* The replies of closed mailboxes are answers.
LEMMA RepliesTyped ==
  ASSUME TypeOK, NEW ks
  PROVE  RepliesOnClose(ks) \in [Cmds -> Answers \cup {"none"}]
BY DEF TypeOK, RepliesOnClose, Answers, Results

\* A caller who leaves.
LEMMA EndTyped ==
  ASSUME TypeOK, NEW c \in Cmds, NEW answer \in Answers, End(c, answer)
  PROVE  /\ told' \in [Cmds -> Answers \cup {"none"}]
         /\ sender' \in [Cmds -> Sender]
         /\ box' \in [Connectors -> Mailbox]
         /\ \A k \in Connectors : Len(box'[k].queue) <= MaxAdmitted
<1>0. sender[c] \in Sender
  BY DEF TypeOK
<1>1. told' \in [Cmds -> Answers \cup {"none"}]
  BY DEF TypeOK, End, Tell
<1>2. [sender[c] EXCEPT !.pc = "done", !.box = Nowhere] \in Sender
  BY <1>0, SenderUpdates
<1>3. sender' \in [Cmds -> Sender]
  BY <1>2 DEF TypeOK, End
<1>4. CASE sender[c].box = Nowhere
  BY <1>1, <1>3, <1>4 DEF TypeOK, End
<1>5. CASE sender[c].box # Nowhere
  <2>1. sender[c].box \in Connectors
    BY <1>0, <1>5, SenderUpdates
  <2>2. PICK k \in Connectors : k = sender[c].box
    BY <2>1
  <2> DEFINE b == [box[k] EXCEPT !.pending[c] = "no"]
  <2>3. box' = [box EXCEPT ![k] = b]
    BY <1>5, <2>2 DEF End
  <2>4. box[k] \in Mailbox /\ Len(box[k].queue) <= MaxAdmitted
    BY DEF TypeOK
  <2>5. b \in Mailbox /\ Len(b.queue) <= MaxAdmitted
    BY <2>4, MailboxUpdates
  <2> QED
    BY <1>1, <1>3, <2>3, <2>5, BoxTyped
<1> QED
  BY <1>4, <1>5

\* The steps of callers keep all types.
LEMMA CallerTyped ==
  ASSUME TypeOK, NEW c \in Cmds,
         Send(c) \/ Caller(c) \/ Cancel(c) \/ Disconnect(c)
  PROVE  TypeOK'
<1>0. sender[c] \in Sender /\ epoch \in Nat
  BY DEF TypeOK
<1>b. \A k \in Connectors : box[k] \in Mailbox /\ Len(box[k].queue) <= MaxAdmitted
  BY DEF TypeOK
<1>1. CASE Send(c)
  <2>1. [sender[c] EXCEPT !.pc = "gate", !.epoch = epoch] \in Sender
        /\ [sender[c] EXCEPT !.pc = "done"] \in Sender
    BY <1>0, SenderUpdates
  <2>2. sender' \in [Cmds -> Sender]
    BY <1>1, <2>1 DEF TypeOK, Send
  <2>3. told' = told \/ told' = [told EXCEPT ![c] = IF @ = "none" THEN "unknown" ELSE @]
    BY <1>1 DEF Send, Tell
  <2>4. told' \in [Cmds -> Answers \cup {"none"}]
    BY <2>3 DEF TypeOK, Answers, Results
  <2> QED
    BY <1>1, <2>2, <2>4 DEF TypeOK, Send, bridge, browser
<1>2. CASE Reserve(c)
  <2>1. CASE End(c, "never")
    BY <1>2, <2>1, EndTyped DEF TypeOK, Reserve, Answers, bridge, browser
  <2>2. CASE ~End(c, "never")
    <3>1. current \in Connectors
      BY <1>2, <2>2 DEF Reserve, Live
    <3>2. PICK k \in Connectors : k = current
      BY <3>1
    <3> DEFINE b == [box[k] EXCEPT !.pending[c] = "queued"]
    <3>3. box' = [box EXCEPT ![k] = b]
      BY <1>2, <2>2, <3>2 DEF Reserve
    <3>4. b \in Mailbox /\ Len(b.queue) <= MaxAdmitted
      BY <1>b, MailboxUpdates
    <3>5. box' \in [Connectors -> Mailbox] /\ \A j \in Connectors : Len(box'[j].queue) <= MaxAdmitted
      BY <3>3, <3>4, BoxTyped
    <3>6. [sender[c] EXCEPT !.pc = "offer", !.box = current] \in Sender
      BY <1>0, <3>1, SenderUpdates
    <3>7. sender' \in [Cmds -> Sender]
      BY <1>2, <2>2, <3>6 DEF TypeOK, Reserve
    <3> QED
      BY <1>2, <2>2, <3>5, <3>7 DEF TypeOK, Reserve, bridge, browser
  <2> QED
    BY <2>1, <2>2
<1>3. CASE Offer(c)
  <2>1. CASE End(c, "never")
    BY <1>3, <2>1, EndTyped DEF TypeOK, Offer, Answers, bridge, browser
  <2>2. CASE ~End(c, "never")
    <3>1. PICK k \in Connectors : k = sender[c].box
      BY <1>0, <1>3, <2>2, SenderUpdates DEF Offer
    <3> DEFINE q == Append(box[k].queue, c)
               b == [box[k] EXCEPT !.queue = q]
    <3>2. Len(box[k].queue) < MaxAdmitted /\ box' = [box EXCEPT ![k] = b]
      BY <1>3, <2>2, <3>1 DEF Offer
    <3>a. box[k].queue \in Seq(Cmds) /\ box[k] \in Mailbox
      BY <1>b, MailboxUpdates
    <3>3. q \in Seq(Cmds) /\ Len(q) = Len(box[k].queue) + 1 /\ Len(box[k].queue) \in Nat
      BY <3>a, AppendProperties, LenProperties
    <3> HIDE DEF q
    <3>4. b \in Mailbox /\ b.queue = q
      BY <3>a, <3>3 DEF Mailbox
    <3>5. Len(b.queue) <= MaxAdmitted
      BY <3>2, <3>3, <3>4
    <3>6. box' \in [Connectors -> Mailbox] /\ \A j \in Connectors : Len(box'[j].queue) <= MaxAdmitted
      BY <3>2, <3>4, <3>5, BoxTyped
    <3>7. [sender[c] EXCEPT !.pc = "await"] \in Sender
      BY <1>0, SenderUpdates
    <3>8. sender' \in [Cmds -> Sender]
      BY <1>3, <2>2, <3>7 DEF TypeOK, Offer
    <3> QED
      BY <1>3, <2>2, <3>6, <3>8 DEF TypeOK, Offer, bridge, browser
  <2> QED
    BY <2>1, <2>2
<1>4. CASE Receive(c)
  <2>1. reply[c] \in Answers /\ End(c, reply[c])
    BY <1>4 DEF TypeOK, Receive
  <2> QED
    BY <1>4, <2>1, EndTyped DEF TypeOK, Receive, bridge, browser
<1>5. CASE GiveUp(c)
  <2>1. Withdraw(c) \in Answers /\ End(c, Withdraw(c))
    BY <1>5 DEF GiveUp, Withdraw, Answers, Results
  <2> QED
    BY <1>5, <2>1, EndTyped DEF TypeOK, GiveUp, bridge, browser
<1>6. CASE Cancel(c)
  BY <1>6, EndTyped DEF TypeOK, Cancel, Answers, bridge, browser
<1>7. CASE Disconnect(c)
  BY <1>7 DEF TypeOK, Disconnect, Tell, Answers, Results, bridge, browser
<1> QED
  BY <1>1, <1>2, <1>3, <1>4, <1>5, <1>6, <1>7 DEF Caller

\* One request changes, and at most the pending commands, the queue or the lease of
\* one mailbox.
LEMMA ServedTyped ==
  ASSUME TypeOK, NEW h \in Handlers, NEW c \in Cmds \cup {NoCmd}
  PROVE  Served(h, c) \in Handler
<1>1. handler[h] \in Handler
  BY DEF TypeOK
<1> QED
  BY <1>1, HandlerUpdates DEF Served

\* The steps of requests keep all types.
LEMMA RequestTyped ==
  ASSUME TypeOK, NEW h \in Handlers, HandlerInv, WaitInv, Requests(h)
  PROVE  TypeOK'
<1> DEFINE t == handler[h]
<1>0. t \in Handler /\ NoCmd \in Cmds \cup {NoCmd}
  BY DEF TypeOK
<1>b. \A k \in Connectors : box[k] \in Mailbox /\ Len(box[k].queue) <= MaxAdmitted
  BY DEF TypeOK
<1>1. CASE Connect(h)
  <2>1. PICK k \in Connectors : k = t.from
    BY <1>1 DEF Connect, WaitInv
  <2> DEFINE b == [box[k] EXCEPT !.seen = "live"]
  <2>2. b \in Mailbox /\ Len(b.queue) <= MaxAdmitted
    BY <1>b, MailboxUpdates
  <2>3. box' = [box EXCEPT ![k] = b] \/ box' = box
    BY <1>1, <2>1 DEF Connect
  <2>4. box' \in [Connectors -> Mailbox] /\ \A j \in Connectors : Len(box'[j].queue) <= MaxAdmitted
    BY <1>b, <2>2, <2>3, BoxTyped DEF TypeOK
  <2>5. [t EXCEPT !.stage = "permit", !.box = k] \in Handler
    BY <1>0 DEF Handler
  <2>6. handler' \in [Handlers -> Handler]
    BY <1>1, <1>0, <2>1, <2>5, ServedTyped DEF TypeOK, Connect, Handle
  <2> QED
    BY <1>1, <2>4, <2>6 DEF TypeOK, Connect, bridge, callers, browser
<1>2. CASE Permit(h)
  <2>1. [t EXCEPT !.stage = "take"] \in Handler
    BY <1>0 DEF Handler
  <2> QED
    BY <1>2, <1>0, <2>1, ServedTyped DEF TypeOK, Permit, Handle, bridge, callers, browser
<1>3. CASE Take(h)
  <2>1. PICK k \in Connectors : k = t.box
    BY <1>3, <1>0 DEF Take, Handler
  <2>2. box[k].queue \in Seq(Cmds) /\ box[k].queue # <<>>
    BY <1>b, <1>3, <2>1, MailboxUpdates DEF Take
  <2>3. Head(box[k].queue) \in Cmds /\ Tail(box[k].queue) \in Seq(Cmds)
        /\ Len(Tail(box[k].queue)) = Len(box[k].queue) - 1 /\ Len(box[k].queue) \in Nat
    BY <2>2, HeadTailProperties, LenProperties
  <2> DEFINE q == Tail(box[k].queue)
             b == [box[k] EXCEPT !.queue = q]
  <2>a. q \in Seq(Cmds) /\ Len(q) <= MaxAdmitted
    BY <1>b, <2>3
  <2> HIDE DEF q
  <2>b. box[k] \in Mailbox
    BY <1>b
  <2>c. b \in Mailbox /\ b.queue = q
    BY <2>a, <2>b DEF Mailbox
  <2>4. b \in Mailbox /\ Len(b.queue) <= MaxAdmitted
    BY <2>a, <2>c
  <2>5. [t EXCEPT !.stage = "claim", !.cmd = Head(box[k].queue)] \in Handler
    BY <1>0, <2>3 DEF Handler
  <2>6. box' = [box EXCEPT ![k] = b]
    BY <1>3, <2>1 DEF Take, q
  <2>7. box' \in [Connectors -> Mailbox] /\ \A j \in Connectors : Len(box'[j].queue) <= MaxAdmitted
    BY <2>4, <2>6, BoxTyped
  <2> QED
    BY <1>3, <2>1, <2>5, <2>7 DEF TypeOK, Take, Handle, bridge, callers, browser
<1>4. CASE Claim(h)
  <2>1. PICK k \in Connectors : k = t.box
    BY <1>4, <1>0 DEF Claim, Handler
  <2>2. PICK c \in Cmds : c = t.cmd
    BY <1>4 DEF Claim, HandlerInv, HandlerOK
  <2> DEFINE b == [box[k] EXCEPT !.pending[c] = "executing"]
  <2>3. b \in Mailbox /\ Len(b.queue) <= MaxAdmitted
    BY <1>b, MailboxUpdates
  <2>4. box' = [box EXCEPT ![k] = b] \/ box' = box
    BY <1>4, <2>1, <2>2 DEF Claim
  <2>5. box' \in [Connectors -> Mailbox] /\ \A j \in Connectors : Len(box'[j].queue) <= MaxAdmitted
    BY <1>b, <2>3, <2>4, BoxTyped DEF TypeOK
  <2>6. [t EXCEPT !.stage = "take", !.cmd = NoCmd] \in Handler
    BY <1>0 DEF Handler
  <2>a. Served(h, c) \in Handler
    BY ServedTyped
  <2>b. handler' = [handler EXCEPT ![h] = Served(h, c)]
          \/ handler' = [handler EXCEPT ![h] = [t EXCEPT !.stage = "take", !.cmd = NoCmd]]
    BY <1>4, <2>2 DEF Claim, Handle
  <2>7. handler' \in [Handlers -> Handler]
    BY <2>6, <2>a, <2>b DEF TypeOK
  <2> QED
    BY <1>4, <2>5, <2>7 DEF TypeOK, Claim, bridge, callers, browser
<1>5. CASE PollEnds(h)
  BY <1>5, <1>0, ServedTyped DEF TypeOK, PollEnds, Handle, bridge, callers, browser
<1>6. CASE Complete(h)
  <2>1. PICK k \in Connectors : k = t.from
    BY <1>6 DEF Complete, WaitInv
  <2>2. PICK c \in Cmds : c = t.cmd
    BY <1>6 DEF Complete, HandlerInv, HandlerOK, Returning
  <2> DEFINE b == [box[k] EXCEPT !.pending[c] = "completing", !.seen = "live"]
  <2>3. b \in Mailbox /\ Len(b.queue) <= MaxAdmitted
    BY <1>b, MailboxUpdates
  <2>4. box' = [box EXCEPT ![k] = b] \/ box' = box
    BY <1>6, <2>1, <2>2 DEF Complete
  <2>5. box' \in [Connectors -> Mailbox] /\ \A j \in Connectors : Len(box'[j].queue) <= MaxAdmitted
    BY <1>b, <2>3, <2>4, BoxTyped DEF TypeOK
  <2>6. [t EXCEPT !.stage = "completing", !.box = k] \in Handler /\ [t EXCEPT !.stage = "unknown"] \in Handler
    BY <1>0 DEF Handler
  <2>7. handler' \in [Handlers -> Handler]
    BY <1>6, <2>1, <2>6 DEF TypeOK, Complete, Handle
  <2> QED
    BY <1>6, <2>5, <2>7 DEF TypeOK, Complete, bridge, callers, browser
<1>7. CASE Acknowledge(h)
  <2>1. PICK c \in Cmds : c = t.cmd
    BY <1>7 DEF Acknowledge, HandlerInv, HandlerOK, Returning
  <2>2. t.res \in Results
    BY <1>7 DEF Acknowledge, HandlerInv, HandlerOK, Returning
  <2>3. reply' \in [Cmds -> Answers \cup {"none"}]
    BY <1>7, <2>1, <2>2 DEF TypeOK, Acknowledge, Answers
  <2>4. [t EXCEPT !.stage = "acknowledged", !.box = Nowhere] \in Handler
    BY <1>0 DEF Handler
  <2>5. CASE t.box = Nowhere
    BY <1>7, <2>3, <2>4, <2>5 DEF TypeOK, Acknowledge, Handle, bridge, browser
  <2>6. CASE t.box # Nowhere
    <3>1. PICK k \in Connectors : k = t.box
      BY <1>0, <2>6 DEF Handler
    <3> DEFINE b == [box[k] EXCEPT !.pending[c] = "no"]
    <3>2. b \in Mailbox /\ Len(b.queue) <= MaxAdmitted
      BY <1>b, MailboxUpdates
    <3>3. box' = [box EXCEPT ![k] = b]
      BY <1>7, <2>1, <2>6, <3>1 DEF Acknowledge
    <3>4. box' \in [Connectors -> Mailbox] /\ \A j \in Connectors : Len(box'[j].queue) <= MaxAdmitted
      BY <3>2, <3>3, BoxTyped
    <3> QED
      BY <1>7, <2>3, <2>4, <3>4 DEF TypeOK, Acknowledge, Handle, bridge, browser
  <2> QED
    BY <2>5, <2>6
<1>8. CASE Interrupt(h)
  BY <1>8, ConstantTypes DEF TypeOK, Interrupt, Handle, bridge, callers, browser
<1>9. CASE Respond(h)
  <2>1. PICK k \in Connectors : k = t.from
    BY <1>9 DEF Respond, WaitInv
  <2>2. /\ [Loading EXCEPT !.pc = "clear"] \in Worker
        /\ [Loading EXCEPT !.pc = "record", !.cmd = t.cmd] \in Worker
    BY <1>0 DEF Loading, Worker, Handler
  <2> QED
    BY <1>9, <2>1, <2>2, ConstantTypes DEF TypeOK, Respond, Handle, Work, bridge, callers
<1> QED
  BY <1>1, <1>2, <1>3, <1>4, <1>5, <1>6, <1>7, <1>8, <1>9 DEF Requests

\* One worker changes, with its journal or its request.
LEMMA LoopTyped ==
  ASSUME TypeOK, NEW k \in Connectors, WorkerInv, Loop(k)
  PROVE  TypeOK'
<1> DEFINE w == worker[k]
<1>0. w \in Worker /\ journal[k] \in Entry
  BY DEF TypeOK
<1>1. CASE LoadJournal(k)
  <2>1. [Loading EXCEPT !.pc = "handshake"] \in Worker
        /\ [journal[k] EXCEPT !.state = "result", !.res = "unknown"] \in Entry
    BY <1>0 DEF Loading, Worker, Entry, Results
  <2> QED
    BY <1>1, <2>1 DEF TypeOK, LoadJournal, Work, bridge, callers
<1>2. CASE Adopt(k)
  <2>1. [w EXCEPT !.pc = "request"] \in Worker
    BY <1>0 DEF Worker
  <2>2. worker' \in [Connectors -> Worker] /\ current' \in Connectors \cup {Nobody}
    BY <1>2, <2>1, ConstantTypes DEF TypeOK, Adopt, Work
  <2>3. CASE UNCHANGED <<box, sender, reply, handler>>
    BY <1>2, <2>2, <2>3 DEF TypeOK, Adopt
  <2>4. CASE ~UNCHANGED <<box, sender, reply, handler>>
    <3> DEFINE closed == {current} \cap Connectors
    <3>1. /\ box' = [b \in Connectors |-> IF b = k THEN OpenBox
                                          ELSE IF b \in closed THEN ClosedBox ELSE box[b]]
          /\ reply' = RepliesOnClose(closed)
          /\ sender' = Detached(sender, closed) /\ handler' = Detached(handler, closed)
      BY <1>2, <2>4 DEF Adopt
    <3>2. box' \in [Connectors -> Mailbox] /\ \A b \in Connectors : Len(box'[b].queue) <= MaxAdmitted
      BY <3>1, ConstantTypes DEF TypeOK
    <3> HIDE DEF closed
    <3>3. reply' \in [Cmds -> Answers \cup {"none"}] /\ sender' \in [Cmds -> Sender]
          /\ handler' \in [Handlers -> Handler]
      BY <3>1, RepliesTyped, DetachedTyped
    <3> QED
      BY <1>2, <2>2, <3>2, <3>3 DEF TypeOK, Adopt
  <2> QED
    BY <2>3, <2>4
<1>3. CASE Request(k)
  <2>1. /\ [FreeHandler EXCEPT !.stage = "poll", !.from = k] \in Handler
        /\ [FreeHandler EXCEPT !.stage = "result", !.from = k, !.cmd = journal[k].cmd,
              !.res = journal[k].res] \in Handler
    BY <1>0 DEF FreeHandler, Handler, Entry
  <2>2. \A h \in Handlers : [w EXCEPT !.pc = "wait", !.at = h] \in Worker
    BY <1>0 DEF Worker
  <2>3. handler' \in [Handlers -> Handler]
    BY <1>3, <2>1 DEF TypeOK, Request, Handle
  <2>4. worker' \in [Connectors -> Worker]
    BY <1>3, <2>2, ConstantTypes DEF TypeOK, Request, Work
  <2> QED
    BY <1>3, <2>3, <2>4 DEF TypeOK, Request, bridge, callers
<1>4. CASE Record(k)
  <2>1. [state |-> "executing", cmd |-> w.cmd, res |-> "none"] \in Entry
        /\ [w EXCEPT !.pc = "begin"] \in Worker
    BY <1>0 DEF Worker, Entry
  <2> QED
    BY <1>4, <2>1 DEF TypeOK, Record, Work, bridge, callers
<1>5. CASE Begin(k)
  <2>1. [w EXCEPT !.pc = "execute"] \in Worker /\ w.cmd \in Cmds
    BY <1>0, <1>5 DEF Worker, Begin, WorkerInv, WorkerOK
  <2> QED
    BY <1>5, <2>1 DEF TypeOK, Begin, Work, bridge, callers
<1>6. CASE Finish(k)
  <2>1. \A res \in Results : [w EXCEPT !.pc = "save", !.res = res] \in Worker
    BY <1>0 DEF Worker
  <2>2. w.cmd \in Cmds
    BY <1>6 DEF Finish, WorkerInv, WorkerOK
  <2>3. PICK outcome \in {"ok", "failed"}, res \in Results :
          /\ ran' = [ran EXCEPT ![w.cmd] = outcome]
          /\ worker' = [worker EXCEPT ![k] = [w EXCEPT !.pc = "save", !.res = res]]
    BY <1>6 DEF Finish, Work, Results
  <2> QED
    BY <1>6, <2>1, <2>2, <2>3 DEF TypeOK, Finish, bridge, callers
<1>7. CASE Save(k)
  <2>1. [journal[k] EXCEPT !.state = "result", !.res = w.res] \in Entry
    BY <1>0 DEF Worker, Entry
  <2> QED
    BY <1>7, <2>1, ConstantTypes DEF TypeOK, Save, Work, bridge, callers
<1>8. CASE Clear(k)
  BY <1>8, ConstantTypes DEF TypeOK, Clear, Work, bridge, callers
<1> QED
  BY <1>1, <1>2, <1>3, <1>4, <1>5, <1>6, <1>7, <1>8 DEF Loop

\* Failures and the changes of the owner keep all types.
LEMMA FailureTyped ==
  ASSUME TypeOK,
         (\E k \in Connectors : Expire(k) \/ RequestFails(k) \/ KillWorker(k))
           \/ Stop \/ Crash \/ Promote
  PROVE  TypeOK'
<1>a. \A h \in Handlers : handler[h] \in Handler
  BY DEF TypeOK
<1>b. \A c \in Cmds : sender[c] \in Sender
  BY DEF TypeOK
<1>c. ASSUME box' = [k \in Connectors |-> ClosedBox]
      PROVE  box' \in [Connectors -> Mailbox] /\ \A b \in Connectors : Len(box'[b].queue) <= MaxAdmitted
  BY <1>c, ConstantTypes
<1>d. \A n \in Nat : n + 1 \in Nat
  OBVIOUS
<1>0. \A h \in Handlers : [handler[h] EXCEPT !.live = FALSE] \in Handler
  BY <1>a, HandlerUpdates
<1>1. ASSUME NEW k \in Connectors, Expire(k) PROVE TypeOK'
  <2> DEFINE b == [box[k] EXCEPT !.seen = "stale"]
  <2>1. box[k] \in Mailbox /\ Len(box[k].queue) <= MaxAdmitted
    BY DEF TypeOK
  <2>2. b \in Mailbox /\ Len(b.queue) <= MaxAdmitted
    BY <2>1, MailboxUpdates
  <2>3. box' = [box EXCEPT ![k] = b]
    BY <1>1 DEF Expire
  <2>4. box' \in [Connectors -> Mailbox] /\ \A j \in Connectors : Len(box'[j].queue) <= MaxAdmitted
    BY <2>2, <2>3, BoxTyped
  <2> QED
    BY <1>1, <2>4 DEF TypeOK, Expire, bridge, callers, browser
<1>2. ASSUME NEW k \in Connectors, RequestFails(k) \/ KillWorker(k) PROVE TypeOK'
  BY <1>0, <1>2, ConstantTypes DEF TypeOK, RequestFails, KillWorker, Work, Abandoned, bridge, callers
<1>3. CASE Stop
  <2>1. \A h \in Handlers : [handler[h] EXCEPT !.box = Nowhere, !.live = FALSE] \in Handler
    BY <1>a, HandlerUpdates
  <2>2. box' \in [Connectors -> Mailbox] /\ \A b \in Connectors : Len(box'[b].queue) <= MaxAdmitted
    BY <1>c, <1>3 DEF Stop
  <2>3. worker' \in [Connectors -> Worker] /\ handler' \in [Handlers -> Handler]
    BY <1>3, <2>1, ConstantTypes DEF TypeOK, Stop, Disconnected
  <2>4. reply' \in [Cmds -> Answers \cup {"none"}] /\ sender' \in [Cmds -> Sender]
    BY <1>3, RepliesTyped, DetachedTyped DEF Stop
  <2>5. /\ up' \in BOOLEAN /\ epoch' \in Nat /\ current' \in Connectors \cup {Nobody}
        /\ losses' \in Nat /\ UNCHANGED <<told, journal, ran>>
    BY <1>d, <1>3 DEF TypeOK, Stop
  <2> QED
    BY <2>2, <2>3, <2>4, <2>5 DEF TypeOK
<1>4. CASE Crash
  <2>1. \A c \in Cmds : [sender[c] EXCEPT !.pc = "done", !.box = Nowhere] \in Sender
    BY <1>b, SenderUpdates
  <2>2. box' \in [Connectors -> Mailbox] /\ \A b \in Connectors : Len(box'[b].queue) <= MaxAdmitted
    BY <1>c, <1>4 DEF Crash
  <2>3. worker' \in [Connectors -> Worker] /\ handler' \in [Handlers -> Handler]
    BY <1>4, ConstantTypes DEF TypeOK, Crash, Disconnected
  <2>4. sender' \in [Cmds -> Sender]
    BY <1>4, <2>1 DEF TypeOK, Crash
  <2>5. told' \in [Cmds -> Answers \cup {"none"}]
    BY <1>4 DEF TypeOK, Crash, Answers, Results
  <2>6. /\ up' \in BOOLEAN /\ epoch' \in Nat /\ current' \in Connectors \cup {Nobody}
        /\ losses' \in Nat /\ UNCHANGED <<reply, journal, ran>>
    BY <1>d, <1>4 DEF TypeOK, Crash
  <2> QED
    BY <2>2, <2>3, <2>4, <2>5, <2>6 DEF TypeOK
<1>5. CASE Promote
  BY <1>5 DEF TypeOK, Promote, callers, browser
<1> QED
  BY <1>1, <1>2, <1>3, <1>4, <1>5

\* Every step from a state of the invariant keeps all types.
LEMMA NextTyped == BridgeInv /\ [Next]_vars => TypeOK'
<1> SUFFICES ASSUME BridgeInv, [Next]_vars PROVE TypeOK'
  OBVIOUS
<1> USE DEF BridgeInv
<1>1. CASE UNCHANGED vars
  BY <1>1 DEF TypeOK, vars
<1>2. CASE \E c \in Cmds : Send(c) \/ Caller(c) \/ Cancel(c) \/ Disconnect(c)
  BY <1>2, CallerTyped
<1>3. CASE \E h \in Handlers : Requests(h)
  BY <1>3, RequestTyped
<1>4. CASE \E k \in Connectors : Loop(k)
  BY <1>4, LoopTyped
<1>5. CASE (\E k \in Connectors : Expire(k) \/ RequestFails(k) \/ KillWorker(k))
             \/ Stop \/ Crash \/ Promote
  BY <1>5, FailureTyped
<1> QED
  BY <1>1, <1>2, <1>3, <1>4, <1>5 DEF Next

-----------------------------------------------------------------------------
(* What a step leaves alone *)

\* What was decided stays decided, what was delivered stays delivered, and what
\* the browser has finished stays as it is.
Grows ==
  /\ \A c \in Cmds : Known(c) => Known(c)'
  /\ \A c \in Cmds : Answered(c) => Answered(c)'
  /\ \A c \in Cmds : sender[c].pc \in {"await", "done"} => sender'[c].pc \in {"await", "done"}
  /\ \A k \in Connectors, c \in Cmds : Sent(k, c) => Sent(k, c)'
  /\ \A c \in Cmds : ran[c] \in {"ok", "failed"} => ran'[c] = ran[c]

\* A request that does not change stays in order while others make progress, unless it
\* loses its connector or what it serves begins.
LEMMA HandlerKeeps ==
  ASSUME Grows, NEW h \in Handlers, HandlerOK(h),
         /\ handler'[h].stage = handler[h].stage /\ handler'[h].from = handler[h].from
         /\ handler'[h].box = handler[h].box
         /\ handler'[h].cmd = handler[h].cmd /\ handler'[h].res = handler[h].res,
         current' = current \/ handler[h].box = Nowhere,
         \A c \in Cmds : Serves(h, c) => ran'[c] = ran[c],
         \A k \in Connectors, c \in Cmds :
           handler[h].stage = "completing" /\ handler[h].cmd = c /\ box[k].pending[c] = "completing"
             => Known(c)' \/ box'[k].pending[c] = "completing"
  PROVE  HandlerOK(h)'
<1> USE DEF Grows
<1>1. /\ handler'[h].box # Nowhere =>
           /\ handler'[h].box = handler'[h].from /\ handler'[h].box = current'
           /\ handler'[h].stage \in {"permit", "take", "claim", "completing"}
      /\ handler'[h].stage \in Returning => handler'[h].cmd \in Cmds /\ handler'[h].res \in Results
  BY DEF HandlerOK
<1>2. handler'[h].stage = "claim" =>
        \E c \in Cmds : handler'[h].cmd = c /\ sender'[c].pc \in {"await", "done"}
  BY DEF HandlerOK
<1>3. ASSUME NEW k \in Connectors, NEW c \in Cmds, handler'[h].from = k, handler'[h].cmd = c
      PROVE  /\ handler'[h].stage = "serve" => Sent(k, c)' /\ ran'[c] = "no"
             /\ handler'[h].stage \in Returning => Sent(k, c)' /\ IsTrue(c, handler[h].res)'
             /\ handler'[h].stage = "completing" =>
                  Known(c)' \/ (handler'[h].box = k /\ box'[k].pending[c] = "completing")
             /\ handler'[h].stage = "acknowledged" => Known(c)'
             /\ handler'[h].stage = "unknown" => Answered(c)'
  <2>1. handler'[h].stage = "serve" => Sent(k, c)' /\ ran'[c] = "no"
    BY <1>3 DEF HandlerOK, Serves
  <2>2. ASSUME handler'[h].stage \in Returning
        PROVE  Sent(k, c)' /\ IsTrue(c, handler[h].res)'
    BY <1>3, <2>2 DEF HandlerOK, IsTrue
  <2>3. handler'[h].stage = "completing" =>
          Known(c)' \/ (handler'[h].box = k /\ box'[k].pending[c] = "completing")
    BY <1>3 DEF HandlerOK
  <2>4. /\ handler'[h].stage = "acknowledged" => Known(c)'
        /\ handler'[h].stage = "unknown" => Answered(c)'
    BY <1>3 DEF HandlerOK
  <2> QED
    BY <2>1, <2>2, <2>3, <2>4
<1> QED
  BY <1>1, <1>2, <1>3 DEF HandlerOK

\* So does a worker, unless what it holds begins or ends.
LEMMA WorkerKeeps ==
  ASSUME Grows, NEW k \in Connectors, WorkerOK(k), worker'[k] = worker[k], journal'[k] = journal[k],
         \A c \in Cmds : Holding(k, c) => ran'[c] = ran[c]
  PROVE  WorkerOK(k)'
<1> USE DEF Grows
<1>1. ASSUME NEW c \in Cmds
      PROVE  /\ worker'[k].pc = "record" /\ worker'[k].cmd = c => Sent(k, c)'
             /\ worker'[k].pc \in {"record", "begin"} /\ worker'[k].cmd = c => ran'[c] = "no"
             /\ worker'[k].pc = "execute" /\ worker'[k].cmd = c => ran'[c] = "running"
             /\ worker'[k].pc = "save" /\ worker'[k].cmd = c =>
                  ran'[c] \in {"ok", "failed"} /\ IsTrue(c, worker[k].res)'
             /\ journal'[k].cmd = c => Sent(k, c)'
             /\ journal'[k].state = "result" /\ journal'[k].cmd = c => IsTrue(c, journal[k].res)'
             /\ worker'[k].pc = "clear" /\ journal'[k].cmd = c => Answered(c)'
  BY <1>1 DEF WorkerOK, Holding, IsTrue
<1> QED
  BY <1>1 DEF WorkerOK

\* No command comes to another place.
LEMMA PlaceKeeps ==
  ASSUME PlaceInv,
         \A h \in Handlers, c \in Cmds : Serves(h, c)' => Serves(h, c),
         \A k \in Connectors, c \in Cmds : Holding(k, c)' => Holding(k, c)
  PROVE  PlaceInv'
BY DEF PlaceInv

\* No result is dropped by a step that leaves the browser alone and clears a journal only
\* if its command was answered.
LEMMA ResultKeeps ==
  ASSUME TypeOK, NoResultIsDropped, Grows, ran' = ran,
         \A c \in Cmds, k \in Connectors : journal[k].cmd = c => journal'[k].cmd = c \/ Answered(c)'
  PROVE  NoResultIsDropped'
<1> SUFFICES ASSUME NEW c \in Cmds, ran'[c] \in {"ok", "failed"}
             PROVE  Answered(c)' \/ \E k \in Connectors : journal'[k].cmd = c
  BY DEF NoResultIsDropped, Answered, Known
<1>1. Answered(c) \/ \E k \in Connectors : journal[k].cmd = c
  BY DEF NoResultIsDropped, Answered, Known
<1> QED
  BY <1>1 DEF Grows

\* Nothing of the workers and of what they wait for changes.
LEMMA WaitKeeps ==
  ASSUME WaitInv, UNCHANGED <<worker, journal>>,
         \A h \in Handlers :
           \/ handler'[h] = handler[h]
           \/ /\ handler'[h].from = handler[h].from /\ handler'[h].live = handler[h].live
              /\ handler'[h].stage # "free" /\ handler[h].stage # "free"
              /\ handler'[h].stage \in Returning <=> handler[h].stage \in Returning
              /\ handler'[h].stage \in Returning => handler'[h].cmd = handler[h].cmd
           \/ handler'[h].stage = "free" /\ ~handler[h].live
  PROVE  WaitInv'
<1>1. ASSUME NEW h \in Handlers, handler'[h].stage # "free"
      PROVE  /\ handler'[h].from \in Connectors
             /\ handler'[h].live =>
                  worker'[handler'[h].from].pc = "wait" /\ worker'[handler'[h].from].at = h
  BY <1>1 DEF WaitInv
<1>2. \A k \in Connectors : worker'[k].pc # "wait" => worker'[k].at = NoHandler
  BY DEF WaitInv
<1>3. ASSUME NEW k \in Connectors, NEW h \in Handlers, worker'[k].at = h
      PROVE  /\ handler'[h].from = k /\ handler'[h].live /\ handler'[h].stage # "free"
             /\ IF handler'[h].stage \in Returning
                THEN journal'[k].state = "result" /\ handler'[h].cmd = journal'[k].cmd
                ELSE journal'[k] = NoEntry
  BY <1>3 DEF WaitInv
<1> QED
  BY <1>1, <1>2, <1>3 DEF WaitInv

-----------------------------------------------------------------------------
(* The steps of a caller *)

\* The caller c waits at the gate, reserves, offers, hears of a lost bridge, or leaves.
Enters(c) ==
  /\ sender[c].pc = "idle" /\ sender'[c].pc = "gate" /\ sender'[c].box = Nowhere
  /\ told'[c] = told[c] /\ \A k \in Connectors : box'[k].pending[c] = box[k].pending[c]
Reserves(c) ==
  /\ sender[c].pc = "gate" /\ sender'[c].pc = "offer"
  /\ sender'[c].box = current /\ sender'[c].epoch = epoch
  /\ told'[c] = told[c] /\ current \in Connectors
  /\ \A k \in Connectors :
       box'[k].pending[c] = IF k = current THEN "queued" ELSE box[k].pending[c]
Offers(c) ==
  /\ sender[c].pc = "offer" /\ sender'[c].pc = "await"
  /\ sender'[c].box = sender[c].box /\ sender'[c].epoch = sender[c].epoch
  /\ told'[c] = told[c] /\ \A k \in Connectors : box'[k].pending[c] = box[k].pending[c]
Hears(c) ==
  /\ sender'[c] = sender[c] /\ told[c] = "none" /\ told'[c] = "unknown"
  /\ \A k \in Connectors : box'[k].pending[c] = box[k].pending[c]
Leaves(c) ==
  /\ sender'[c].pc = "done" /\ sender'[c].box = Nowhere /\ told'[c] # "none"
  /\ \/ told'[c] = told[c]
     \/ told[c] = "none" /\ told'[c] \in {"unknown", reply[c]}
     \/ told[c] = "none" /\ told'[c] = "never" /\ \A k \in Connectors : ~Sent(k, c)
  /\ \A k \in Connectors : box'[k].pending[c] = "no"

CallerMoves(c) ==
  /\ UNCHANGED <<bridge, reply, handler, browser>>
  /\ \A d \in Cmds \ {c} : sender'[d] = sender[d] /\ told'[d] = told[d]
  /\ \A k \in Connectors :
       /\ box'[k].open = box[k].open /\ (k # current => box'[k] = box[k])
       /\ \A d \in Cmds \ {c} : box'[k].pending[d] = box[k].pending[d]
       /\ \A i \in 1 .. Len(box'[k].queue) :
            \/ i \in 1 .. Len(box[k].queue) /\ box'[k].queue[i] = box[k].queue[i]
            \/ box'[k].queue[i] = c /\ sender'[c].pc = "await"
  /\ Enters(c) \/ Reserves(c) \/ Offers(c) \/ Hears(c) \/ Leaves(c)

\* What changing a field of a mailbox leaves alone.
LEMMA MailboxFields ==
  ASSUME NEW b \in Mailbox, NEW c \in Cmds, NEW p, NEW q
  PROVE  /\ [b EXCEPT !.pending[c] = p].open = b.open /\ [b EXCEPT !.pending[c] = p].queue = b.queue
         /\ [b EXCEPT !.pending[c] = p].pending[c] = p
         /\ \A d \in Cmds \ {c} : [b EXCEPT !.pending[c] = p].pending[d] = b.pending[d]
         /\ [b EXCEPT !.queue = q].open = b.open /\ [b EXCEPT !.queue = q].queue = q
         /\ [b EXCEPT !.queue = q].pending = b.pending
BY DEF Mailbox

\* A caller who leaves gets a refusal only if the command was not delivered.
LEMMA EndMoves ==
  ASSUME BridgeInv, NEW c \in Cmds, NEW answer \in Answers, End(c, answer),
         UNCHANGED <<bridge, reply, handler, browser>>,
         answer = "never" => \A k \in Connectors : ~Sent(k, c),
         answer \in {"ok", "failed"} => answer = reply[c]
  PROVE  CallerMoves(c)
<1>0. /\ \A k \in Connectors : box[k] \in Mailbox
      /\ told \in [Cmds -> Answers \cup {"none"}] /\ sender \in [Cmds -> Sender]
      /\ sender[c] \in Sender /\ box \in [Connectors -> Mailbox]
  BY DEF BridgeInv, TypeOK
<1>1. told' = [told EXCEPT ![c] = IF @ = "none" THEN answer ELSE @]
      /\ sender' = [sender EXCEPT ![c] = [sender[c] EXCEPT !.pc = "done", !.box = Nowhere]]
  BY DEF End, Tell
<1>2. /\ \A d \in Cmds \ {c} : sender'[d] = sender[d] /\ told'[d] = told[d]
      /\ told'[c] = IF told[c] = "none" THEN answer ELSE told[c]
      /\ sender'[c] = [sender[c] EXCEPT !.pc = "done", !.box = Nowhere]
  BY <1>0, <1>1
<1>3. sender'[c].pc = "done" /\ sender'[c].box = Nowhere
  BY <1>0, <1>2 DEF Sender
<1>4. \A k \in Connectors : box[k].pending[c] # "no" => sender[c].box = k
  BY DEF BridgeInv, BoxInv
<1>5. sender[c].box # Nowhere => sender[c].box = current
  BY DEF BridgeInv, CallerInv
<1>6. CASE sender[c].box = Nowhere
  <2>1. box' = box /\ \A k \in Connectors : box[k].pending[c] = "no"
    BY <1>4, <1>6, NamesAssumption DEF End
  <2>2. Leaves(c)
    BY <1>2, <1>3, <2>1 DEF Leaves, Answers, Results
  <2> QED
    BY <1>2, <2>1, <2>2 DEF CallerMoves
<1>7. CASE sender[c].box # Nowhere
  <2>1. PICK j \in Connectors : j = sender[c].box
    BY <1>0, <1>7, SenderUpdates
  <2> DEFINE b == [box[j] EXCEPT !.pending[c] = "no"]
  <2>2. box' = [box EXCEPT ![j] = b]
    BY <1>7, <2>1 DEF End
  <2>3. b.open = box[j].open /\ b.queue = box[j].queue /\ b.pending[c] = "no"
        /\ \A d \in Cmds \ {c} : b.pending[d] = box[j].pending[d]
    BY <1>0, MailboxFields
  <2> HIDE DEF b
  <2>4. box'[j] = b /\ \A k \in Connectors \ {j} : box'[k] = box[k]
    BY <1>0, <2>2
  <2>5. \A k \in Connectors : box'[k].pending[c] = "no"
    BY <1>4, <2>1, <2>3, <2>4
  <2>6. Leaves(c)
    BY <1>2, <1>3, <2>5 DEF Leaves, Answers, Results
  <2>7. \A k \in Connectors :
          /\ box'[k].open = box[k].open /\ (k # current => box'[k] = box[k])
          /\ \A d \in Cmds \ {c} : box'[k].pending[d] = box[k].pending[d]
          /\ box'[k].queue = box[k].queue
    BY <1>5, <1>7, <2>1, <2>3, <2>4
  <2> QED
    BY <1>2, <2>6, <2>7 DEF CallerMoves
<1> QED
  BY <1>6, <1>7

\* Every action of a caller is one of its moves.
LEMMA CallerStep ==
  ASSUME BridgeInv, NEW c \in Cmds, Send(c) \/ Caller(c) \/ Cancel(c) \/ Disconnect(c)
  PROVE  CallerMoves(c)
<1>0. /\ \A k \in Connectors : box[k] \in Mailbox
      /\ told \in [Cmds -> Answers \cup {"none"}] /\ sender \in [Cmds -> Sender]
      /\ sender[c] \in Sender /\ box \in [Connectors -> Mailbox]
      /\ reply[c] \in Answers \cup {"none"}
  BY DEF BridgeInv, TypeOK
<1>1. sender[c].pc \notin {"await", "done"} => \A k \in Connectors : ~Sent(k, c)
  BY DEF Sent
<1>2. sender[c].pc \notin {"offer", "await"} =>
        sender[c].box = Nowhere /\ \A k \in Connectors : box[k].pending[c] = "no"
  BY NamesAssumption DEF BridgeInv, CallerInv, BoxInv
<1>3. CASE Send(c)
  <2>1. UNCHANGED <<bridge, box, reply, handler, browser>> /\ sender[c].pc = "idle"
    BY <1>3 DEF Send
  <2>2. CASE up
    <3>1. told' = told
          /\ sender' = [sender EXCEPT ![c] = [sender[c] EXCEPT !.pc = "gate", !.epoch = epoch]]
      BY <1>3, <2>2 DEF Send
    <3>2. sender'[c] = [sender[c] EXCEPT !.pc = "gate", !.epoch = epoch]
          /\ \A d \in Cmds \ {c} : sender'[d] = sender[d]
      BY <1>0, <3>1
    <3>3. sender'[c].pc = "gate" /\ sender'[c].box = sender[c].box
      BY <1>0, <3>2 DEF Sender
    <3>4. Enters(c)
      BY <1>2, <1>3, <2>1, <3>1, <3>3 DEF Enters, Send
    <3> QED
      BY <2>1, <3>1, <3>2, <3>4 DEF CallerMoves
  <2>3. CASE ~up
    <3>1. told' = [told EXCEPT ![c] = IF @ = "none" THEN "unknown" ELSE @]
          /\ sender' = [sender EXCEPT ![c] = [sender[c] EXCEPT !.pc = "done"]]
      BY <1>3, <2>3 DEF Send, Tell
    <3>2. /\ sender'[c] = [sender[c] EXCEPT !.pc = "done"]
          /\ \A d \in Cmds \ {c} : sender'[d] = sender[d] /\ told'[d] = told[d]
          /\ told'[c] = IF told[c] = "none" THEN "unknown" ELSE told[c]
      BY <1>0, <3>1
    <3>3. sender'[c].pc = "done" /\ sender'[c].box = sender[c].box
      BY <1>0, <3>2 DEF Sender
    <3>4. sender[c].box = Nowhere /\ \A k \in Connectors : box'[k].pending[c] = "no"
      BY <1>2, <2>1
    <3>5. Leaves(c)
      BY <3>2, <3>3, <3>4 DEF Leaves
    <3> QED
      BY <2>1, <3>2, <3>5 DEF CallerMoves
  <2> QED
    BY <2>2, <2>3
<1>4. CASE Reserve(c)
  <2>1. UNCHANGED <<bridge, reply, handler, browser>> /\ sender[c].pc = "gate"
    BY <1>4 DEF Reserve
  <2>2. CASE End(c, "never")
    BY <1>1, <2>1, <2>2, EndMoves DEF Answers
  <2>3. CASE ~End(c, "never")
    <3>1. /\ Serving(c) /\ Live(current) /\ told' = told
          /\ box' = [box EXCEPT ![current].pending[c] = "queued"]
          /\ sender' = [sender EXCEPT ![c] = [sender[c] EXCEPT !.pc = "offer", !.box = current]]
      BY <1>4, <2>3 DEF Reserve
    <3>2. PICK j \in Connectors : j = current
      BY <3>1 DEF Live
    <3> DEFINE b == [box[j] EXCEPT !.pending[c] = "queued"]
    <3>3. box' = [box EXCEPT ![j] = b]
      BY <3>1, <3>2
    <3>4. b.open = box[j].open /\ b.queue = box[j].queue /\ b.pending[c] = "queued"
          /\ \A d \in Cmds \ {c} : b.pending[d] = box[j].pending[d]
      BY <1>0 DEF Mailbox
    <3> HIDE DEF b
    <3>5. box'[j] = b /\ \A k \in Connectors \ {j} : box'[k] = box[k]
      BY <1>0, <3>3
    <3>6. sender'[c] = [sender[c] EXCEPT !.pc = "offer", !.box = current]
          /\ \A d \in Cmds \ {c} : sender'[d] = sender[d]
      BY <1>0, <3>1
    <3>7. sender'[c].pc = "offer" /\ sender'[c].box = current /\ sender'[c].epoch = sender[c].epoch
      BY <1>0, <3>6 DEF Sender
    <3>a. \A k \in Connectors :
            box'[k].pending[c] = IF k = current THEN "queued" ELSE box[k].pending[c]
      BY <3>2, <3>4, <3>5
    <3>8. Reserves(c)
      BY <2>1, <3>1, <3>2, <3>7, <3>a DEF Reserves, Serving
    <3>9. \A k \in Connectors :
            /\ box'[k].open = box[k].open /\ (k # current => box'[k] = box[k])
            /\ \A d \in Cmds \ {c} : box'[k].pending[d] = box[k].pending[d]
            /\ box'[k].queue = box[k].queue
      BY <3>2, <3>4, <3>5
    <3> QED
      BY <2>1, <3>1, <3>6, <3>8, <3>9 DEF CallerMoves
  <2> QED
    BY <2>2, <2>3
<1>5. CASE Offer(c)
  <2>1. UNCHANGED <<bridge, reply, handler, browser>> /\ sender[c].pc = "offer"
    BY <1>5 DEF Offer
  <2>2. CASE End(c, "never")
    BY <1>1, <2>1, <2>2, EndMoves DEF Answers
  <2>3. CASE ~End(c, "never")
    <3>1. /\ sender[c].box # Nowhere /\ told' = told
          /\ box' = [box EXCEPT ![sender[c].box].queue = Append(@, c)]
          /\ sender' = [sender EXCEPT ![c] = [sender[c] EXCEPT !.pc = "await"]]
      BY <1>5, <2>3 DEF Offer
    <3>2. PICK j \in Connectors : j = sender[c].box
      BY <1>0, <3>1, SenderUpdates
    <3>3. j = current
      BY <3>1, <3>2 DEF BridgeInv, CallerInv
    <3> DEFINE q == Append(box[j].queue, c)
               b == [box[j] EXCEPT !.queue = q]
    <3>4. box' = [box EXCEPT ![j] = b]
      BY <3>1, <3>2
    <3>5. box[j].queue \in Seq(Cmds)
      BY <1>0, MailboxUpdates
    <3>6. \A i \in 1 .. Len(q) : \/ i \in 1 .. Len(box[j].queue) /\ q[i] = box[j].queue[i]
                                 \/ q[i] = c
      BY <3>5, AppendProperties, LenProperties
    <3>7. b.open = box[j].open /\ b.queue = q /\ b.pending = box[j].pending
      BY <1>0 DEF Mailbox
    <3> HIDE DEF b, q
    <3>8. box'[j] = b /\ \A k \in Connectors \ {j} : box'[k] = box[k]
      BY <1>0, <3>4
    <3>9. sender'[c] = [sender[c] EXCEPT !.pc = "await"]
          /\ \A d \in Cmds \ {c} : sender'[d] = sender[d]
      BY <1>0, <3>1
    <3>10. sender'[c].pc = "await" /\ sender'[c].box = sender[c].box /\ sender'[c].epoch = sender[c].epoch
      BY <1>0, <3>9 DEF Sender
    <3>11. \A k \in Connectors :
             /\ box'[k].open = box[k].open /\ (k # current => box'[k] = box[k])
             /\ box'[k].pending = box[k].pending
             /\ \A i \in 1 .. Len(box'[k].queue) :
                  \/ i \in 1 .. Len(box[k].queue) /\ box'[k].queue[i] = box[k].queue[i]
                  \/ box'[k].queue[i] = c
      BY <3>3, <3>6, <3>7, <3>8
    <3>12. Offers(c)
      BY <2>1, <3>1, <3>10, <3>11 DEF Offers
    <3> QED
      BY <2>1, <3>1, <3>9, <3>10, <3>11, <3>12 DEF CallerMoves
  <2> QED
    BY <2>2, <2>3
<1>6. CASE Receive(c)
  <2>1. End(c, reply[c]) /\ reply[c] \in Answers /\ UNCHANGED <<bridge, reply, handler, browser>>
    BY <1>0, <1>6 DEF Receive
  <2>2. reply[c] = "never" => \A k \in Connectors : ~Sent(k, c)
    BY DEF Sent
  <2> QED
    BY <2>1, <2>2, EndMoves
<1>7. CASE GiveUp(c)
  <2>1. End(c, Withdraw(c)) /\ UNCHANGED <<bridge, reply, handler, browser>>
    BY <1>7 DEF GiveUp
  <2>2. Withdraw(c) \in Answers /\ Withdraw(c) \notin {"ok", "failed"}
    BY DEF Withdraw, Answers, Results
  <2>3. ASSUME Withdraw(c) = "never", NEW k \in Connectors, Sent(k, c) PROVE FALSE
    BY <2>3, NamesAssumption DEF Withdraw, Sent
  <2> QED
    BY <2>1, <2>2, <2>3, EndMoves
<1>8. CASE Cancel(c)
  BY <1>1, <1>8, EndMoves DEF Cancel, Answers, Results
<1>9. CASE Disconnect(c)
  <2>1. /\ UNCHANGED <<bridge, box, sender, reply, handler, browser>> /\ told[c] = "none"
        /\ told' = [told EXCEPT ![c] = IF @ = "none" THEN "unknown" ELSE @]
    BY <1>9 DEF Disconnect, Tell
  <2>2. told'[c] = "unknown" /\ \A d \in Cmds \ {c} : told'[d] = told[d]
    BY <1>0, <2>1
  <2> QED
    BY <2>1, <2>2 DEF CallerMoves, Hears
<1> QED
  BY <1>3, <1>4, <1>5, <1>6, <1>7, <1>8, <1>9 DEF Caller

\* The moves of a caller take nothing back that was decided or delivered.
LEMMA CallerGrows ==
  ASSUME BridgeInv, NEW c \in Cmds, CallerMoves(c)
  PROVE  Grows
<1> USE DEF CallerMoves
<1>1. /\ UNCHANGED <<reply, handler, ran>>
      /\ \A d \in Cmds : (told[d] # "none" => told'[d] = told[d])
  BY DEF browser, Enters, Reserves, Offers, Hears, Leaves
<1>2. \A d \in Cmds : Known(d) => Known(d)'
  BY <1>1 DEF Known
<1>3. \A d \in Cmds : Answered(d) => Answered(d)'
  BY <1>1, <1>2 DEF Answered
<1>4. \A d \in Cmds : sender[d].pc \in {"await", "done"} => sender'[d].pc \in {"await", "done"}
  BY DEF Enters, Reserves, Offers, Hears, Leaves
<1>5. ASSUME NEW k \in Connectors, NEW d \in Cmds, Sent(k, d) PROVE Sent(k, d)'
  <2>1. CASE d # c
    BY <1>1, <1>2, <1>5, <2>1 DEF Sent
  <2>2. CASE d = c /\ Hears(c)
    BY <1>1, <1>2, <1>5, <2>2 DEF Sent, Hears
  <2>3. CASE d = c /\ Leaves(c)
    BY <1>1, <1>2, <1>5, <2>3 DEF Sent, Leaves, Known
  <2> QED
    BY <1>5, <2>1, <2>2, <2>3 DEF Sent, Enters, Reserves, Offers
<1> QED
  BY <1>1, <1>2, <1>3, <1>4, <1>5 DEF Grows

\* The moves of a caller keep the invariant.
LEMMA CallerKeeps ==
  ASSUME BridgeInv, TypeOK', NEW c \in Cmds, CallerMoves(c)
  PROVE  BridgeInv'
<1>0. /\ Grows /\ TypeOK /\ BoxInv /\ CallerInv /\ FlightInv
      /\ HandlerInv /\ WaitInv /\ WorkerInv /\ PlaceInv /\ NoResultIsDropped
  BY CallerGrows DEF BridgeInv
<1>1. UNCHANGED <<up, epoch, current, reply, handler, worker, journal, ran>>
  BY DEF CallerMoves, bridge, browser
<1>2. \A k \in Connectors, d \in Cmds :
        box'[k].pending[d] = box[k].pending[d] \/ (d = c /\ box'[k].pending[d] \in {"queued", "no"})
  BY DEF CallerMoves, Enters, Reserves, Offers, Hears, Leaves
<1>3. sender'[c].box # Nowhere =>
        sender'[c].pc \in {"offer", "await"} /\ sender'[c].box = current /\ sender'[c].epoch = epoch
  BY <1>0 DEF CallerMoves, CallerInv, Enters, Reserves, Offers, Hears, Leaves
<1>4. BoxInv'
  <2>1. \A k \in Connectors : IF k = current THEN box'[k].open ELSE box'[k] = ClosedBox
    BY <1>0 DEF CallerMoves, BoxInv
  <2>2. ASSUME NEW k \in Connectors, NEW d \in Cmds, box'[k].pending[d] # "no"
        PROVE  sender'[d].box = k
    <3>1. CASE d # c
      BY <1>0, <2>2, <3>1 DEF CallerMoves, BoxInv
    <3>2. CASE d = c /\ Reserves(c)
      BY <1>0, <2>2, <3>2, NamesAssumption DEF BoxInv, CallerInv, Reserves
    <3>3. CASE d = c /\ (Offers(c) \/ Hears(c) \/ Leaves(c))
      BY <1>0, <2>2, <3>3 DEF BoxInv, Offers, Hears, Leaves
    <3>4. CASE d = c /\ Enters(c)
      BY <1>0, <2>2, <3>4, NamesAssumption DEF BoxInv, CallerInv, Enters
    <3> QED
      BY <3>1, <3>2, <3>3, <3>4 DEF CallerMoves
  <2>3. ASSUME NEW k \in Connectors, NEW i \in 1 .. Len(box'[k].queue)
        PROVE  sender'[box'[k].queue[i]].pc \in {"await", "done"}
    <3>1. CASE box'[k].queue[i] = c /\ sender'[c].pc = "await"
      BY <3>1
    <3>2. CASE i \in 1 .. Len(box[k].queue) /\ box'[k].queue[i] = box[k].queue[i]
      <4>1. box[k].queue \in Seq(Cmds)
        BY <1>0, MailboxUpdates DEF TypeOK
      <4>2. box[k].queue[i] \in Cmds /\ sender[box[k].queue[i]].pc \in {"await", "done"}
        BY <1>0, <3>2, <4>1 DEF BoxInv
      <4> QED
        BY <1>0, <3>2, <4>2 DEF Grows
    <3> QED
      BY <3>1, <3>2 DEF CallerMoves
  <2>4. \A k \in Connectors, d \in Cmds : box'[k].pending[d] = "completing" =>
          \E h \in Handlers :
            handler'[h].stage = "completing" /\ handler'[h].cmd = d /\ handler'[h].box = k
    BY <1>0, <1>1, <1>2 DEF BoxInv
  <2>5. ~up' => current' = Nobody
    BY <1>0, <1>1 DEF BoxInv
  <2> QED
    BY <1>1, <2>1, <2>2, <2>3, <2>4, <2>5 DEF BoxInv
<1>5. CallerInv'
  <2> SUFFICES ASSUME NEW d \in Cmds
               PROVE  /\ sender'[d].box # Nowhere => /\ sender'[d].pc \in {"offer", "await"}
                                                     /\ sender'[d].box = current'
                                                     /\ sender'[d].epoch = epoch'
                      /\ sender'[d].pc = "done" => told'[d] # "none"
                      /\ told'[d] = "never" => sender'[d].pc = "done"
                      /\ reply'[d] = "never" =>
                           sender'[d].pc \notin {"idle", "gate"} /\ sender'[d].box = Nowhere
                      /\ IsTrue(d, told[d])' /\ IsTrue(d, reply[d])'
                      /\ ran'[d] # "no" => \E k \in Connectors : Sent(k, d)'
    BY DEF CallerInv
  <2>1. sender'[d].box # Nowhere =>
          sender'[d].pc \in {"offer", "await"} /\ sender'[d].box = current' /\ sender'[d].epoch = epoch'
    BY <1>0, <1>1, <1>3 DEF CallerMoves, CallerInv
  <2>2. sender'[d].pc = "done" => told'[d] # "none"
    BY <1>0 DEF CallerMoves, CallerInv, Enters, Reserves, Offers, Hears, Leaves
  <2>a. told'[d] = "never" => sender'[d].pc = "done"
    BY <1>0 DEF CallerMoves, CallerInv, Enters, Reserves, Offers, Hears, Leaves
  <2>b. reply'[d] = "never" => sender'[d].pc \notin {"idle", "gate"} /\ sender'[d].box = Nowhere
    BY <1>0, <1>1 DEF CallerMoves, CallerInv, Enters, Reserves, Offers, Hears, Leaves
  <2>3. told'[d] \in {told[d], "unknown", "never", reply[d]}
    BY DEF CallerMoves, Enters, Reserves, Offers, Hears, Leaves
  <2>4. IsTrue(d, told[d])' /\ IsTrue(d, reply[d])'
    BY <1>0, <1>1, <2>3 DEF CallerInv, IsTrue
  <2>5. ran'[d] # "no" => \E k \in Connectors : Sent(k, d)'
    BY <1>0, <1>1 DEF CallerInv, Grows
  <2> QED
    BY <2>1, <2>2, <2>a, <2>b, <2>4, <2>5
<1>6. FlightInv'
  <2>1. \A k \in Connectors, d \in Cmds : d \in InFlight(k)' => d \in InFlight(k)
    BY <1>2 DEF InFlight
  <2> QED
    BY <1>0, <1>1, <2>1 DEF FlightInv, InFlight, Taking
<1>7. HandlerInv'
  <2> SUFFICES ASSUME NEW h \in Handlers PROVE HandlerOK(h)'
    BY DEF HandlerInv
  <2>1. ASSUME NEW k \in Connectors, NEW d \in Cmds, box[k].pending[d] = "completing"
        PROVE  Known(d)' \/ box'[k].pending[d] = "completing"
    <3>1. CASE Leaves(c)
      BY <2>1, <3>1 DEF CallerMoves, Leaves, Known
    <3>2. CASE Reserves(c)
      BY <1>0, <2>1, <3>2, NamesAssumption DEF CallerMoves, BoxInv, CallerInv, Reserves
    <3> QED
      BY <2>1, <3>1, <3>2 DEF CallerMoves, Enters, Offers, Hears
  <2> QED
    BY <1>0, <1>1, <2>1, HandlerKeeps DEF HandlerInv
<1>8. WorkerInv'
  BY <1>0, <1>1, WorkerKeeps DEF WorkerInv
<1>9. WaitInv' /\ PlaceInv'
  BY <1>0, <1>1 DEF WaitInv, PlaceInv, Serves, Holding
<1>10. NoResultIsDropped'
  BY <1>0, <1>1, ResultKeeps
<1> QED
  BY <1>4, <1>5, <1>6, <1>7, <1>8, <1>9, <1>10 DEF BridgeInv

-----------------------------------------------------------------------------
(* The steps of a request *)

\* A request that decides nothing: no answer, nothing delivered, nothing completed.
Quiet(h) ==
  /\ UNCHANGED <<bridge, callers, browser>>
  /\ \A g \in Handlers \ {h} : handler'[g] = handler[g]
  /\ handler[h].stage # "completing" /\ handler'[h].stage # "completing"
  /\ \A k \in Connectors :
       /\ box'[k].open = box[k].open /\ box'[k].pending = box[k].pending
       /\ k # current => box'[k] = box[k]
       /\ \A i \in 1 .. Len(box'[k].queue) :
            \E j \in 1 .. Len(box[k].queue) : box'[k].queue[i] = box[k].queue[j]
  /\ \A k \in Connectors : Taking(h, k)' =>
       Taking(h, k) \/ (InFlight(k) = {} /\ \A g \in Handlers : ~Taking(g, k))
  /\ \A c \in Cmds : ~Serves(h, c)'
  /\ \/ handler'[h].stage = "free" /\ ~handler[h].live
     \/ /\ handler'[h].from = handler[h].from /\ handler'[h].live = handler[h].live
        /\ handler'[h].stage # "free" /\ handler[h].stage # "free"
        /\ handler'[h].stage \in Returning <=> handler[h].stage \in Returning
        /\ handler'[h].stage \in Returning => handler'[h].cmd = handler[h].cmd

\* A request that delivers and completes nothing takes nothing back.
LEMMA QuietGrows ==
  ASSUME NEW h \in Handlers, Quiet(h)
  PROVE  Grows
<1>1. UNCHANGED <<sender, reply, told, ran>>
  BY DEF Quiet, callers, browser
<1>2. \A c \in Cmds : (Known(c) => Known(c)') /\ (Answered(c) => Answered(c)')
  BY <1>1 DEF Quiet, Known, Answered
<1>3. \A k \in Connectors, c \in Cmds : Sent(k, c) => Sent(k, c)'
  BY <1>1 DEF Quiet, Sent, Known
<1> QED
  BY <1>1, <1>2, <1>3 DEF Grows

\* It keeps the invariant if it stays in order itself.
LEMMA QuietKeeps ==
  ASSUME BridgeInv, TypeOK', NEW h \in Handlers, Quiet(h), HandlerOK(h)'
  PROVE  BridgeInv'
<1>0. /\ Grows /\ TypeOK /\ BoxInv /\ CallerInv /\ FlightInv
      /\ HandlerInv /\ WaitInv /\ WorkerInv /\ PlaceInv /\ NoResultIsDropped
  BY QuietGrows DEF BridgeInv
<1>1. UNCHANGED <<up, epoch, current, sender, reply, told, worker, journal, ran>>
  BY DEF Quiet, bridge, callers, browser
<1>2. \A k \in Connectors : box'[k].pending = box[k].pending
  BY DEF Quiet
<1>3. BoxInv'
  <2>1. \A k \in Connectors : IF k = current THEN box'[k].open ELSE box'[k] = ClosedBox
    BY <1>0 DEF Quiet, BoxInv
  <2>2. \A k \in Connectors : \A i \in 1 .. Len(box'[k].queue) :
          sender[box'[k].queue[i]].pc \in {"await", "done"}
    BY <1>0 DEF Quiet, BoxInv
  <2>3. ASSUME NEW k \in Connectors, NEW c \in Cmds, box'[k].pending[c] = "completing"
        PROVE  \E g \in Handlers :
                 handler'[g].stage = "completing" /\ handler'[g].cmd = c /\ handler'[g].box = k
    <3>1. PICK g \in Handlers :
            handler[g].stage = "completing" /\ handler[g].cmd = c /\ handler[g].box = k
      BY <1>0, <1>2, <2>3 DEF BoxInv
    <3> QED
      BY <3>1 DEF Quiet
  <2> QED
    BY <1>0, <1>1, <1>2, <2>1, <2>2, <2>3 DEF BoxInv
<1>4. CallerInv'
  <2>1. \A c \in Cmds : ran'[c] # "no" => \E k \in Connectors : Sent(k, c)'
    BY <1>0, <1>1 DEF CallerInv, Grows
  <2> QED
    BY <1>0, <1>1, <2>1 DEF CallerInv, IsTrue
<1>5. FlightInv'
  <2>1. \A k \in Connectors : InFlight(k)' = InFlight(k)
    BY <1>2 DEF InFlight
  <2>2. \A k \in Connectors, g \in Handlers \ {h} : Taking(g, k)' = Taking(g, k)
    BY DEF Quiet, Taking
  <2>3. \A k \in Connectors, g \in Handlers : Taking(g, k)' => InFlight(k) = {}
    BY <1>0, <2>2 DEF Quiet, FlightInv
  <2>4. \A k \in Connectors, g, f \in Handlers : Taking(g, k)' /\ Taking(f, k)' => g = f
    BY <1>0, <2>2 DEF Quiet, FlightInv
  <2> QED
    BY <1>0, <2>1, <2>3, <2>4 DEF FlightInv
<1>6. HandlerInv'
  <2> SUFFICES ASSUME NEW g \in Handlers, g # h PROVE HandlerOK(g)'
    BY DEF HandlerInv
  <2>1. handler'[g] = handler[g] /\ HandlerOK(g)
    BY <1>0 DEF Quiet, HandlerInv
  <2> QED
    BY <1>0, <1>1, <1>2, <2>1, HandlerKeeps
<1>7. WorkerInv'
  BY <1>0, <1>1, WorkerKeeps DEF WorkerInv
<1>8. WaitInv'
  <2>1. \A g \in Handlers :
          \/ handler'[g] = handler[g]
          \/ /\ handler'[g].from = handler[g].from /\ handler'[g].live = handler[g].live
             /\ handler'[g].stage # "free" /\ handler[g].stage # "free"
             /\ handler'[g].stage \in Returning <=> handler[g].stage \in Returning
             /\ handler'[g].stage \in Returning => handler'[g].cmd = handler[g].cmd
          \/ handler'[g].stage = "free" /\ ~handler[g].live
    BY DEF Quiet
  <2> QED
    BY <1>0, <1>1, <2>1, WaitKeeps
<1>9. PlaceInv'
  <2>1. \A g \in Handlers, c \in Cmds : Serves(g, c)' => Serves(g, c)
    BY DEF Quiet, Serves
  <2>2. \A k \in Connectors, c \in Cmds : Holding(k, c)' => Holding(k, c)
    BY <1>1 DEF Holding
  <2> QED
    BY <1>0, <2>1, <2>2, PlaceKeeps
<1>10. NoResultIsDropped'
  BY <1>0, <1>1, ResultKeeps
<1> QED
  BY <1>3, <1>4, <1>5, <1>6, <1>7, <1>8, <1>9, <1>10 DEF BridgeInv

\* What a request that goes on to its response has of its mailbox and its command.
LEMMA ServedFields ==
  ASSUME TypeOK, NEW h \in Handlers, NEW c, handler' = [handler EXCEPT ![h] = Served(h, c)]
  PROVE  /\ handler'[h].stage = "serve" /\ handler'[h].box = Nowhere /\ handler'[h].cmd = c
         /\ handler'[h].from = handler[h].from /\ handler'[h].live = handler[h].live
         /\ \A g \in Handlers \ {h} : handler'[g] = handler[g]
<1>1. handler[h] \in Handler /\ handler \in [Handlers -> Handler]
  BY DEF TypeOK
<1>2. handler'[h] = Served(h, c) /\ \A g \in Handlers \ {h} : handler'[g] = handler[g]
  BY <1>1
<1> QED
  BY <1>1, <1>2 DEF Served, Handler

\* One mailbox is replaced.
LEMMA BoxUpdate ==
  ASSUME TypeOK, NEW k \in Connectors, NEW b, box' = [box EXCEPT ![k] = b]
  PROVE  box'[k] = b /\ \A j \in Connectors \ {k} : box'[j] = box[j]
BY DEF TypeOK

\* The requests after a change of one.
LEMMA HandlerUpdate ==
  ASSUME TypeOK, NEW h \in Handlers, NEW s, handler' = [handler EXCEPT ![h] = s]
  PROVE  handler'[h] = s /\ \A g \in Handlers \ {h} : handler'[g] = handler[g]
BY DEF TypeOK

\* A poll that gets no command.
LEMMA EmptyHanded ==
  ASSUME BridgeInv, TypeOK', NEW h \in Handlers, handler[h].stage \in {"poll", "permit", "take", "claim"},
         handler' = [handler EXCEPT ![h] = Served(h, NoCmd)],
         UNCHANGED <<bridge, box, callers, browser>>
  PROVE  BridgeInv'
<1>1. /\ handler'[h].stage = "serve" /\ handler'[h].box = Nowhere /\ handler'[h].cmd = NoCmd
      /\ handler'[h].from = handler[h].from /\ handler'[h].live = handler[h].live
      /\ \A g \in Handlers \ {h} : handler'[g] = handler[g]
  BY ServedFields DEF BridgeInv
<1>2. Quiet(h)
  BY <1>1, NamesAssumption DEF Quiet, Taking, Serves, Returning
<1>3. HandlerOK(h)'
  BY <1>1, NamesAssumption DEF HandlerOK, Returning
<1> QED
  BY <1>2, <1>3, QuietKeeps

\* A poll that refreshes the lease of its connector.
LEMMA ConnectKeeps ==
  ASSUME BridgeInv, TypeOK', NEW h \in Handlers, Connect(h)
  PROVE  BridgeInv'
<1>0. TypeOK /\ handler[h] \in Handler /\ \A k \in Connectors : box[k] \in Mailbox
  BY DEF BridgeInv, TypeOK
<1>1. handler[h].stage = "poll"
  BY DEF Connect
<1>2. PICK k \in Connectors : k = handler[h].from
  BY <1>1 DEF BridgeInv, WaitInv
<1>3. UNCHANGED <<bridge, callers, browser>>
  BY DEF Connect
<1>4. CASE up /\ box[k].open
  <2>1. /\ box' = [box EXCEPT ![k] = [box[k] EXCEPT !.seen = "live"]]
        /\ handler' = [handler EXCEPT ![h] = [handler[h] EXCEPT !.stage = "permit", !.box = k]]
    BY <1>2, <1>4 DEF Connect, Handle
  <2>2. /\ handler'[h] = [handler[h] EXCEPT !.stage = "permit", !.box = k]
        /\ \A g \in Handlers \ {h} : handler'[g] = handler[g]
    BY <1>0, <2>1, HandlerUpdate
  <2>3. /\ handler'[h].stage = "permit" /\ handler'[h].box = k /\ handler'[h].cmd = handler[h].cmd
        /\ handler'[h].from = handler[h].from /\ handler'[h].live = handler[h].live
    BY <1>0, <2>2 DEF Handler
  <2>4. box'[k] = [box[k] EXCEPT !.seen = "live"] /\ \A j \in Connectors \ {k} : box'[j] = box[j]
    BY <1>0, <2>1, BoxUpdate
  <2>5. box'[k].open = box[k].open /\ box'[k].pending = box[k].pending /\ box'[k].queue = box[k].queue
    BY <1>0, <2>4 DEF Mailbox
  <2>6. ClosedBox.open = FALSE
    BY DEF ClosedBox, OpenBox
  <2>7. k = current
    BY <1>4, <2>6 DEF BridgeInv, BoxInv
  <2>8. \A j \in Connectors :
          /\ box'[j].open = box[j].open /\ box'[j].pending = box[j].pending
          /\ j # current => box'[j] = box[j]
          /\ box'[j].queue = box[j].queue
    BY <2>4, <2>5, <2>7
  <2>9. Quiet(h)
    BY <1>1, <1>3, <2>2, <2>3, <2>8 DEF Quiet, Taking, Serves, Returning
  <2>10. current' = current
    BY <1>3 DEF bridge
  <2>11. HandlerOK(h)'
    BY <1>2, <2>3, <2>7, <2>10 DEF HandlerOK, Returning
  <2> QED
    BY <2>9, <2>11, QuietKeeps
<1>5. CASE ~(up /\ box[k].open)
  <2>1. box' = box /\ handler' = [handler EXCEPT ![h] = Served(h, NoCmd)]
    BY <1>2, <1>5 DEF Connect, Handle
  <2> QED
    BY <1>1, <1>3, <2>1, EmptyHanded
<1> QED
  BY <1>4, <1>5

\* A poll that gets the permit, when nothing is in flight and nobody else has it.
LEMMA PermitKeeps ==
  ASSUME BridgeInv, TypeOK', NEW h \in Handlers, Permit(h)
  PROVE  BridgeInv'
<1>0. TypeOK /\ handler[h] \in Handler /\ HandlerOK(h)
  BY DEF BridgeInv, TypeOK, HandlerInv
<1>1. handler[h].stage = "permit" /\ UNCHANGED <<bridge, box, callers, browser>>
  BY DEF Permit
<1>2. CASE handler' = [handler EXCEPT ![h] = Served(h, NoCmd)]
  BY <1>1, <1>2, EmptyHanded
<1>3. CASE handler' # [handler EXCEPT ![h] = Served(h, NoCmd)]
  <2>1. /\ handler[h].box # Nowhere /\ PermitFree(handler[h].box) /\ InFlight(handler[h].box) = {}
        /\ handler' = [handler EXCEPT ![h] = [handler[h] EXCEPT !.stage = "take"]]
    BY <1>3 DEF Permit, Handle
  <2>2. /\ handler'[h] = [handler[h] EXCEPT !.stage = "take"]
        /\ \A g \in Handlers \ {h} : handler'[g] = handler[g]
    BY <1>0, <2>1, HandlerUpdate
  <2>3. /\ handler'[h].stage = "take" /\ handler'[h].box = handler[h].box
        /\ handler'[h].from = handler[h].from /\ handler'[h].live = handler[h].live
    BY <1>0, <2>2 DEF Handler
  <2>4. \A k \in Connectors : Taking(h, k)' =>
          InFlight(k) = {} /\ \A g \in Handlers : ~Taking(g, k)
    BY <2>1, <2>3 DEF Taking, PermitFree
  <2>5. Quiet(h)
    BY <1>1, <2>2, <2>3, <2>4 DEF Quiet, Serves, Returning
  <2>6. current' = current
    BY <1>1 DEF bridge
  <2>7. HandlerOK(h)'
    BY <1>0, <2>1, <2>3, <2>6 DEF HandlerOK, Returning
  <2> QED
    BY <2>5, <2>7, QuietKeeps
<1> QED
  BY <1>2, <1>3

\* A poll that takes the first of the queue.
LEMMA TakeKeeps ==
  ASSUME BridgeInv, TypeOK', NEW h \in Handlers, Take(h)
  PROVE  BridgeInv'
<1>0. /\ TypeOK /\ handler[h] \in Handler /\ HandlerOK(h)
      /\ \A k \in Connectors : box[k] \in Mailbox
  BY DEF BridgeInv, TypeOK, HandlerInv
<1>1. handler[h].stage = "take" /\ handler[h].box # Nowhere /\ UNCHANGED <<bridge, callers, browser>>
  BY DEF Take
<1>2. PICK k \in Connectors : k = handler[h].box
  BY <1>0, <1>1, HandlerUpdates
<1>3. k = current
  BY <1>0, <1>1, <1>2 DEF HandlerOK
<1> DEFINE q == box[k].queue
<1>4. /\ q # <<>> /\ box' = [box EXCEPT ![k] = [box[k] EXCEPT !.queue = Tail(q)]]
      /\ handler' = [handler EXCEPT ![h] = [handler[h] EXCEPT !.stage = "claim", !.cmd = Head(q)]]
  BY <1>2 DEF Take, Handle
<1>5. q \in Seq(Cmds)
  BY <1>0, MailboxUpdates
<1>6. /\ Head(q) = q[1] /\ 1 \in 1 .. Len(q) /\ Head(q) \in Cmds
      /\ \A i \in 1 .. Len(Tail(q)) : i + 1 \in 1 .. Len(q) /\ Tail(q)[i] = q[i + 1]
  BY <1>4, <1>5, HeadTailProperties, LenProperties
<1>7. sender[Head(q)].pc \in {"await", "done"}
  BY <1>6 DEF BridgeInv, BoxInv
<1>8. /\ box'[k] = [box[k] EXCEPT !.queue = Tail(q)]
      /\ \A j \in Connectors \ {k} : box'[j] = box[j]
  BY <1>0, <1>4, BoxUpdate
<1>9. /\ box'[k].open = box[k].open /\ box'[k].pending = box[k].pending
      /\ box'[k].queue = Tail(q)
  BY <1>0, <1>8 DEF Mailbox
<1>10. \A j \in Connectors :
         /\ box'[j].open = box[j].open /\ box'[j].pending = box[j].pending
         /\ j # current => box'[j] = box[j]
         /\ \A i \in 1 .. Len(box'[j].queue) :
              \E n \in 1 .. Len(box[j].queue) : box'[j].queue[i] = box[j].queue[n]
  <2>1. ASSUME NEW i \in 1 .. Len(box'[k].queue)
        PROVE  \E n \in 1 .. Len(box[k].queue) : box'[k].queue[i] = box[k].queue[n]
    <3>1. i + 1 \in 1 .. Len(box[k].queue) /\ box'[k].queue[i] = box[k].queue[i + 1]
      BY <1>6, <1>9
    <3> QED
      BY <3>1
  <2>2. ASSUME NEW j \in Connectors \ {k} PROVE box'[j] = box[j]
    BY <1>8
  <2>3. ASSUME NEW j \in Connectors, NEW i \in 1 .. Len(box'[j].queue)
        PROVE  \E n \in 1 .. Len(box[j].queue) : box'[j].queue[i] = box[j].queue[n]
    BY <2>1, <2>2
  <2>4. \A j \in Connectors :
          /\ box'[j].open = box[j].open /\ box'[j].pending = box[j].pending
          /\ j # current => box'[j] = box[j]
    BY <1>3, <1>9, <2>2
  <2> QED
    BY <2>3, <2>4
<1>11. /\ handler'[h] = [handler[h] EXCEPT !.stage = "claim", !.cmd = Head(q)]
       /\ \A g \in Handlers \ {h} : handler'[g] = handler[g]
  BY <1>0, <1>4, HandlerUpdate
<1> HIDE DEF q
<1>12. /\ handler'[h].stage = "claim" /\ handler'[h].box = handler[h].box /\ handler'[h].cmd = Head(q)
       /\ handler'[h].from = handler[h].from /\ handler'[h].live = handler[h].live
  BY <1>0, <1>11 DEF Handler
<1>13. \A j \in Connectors : Taking(h, j)' => Taking(h, j)
  BY <1>1, <1>12 DEF Taking
<1>14. Quiet(h)
  BY <1>1, <1>10, <1>11, <1>12, <1>13 DEF Quiet, Serves, Returning
<1>15. current' = current /\ sender' = sender
  BY <1>1 DEF bridge, callers
<1>16. HandlerOK(h)'
  BY <1>0, <1>1, <1>6, <1>7, <1>12, <1>15 DEF HandlerOK, Returning
<1> QED
  BY <1>14, <1>16, QuietKeeps

\* A request whose connection closed.
LEMMA InterruptKeeps ==
  ASSUME BridgeInv, TypeOK', NEW h \in Handlers, Interrupt(h)
  PROVE  BridgeInv'
<1>0. TypeOK
  BY DEF BridgeInv
<1>1. /\ handler[h].stage \notin {"free", "completing"} /\ ~handler[h].live
      /\ handler' = [handler EXCEPT ![h] = FreeHandler]
      /\ UNCHANGED <<bridge, box, callers, browser>>
  BY DEF Interrupt, Handle
<1>2. handler'[h] = FreeHandler /\ \A g \in Handlers \ {h} : handler'[g] = handler[g]
  BY <1>0, <1>1, HandlerUpdate
<1>3. handler'[h].stage = "free" /\ handler'[h].box = Nowhere
  BY <1>2 DEF FreeHandler
<1>4. Quiet(h)
  BY <1>1, <1>2, <1>3 DEF Quiet, Taking, Serves
<1>5. HandlerOK(h)'
  BY <1>3 DEF HandlerOK, Returning
<1> QED
  BY <1>4, <1>5, QuietKeeps

\* A delivery: the command was not delivered before, for it was still queued or, if it was
\* in flight, the permit would not have been free.
LEMMA ClaimKeeps ==
  ASSUME BridgeInv, TypeOK', NEW h \in Handlers, Claim(h)
  PROVE  BridgeInv'
<1>0. /\ TypeOK /\ BoxInv /\ CallerInv /\ FlightInv
      /\ HandlerInv /\ WaitInv /\ WorkerInv /\ PlaceInv /\ NoResultIsDropped
  BY DEF BridgeInv
<1>t. /\ handler[h] \in Handler /\ HandlerOK(h)
      /\ \A j \in Connectors : box[j] \in Mailbox
  BY <1>0 DEF TypeOK, HandlerInv
<1>1. /\ handler[h].stage = "claim" /\ handler[h].box # Nowhere
      /\ UNCHANGED <<up, epoch, current, sender, reply, told, worker, journal, ran>>
      /\ UNCHANGED <<bridge, callers, browser>>
  BY DEF Claim, bridge, callers, browser
<1>2. PICK k \in Connectors : k = handler[h].box
  BY <1>t, <1>1, HandlerUpdates
<1>3. k = current /\ k = handler[h].from
  BY <1>t, <1>1, <1>2 DEF HandlerOK
<1>4. PICK c \in Cmds : handler[h].cmd = c /\ sender[c].pc \in {"await", "done"}
  BY <1>t, <1>1 DEF HandlerOK
<1>5. Taking(h, k) /\ InFlight(k) = {}
  BY <1>0, <1>1, <1>2 DEF FlightInv, Taking
<1>6. CASE c \notin Admitted(k)
  <2>1. box' = box /\ handler' = [handler EXCEPT ![h] = [handler[h] EXCEPT !.stage = "take", !.cmd = NoCmd]]
    BY <1>2, <1>4, <1>6 DEF Claim, Handle
  <2>2. /\ handler'[h] = [handler[h] EXCEPT !.stage = "take", !.cmd = NoCmd]
        /\ \A g \in Handlers \ {h} : handler'[g] = handler[g]
    BY <1>0, <2>1, HandlerUpdate
  <2>3. /\ handler'[h].stage = "take" /\ handler'[h].box = handler[h].box
        /\ handler'[h].from = handler[h].from /\ handler'[h].live = handler[h].live
    BY <1>t, <2>2 DEF Handler
  <2>4. \A j \in Connectors : Taking(h, j)' => Taking(h, j)
    BY <1>1, <2>3 DEF Taking
  <2>5. Quiet(h)
    BY <1>1, <2>1, <2>2, <2>3, <2>4 DEF Quiet, Serves, Returning
  <2>6. HandlerOK(h)'
    BY <1>t, <1>1, <2>3 DEF HandlerOK, Returning
  <2> QED
    BY <2>5, <2>6, QuietKeeps
<1>7. CASE c \in Admitted(k)
  <2>1. /\ box' = [box EXCEPT ![k] = [box[k] EXCEPT !.pending[c] = "executing"]]
        /\ handler' = [handler EXCEPT ![h] = Served(h, c)]
    BY <1>2, <1>4, <1>7 DEF Claim, Handle
  <2>2. /\ handler'[h].stage = "serve" /\ handler'[h].box = Nowhere /\ handler'[h].cmd = c
        /\ handler'[h].from = k /\ handler'[h].live = handler[h].live
        /\ \A g \in Handlers \ {h} : handler'[g] = handler[g]
    BY <1>0, <1>3, <2>1, ServedFields
  <2>3. /\ box'[k] = [box[k] EXCEPT !.pending[c] = "executing"]
        /\ \A j \in Connectors \ {k} : box'[j] = box[j]
    BY <1>0, <2>1, BoxUpdate
  <2>4. /\ box'[k].open = box[k].open /\ box'[k].queue = box[k].queue
        /\ box'[k].pending[c] = "executing"
        /\ \A d \in Cmds \ {c} : box'[k].pending[d] = box[k].pending[d]
    BY <1>t, <2>3 DEF Mailbox
  <2>5. box[k].pending[c] = "queued" /\ sender[c].box = k
    <3>1. box[k].pending[c] # "no" /\ box[k].pending[c] \notin {"executing", "completing"}
      BY <1>5, <1>7 DEF Admitted, InFlight
    <3> QED
      BY <1>0, <1>t, <3>1 DEF Mailbox, BoxInv
  <2>6. \A j \in Connectors : ~Sent(j, c)
    BY <2>5, NamesAssumption DEF Sent
  <2>7. ran[c] = "no"
    BY <1>0, <2>6 DEF CallerInv
  <2>8. told[c] # "never" /\ reply[c] # "never"
    BY <1>0, <2>5, NamesAssumption DEF CallerInv
  <2>9. Sent(k, c)'
    BY <1>1, <1>4, <2>4, <2>5, <2>8 DEF Sent
  <2>10. \A d \in Cmds : (Known(d) => Known(d)') /\ (Answered(d) => Answered(d)')
    BY <1>1, <2>2 DEF Known, Answered
  <2>11. ASSUME NEW j \in Connectors, NEW d \in Cmds, Sent(j, d) PROVE Sent(j, d)'
    <3>1. d # c
      BY <2>6, <2>11
    <3>2. box'[j].pending[d] = box[j].pending[d]
      BY <2>3, <2>4, <3>1
    <3> QED
      BY <1>1, <2>11, <3>2 DEF Sent, Known
  <2>12. Grows
    BY <1>1, <2>10, <2>11 DEF Grows
  <2>13. BoxInv'
    <3>1. \A j \in Connectors : IF j = current THEN box'[j].open ELSE box'[j] = ClosedBox
      <4>1. /\ \A j \in Connectors : j # current => box[j] = ClosedBox
            /\ box[k].open
        BY <1>0, <1>3 DEF BoxInv
      <4> QED
        BY <1>3, <2>3, <2>4, <4>1
    <3>2. \A j \in Connectors, d \in Cmds : box'[j].pending[d] # "no" => sender[d].box = j
      <4>1. \A j \in Connectors, d \in Cmds : box[j].pending[d] # "no" => sender[d].box = j
        BY <1>0 DEF BoxInv
      <4>2. \A j \in Connectors, d \in Cmds :
              box'[j].pending[d] = box[j].pending[d] \/ (j = k /\ d = c)
        BY <2>3, <2>4
      <4> QED
        BY <2>5, <4>1, <4>2
    <3>3. \A j \in Connectors : box'[j].queue = box[j].queue
      BY <2>3, <2>4
    <3>4. ASSUME NEW j \in Connectors, NEW d \in Cmds, box'[j].pending[d] = "completing"
          PROVE  \E g \in Handlers :
                   handler'[g].stage = "completing" /\ handler'[g].cmd = d /\ handler'[g].box = j
      <4>1. box[j].pending[d] = "completing"
        BY <2>3, <2>4, <3>4
      <4>2. PICK g \in Handlers :
              handler[g].stage = "completing" /\ handler[g].cmd = d /\ handler[g].box = j
        BY <1>0, <4>1 DEF BoxInv
      <4> QED
        BY <1>1, <2>2, <4>2
    <3> QED
      BY <1>0, <1>1, <3>1, <3>2, <3>3, <3>4 DEF BoxInv
  <2>14. CallerInv'
    BY <1>0, <1>1, <2>12 DEF CallerInv, IsTrue, Grows
  <2>15. FlightInv'
    <3>1. InFlight(k)' = {c}
      BY <1>5, <2>4 DEF InFlight
    <3>2. \A j \in Connectors \ {k} : InFlight(j)' = InFlight(j)
      BY <2>3 DEF InFlight
    <3>3. \A g \in Handlers, j \in Connectors : Taking(g, j)' => Taking(g, j) /\ g # h
      BY <2>2 DEF Taking
    <3>4. \A g \in Handlers : ~Taking(g, k)'
      BY <1>0, <1>5, <3>3 DEF FlightInv
    <3>5. \A j \in Connectors : \A d, e \in InFlight(j)' : d = e
      BY <1>0, <3>1, <3>2 DEF FlightInv
    <3>6. \A j \in Connectors, g \in Handlers : Taking(g, j)' => InFlight(j)' = {}
      BY <1>0, <3>2, <3>3, <3>4 DEF FlightInv
    <3>7. \A j \in Connectors, g, f \in Handlers : Taking(g, j)' /\ Taking(f, j)' => g = f
      BY <1>0, <3>3 DEF FlightInv
    <3> QED
      BY <3>5, <3>6, <3>7 DEF FlightInv
  <2>16. HandlerInv'
    <3> SUFFICES ASSUME NEW g \in Handlers PROVE HandlerOK(g)'
      BY DEF HandlerInv
    <3>1. CASE g = h
      BY <1>1, <2>2, <2>7, <2>9, <3>1 DEF HandlerOK, Returning
    <3>2. CASE g # h
      <4>1. handler'[g] = handler[g] /\ HandlerOK(g)
        BY <1>0, <2>2, <3>2 DEF HandlerInv
      <4>2. \A j \in Connectors, d \in Cmds : box[j].pending[d] = "completing" =>
              box'[j].pending[d] = "completing"
        BY <2>3, <2>4, <2>5
      <4> QED
        BY <1>1, <2>12, <4>1, <4>2, HandlerKeeps
    <3> QED
      BY <3>1, <3>2
  <2>17. WorkerInv'
    BY <1>0, <1>1, <2>12, WorkerKeeps DEF WorkerInv
  <2>18. WaitInv'
    <3>1. \A g \in Handlers :
            \/ handler'[g] = handler[g]
            \/ /\ handler'[g].from = handler[g].from /\ handler'[g].live = handler[g].live
               /\ handler'[g].stage # "free" /\ handler[g].stage # "free"
               /\ handler'[g].stage \in Returning <=> handler[g].stage \in Returning
               /\ handler'[g].stage \in Returning => handler'[g].cmd = handler[g].cmd
      BY <1>1, <1>3, <2>2 DEF Returning
    <3> QED
      BY <1>0, <1>1, <3>1, WaitKeeps
  <2>19. PlaceInv'
    <3>1. \A g \in Handlers : ~Serves(g, c)
      BY <1>0, <2>6 DEF Serves, HandlerInv, HandlerOK, WaitInv
    <3>2. \A j \in Connectors : ~Holding(j, c)
      BY <1>0, <2>6 DEF Holding, WorkerInv, WorkerOK
    <3>3. \A g \in Handlers, d \in Cmds : Serves(g, d)' => (g = h /\ d = c) \/ Serves(g, d)
      BY <2>2 DEF Serves
    <3>4. \A j \in Connectors, d \in Cmds : Holding(j, d)' <=> Holding(j, d)
      BY <1>1 DEF Holding
    <3> QED
      BY <1>0, <3>1, <3>2, <3>3, <3>4 DEF PlaceInv
  <2>20. NoResultIsDropped'
    BY <1>0, <1>1, <2>12, ResultKeeps
  <2> QED
    BY <2>13, <2>14, <2>15, <2>16, <2>17, <2>18, <2>19, <2>20 DEF BridgeInv
<1> QED
  BY <1>6, <1>7

\* A result that comes in while its command is in flight, or is not known any more.
LEMMA CompleteKeeps ==
  ASSUME BridgeInv, TypeOK', NEW h \in Handlers, Complete(h)
  PROVE  BridgeInv'
<1>0. /\ TypeOK /\ BoxInv /\ CallerInv /\ FlightInv
      /\ HandlerInv /\ WaitInv /\ WorkerInv /\ PlaceInv /\ NoResultIsDropped
  BY DEF BridgeInv
<1>t. /\ handler[h] \in Handler /\ HandlerOK(h)
      /\ \A j \in Connectors : box[j] \in Mailbox
  BY <1>0 DEF TypeOK, HandlerInv
<1>1. /\ handler[h].stage = "result"
      /\ UNCHANGED <<up, epoch, current, sender, reply, told, worker, journal, ran>>
      /\ UNCHANGED <<bridge, callers, browser>>
  BY DEF Complete, bridge, callers, browser
<1>2. PICK k \in Connectors : k = handler[h].from
  BY <1>0, <1>1 DEF WaitInv
<1>3. PICK c \in Cmds : handler[h].cmd = c
  BY <1>t, <1>1 DEF HandlerOK, Returning
<1>4. Sent(k, c) /\ IsTrue(c, handler[h].res) /\ handler[h].res \in Results
  BY <1>t, <1>1, <1>2, <1>3 DEF HandlerOK, Returning
<1>5. box[k].pending[c] # "no" => up /\ box[k].open /\ k = current
  <2>1. ClosedBox.pending[c] = "no"
    BY DEF ClosedBox, OpenBox, NothingPending
  <2> QED
    BY <1>0, <2>1, NamesAssumption DEF BoxInv
<1>6. CASE ~(up /\ box[k].open /\ box[k].pending[c] = "executing")
  <2>1. box' = box /\ handler' = [handler EXCEPT ![h] = [handler[h] EXCEPT !.stage = "unknown"]]
    BY <1>2, <1>3, <1>6 DEF Complete, Handle
  <2>2. /\ handler'[h] = [handler[h] EXCEPT !.stage = "unknown"]
        /\ \A g \in Handlers \ {h} : handler'[g] = handler[g]
    BY <1>0, <2>1, HandlerUpdate
  <2>3. /\ handler'[h].stage = "unknown" /\ handler'[h].box = handler[h].box
        /\ handler'[h].from = handler[h].from /\ handler'[h].live = handler[h].live
        /\ handler'[h].cmd = handler[h].cmd /\ handler'[h].res = handler[h].res
    BY <1>t, <2>2 DEF Handler
  <2>4. Quiet(h)
    BY <1>1, <2>1, <2>2, <2>3 DEF Quiet, Serves, Taking, Returning
  <2>5. Answered(c)
    <3>1. Known(c) \/ box[k].pending[c] = "completing"
      <4>1. box[k].pending[c] \in {"no", "queued", "executing", "completing"}
        BY <1>t DEF Mailbox
      <4> QED
        BY <1>4, <1>5, <1>6, <4>1 DEF Sent
    <3> QED
      BY <1>0, <3>1 DEF Answered, BoxInv
  <2>6. Grows
    BY <2>4, QuietGrows
  <2>7. Answered(c)' /\ Sent(k, c)' /\ IsTrue(c, handler[h].res)'
    BY <1>1, <1>4, <2>3, <2>5, <2>6 DEF Grows, IsTrue
  <2>8. handler'[h].box = Nowhere
    BY <1>t, <1>1, <2>3 DEF HandlerOK
  <2>9. HandlerOK(h)'
    BY <1>2, <1>3, <1>4, <2>3, <2>7, <2>8 DEF HandlerOK, Returning
  <2> QED
    BY <2>4, <2>9, QuietKeeps
<1>7. CASE up /\ box[k].open /\ box[k].pending[c] = "executing"
  <2> DEFINE b == [box[k] EXCEPT !.pending[c] = "completing", !.seen = "live"]
  <2>1. /\ box' = [box EXCEPT ![k] = b]
        /\ handler' = [handler EXCEPT ![h] = [handler[h] EXCEPT !.stage = "completing", !.box = k]]
    BY <1>2, <1>3, <1>7 DEF Complete, Handle
  <2>2. /\ handler'[h] = [handler[h] EXCEPT !.stage = "completing", !.box = k]
        /\ \A g \in Handlers \ {h} : handler'[g] = handler[g]
    BY <1>0, <2>1, HandlerUpdate
  <2>3. /\ handler'[h].stage = "completing" /\ handler'[h].box = k
        /\ handler'[h].from = handler[h].from /\ handler'[h].live = handler[h].live
        /\ handler'[h].cmd = c /\ handler'[h].res = handler[h].res
    BY <1>t, <1>3, <2>2 DEF Handler
  <2>4. box'[k] = b /\ \A j \in Connectors \ {k} : box'[j] = box[j]
    BY <1>0, <2>1, BoxUpdate
  <2>5. /\ box'[k].open = box[k].open /\ box'[k].queue = box[k].queue
        /\ box'[k].pending[c] = "completing"
        /\ \A d \in Cmds \ {c} : box'[k].pending[d] = box[k].pending[d]
    BY <1>t, <2>4 DEF Mailbox
  <2> HIDE DEF b
  <2>6. \A d \in Cmds : (Known(d) => Known(d)') /\ (Answered(d) => Answered(d)')
    BY <1>1, <2>2 DEF Known, Answered
  <2>7. ASSUME NEW j \in Connectors, NEW d \in Cmds, Sent(j, d) PROVE Sent(j, d)'
    <3>1. box'[j].pending[d] = box[j].pending[d] \/ box'[j].pending[d] = "completing"
      BY <2>4, <2>5
    <3> QED
      BY <1>1, <2>7, <3>1 DEF Sent, Known
  <2>8. Grows
    BY <1>1, <2>6, <2>7 DEF Grows
  <2>9. BoxInv'
    <3>1. \A j \in Connectors : IF j = current THEN box'[j].open ELSE box'[j] = ClosedBox
      <4>1. \A j \in Connectors : j # current => box[j] = ClosedBox
        BY <1>0 DEF BoxInv
      <4> QED
        BY <1>5, <1>7, <2>4, <2>5, <4>1
    <3>2. \A j \in Connectors, d \in Cmds : box'[j].pending[d] # "no" => sender[d].box = j
      BY <1>0, <1>7, <2>4, <2>5 DEF BoxInv
    <3>3. \A j \in Connectors : box'[j].queue = box[j].queue
      BY <2>4, <2>5
    <3>4. ASSUME NEW j \in Connectors, NEW d \in Cmds, box'[j].pending[d] = "completing"
          PROVE  \E g \in Handlers :
                   handler'[g].stage = "completing" /\ handler'[g].cmd = d /\ handler'[g].box = j
      <4>1. CASE j = k /\ d = c
        BY <2>3, <4>1
      <4>2. CASE ~(j = k /\ d = c)
        <5>1. box[j].pending[d] = "completing"
          BY <2>4, <2>5, <3>4, <4>2
        <5>2. PICK g \in Handlers :
                handler[g].stage = "completing" /\ handler[g].cmd = d /\ handler[g].box = j
          BY <1>0, <5>1 DEF BoxInv
        <5> QED
          BY <1>1, <2>2, <5>2
      <4> QED
        BY <4>1, <4>2
    <3> QED
      BY <1>0, <1>1, <3>1, <3>2, <3>3, <3>4 DEF BoxInv
  <2>10. CallerInv'
    BY <1>0, <1>1, <2>8 DEF CallerInv, IsTrue, Grows
  <2>11. FlightInv'
    <3>1. \A j \in Connectors : InFlight(j)' = InFlight(j)
      BY <1>7, <2>4, <2>5 DEF InFlight
    <3>2. \A g \in Handlers, j \in Connectors : Taking(g, j)' => Taking(g, j)
      BY <2>2, <2>3 DEF Taking
    <3> QED
      BY <1>0, <3>1, <3>2 DEF FlightInv
  <2>12. HandlerInv'
    <3> SUFFICES ASSUME NEW g \in Handlers PROVE HandlerOK(g)'
      BY DEF HandlerInv
    <3>1. CASE g = h
      <4>1. Sent(k, c)' /\ IsTrue(c, handler[h].res)'
        BY <1>1, <1>4, <2>3, <2>8 DEF Grows, IsTrue
      <4> QED
        BY <1>1, <1>2, <1>4, <1>5, <1>7, <2>3, <2>5, <3>1, <4>1 DEF HandlerOK, Returning
    <3>2. CASE g # h
      <4>1. handler'[g] = handler[g] /\ HandlerOK(g)
        BY <1>0, <2>2, <3>2 DEF HandlerInv
      <4>2. \A j \in Connectors, d \in Cmds : box[j].pending[d] = "completing" =>
              box'[j].pending[d] = "completing"
        BY <2>4, <2>5
      <4> QED
        BY <1>1, <2>8, <4>1, <4>2, HandlerKeeps
    <3> QED
      BY <3>1, <3>2
  <2>13. WorkerInv'
    BY <1>0, <1>1, <2>8, WorkerKeeps DEF WorkerInv
  <2>14. WaitInv'
    <3>1. \A g \in Handlers :
            \/ handler'[g] = handler[g]
            \/ /\ handler'[g].from = handler[g].from /\ handler'[g].live = handler[g].live
               /\ handler'[g].stage # "free" /\ handler[g].stage # "free"
               /\ handler'[g].stage \in Returning <=> handler[g].stage \in Returning
               /\ handler'[g].stage \in Returning => handler'[g].cmd = handler[g].cmd
      BY <1>1, <1>3, <2>2, <2>3 DEF Returning
    <3> QED
      BY <1>0, <1>1, <3>1, WaitKeeps
  <2>15. PlaceInv'
    <3>1. \A g \in Handlers, d \in Cmds : Serves(g, d)' => Serves(g, d)
      BY <2>2, <2>3 DEF Serves
    <3>2. \A j \in Connectors, d \in Cmds : Holding(j, d)' => Holding(j, d)
      BY <1>1 DEF Holding
    <3> QED
      BY <1>0, <3>1, <3>2, PlaceKeeps
  <2>16. NoResultIsDropped'
    BY <1>0, <1>1, <2>8, ResultKeeps
  <2> QED
    BY <2>9, <2>10, <2>11, <2>12, <2>13, <2>14, <2>15, <2>16 DEF BridgeInv
<1> QED
  BY <1>6, <1>7

\* A result that becomes the answer of its command.
LEMMA AcknowledgeKeeps ==
  ASSUME BridgeInv, TypeOK', NEW h \in Handlers, Acknowledge(h)
  PROVE  BridgeInv'
<1>0. /\ TypeOK /\ BoxInv /\ CallerInv /\ FlightInv
      /\ HandlerInv /\ WaitInv /\ WorkerInv /\ PlaceInv /\ NoResultIsDropped
  BY DEF BridgeInv
<1>t. /\ handler[h] \in Handler /\ HandlerOK(h)
      /\ \A j \in Connectors : box[j] \in Mailbox
      /\ reply \in [Cmds -> Answers \cup {"none"}]
  BY <1>0 DEF TypeOK, HandlerInv
<1>1. /\ handler[h].stage = "completing"
      /\ UNCHANGED <<up, epoch, current, sender, told, worker, journal, ran>>
  BY DEF Acknowledge, bridge, browser
<1>2. PICK k \in Connectors : k = handler[h].from
  BY <1>0, <1>1 DEF WaitInv
<1>3. PICK c \in Cmds : handler[h].cmd = c
  BY <1>t, <1>1 DEF HandlerOK, Returning
<1>4. /\ Sent(k, c) /\ IsTrue(c, handler[h].res) /\ handler[h].res \in Results
      /\ handler[h].box \in {k, Nowhere}
  BY <1>t, <1>1, <1>2, <1>3 DEF HandlerOK, Returning
<1>5. handler[h].box # Nowhere => k = current
  BY <1>t, <1>2 DEF HandlerOK
<1>6. reply' = [reply EXCEPT ![c] = IF @ = "none" THEN handler[h].res ELSE @]
  BY <1>3 DEF Acknowledge
<1>7. /\ reply'[c] = IF reply[c] = "none" THEN handler[h].res ELSE reply[c]
      /\ \A d \in Cmds \ {c} : reply'[d] = reply[d]
  BY <1>t, <1>6
<1>8. handler' = [handler EXCEPT ![h] = [handler[h] EXCEPT !.stage = "acknowledged", !.box = Nowhere]]
  BY DEF Acknowledge, Handle
<1>9. /\ handler'[h] = [handler[h] EXCEPT !.stage = "acknowledged", !.box = Nowhere]
      /\ \A g \in Handlers \ {h} : handler'[g] = handler[g]
  BY <1>0, <1>8, HandlerUpdate
<1>10. /\ handler'[h].stage = "acknowledged" /\ handler'[h].box = Nowhere
       /\ handler'[h].from = handler[h].from /\ handler'[h].live = handler[h].live
       /\ handler'[h].cmd = handler[h].cmd /\ handler'[h].res = handler[h].res
  BY <1>t, <1>9 DEF Handler
<1>11. /\ handler[h].box = Nowhere => box' = box
       /\ handler[h].box # Nowhere => box'[k].pending[c] = "no"
       /\ \A j \in Connectors :
            /\ box'[j].open = box[j].open /\ box'[j].queue = box[j].queue
            /\ j # current => box'[j] = box[j]
       /\ \A j \in Connectors, d \in Cmds :
            box'[j].pending[d] = box[j].pending[d] \/ (j = k /\ d = c /\ box'[j].pending[d] = "no")
  <2>1. CASE handler[h].box = Nowhere
    <3>1. box' = box
      BY <2>1 DEF Acknowledge
    <3> QED
      BY <2>1, <3>1
  <2>2. CASE handler[h].box # Nowhere
    <3> DEFINE b == [box[k] EXCEPT !.pending[c] = "no"]
    <3>1. box' = [box EXCEPT ![k] = b]
      BY <1>3, <1>4, <2>2 DEF Acknowledge
    <3>2. box'[k] = b /\ \A j \in Connectors \ {k} : box'[j] = box[j]
      BY <1>0, <3>1, BoxUpdate
    <3>3. /\ b.open = box[k].open /\ b.queue = box[k].queue /\ b.pending[c] = "no"
          /\ \A d \in Cmds \ {c} : b.pending[d] = box[k].pending[d]
      BY <1>t DEF Mailbox
    <3> HIDE DEF b
    <3> QED
      BY <1>5, <2>2, <3>2, <3>3
  <2> QED
    BY <2>1, <2>2
<1>12. Known(c)'
  BY <1>4, <1>7 DEF Known, Results
<1>13. \A d \in Cmds : Known(d) => Known(d)'
  BY <1>1, <1>7, <1>12 DEF Known
<1>14. \A d \in Cmds : Answered(d) => Answered(d)'
  BY <1>3, <1>9, <1>12, <1>13 DEF Answered
<1>15. ASSUME NEW j \in Connectors, NEW d \in Cmds, Sent(j, d) PROVE Sent(j, d)'
  <2>1. reply'[d] # "never"
    BY <1>4, <1>7, <1>15 DEF Sent, Results
  <2>2. box'[j].pending[d] # "queued" /\ (box'[j].pending[d] = "no" => Known(d)')
    BY <1>11, <1>12, <1>13, <1>15 DEF Sent
  <2> QED
    BY <1>1, <1>15, <2>1, <2>2 DEF Sent
<1>16. Grows
  BY <1>1, <1>13, <1>14, <1>15 DEF Grows
<1>17. BoxInv'
  <2>1. \A j \in Connectors : IF j = current THEN box'[j].open ELSE box'[j] = ClosedBox
    <3>1. \A j \in Connectors : IF j = current THEN box[j].open ELSE box[j] = ClosedBox
      BY <1>0 DEF BoxInv
    <3> QED
      BY <1>11, <3>1
  <2>2. \A j \in Connectors, d \in Cmds : box'[j].pending[d] # "no" => sender[d].box = j
    BY <1>0, <1>11 DEF BoxInv
  <2>3. ASSUME NEW j \in Connectors, NEW d \in Cmds, box'[j].pending[d] = "completing"
        PROVE  \E g \in Handlers :
                 handler'[g].stage = "completing" /\ handler'[g].cmd = d /\ handler'[g].box = j
    <3>1. box[j].pending[d] = "completing"
      BY <1>11, <2>3
    <3>2. PICK g \in Handlers :
            handler[g].stage = "completing" /\ handler[g].cmd = d /\ handler[g].box = j
      BY <1>0, <3>1 DEF BoxInv
    <3>3. g # h
      BY <1>3, <1>4, <1>11, <2>3, <3>2, NamesAssumption
    <3> QED
      BY <1>9, <3>2, <3>3
  <2>4. \A j \in Connectors : box'[j].queue = box[j].queue
    BY <1>11
  <2> QED
    BY <1>0, <1>1, <2>1, <2>2, <2>3, <2>4 DEF BoxInv
<1>18. CallerInv'
  <2> SUFFICES ASSUME NEW d \in Cmds
               PROVE  /\ IsTrue(d, reply[d])'
                      /\ reply'[d] = "never" => reply[d] = "never"
                      /\ ran'[d] # "no" => \E j \in Connectors : Sent(j, d)'
    BY <1>0, <1>1 DEF CallerInv, IsTrue
  <2>1. reply'[d] = reply[d] \/ (d = c /\ reply'[d] = handler[h].res)
    BY <1>7
  <2>2. IsTrue(d, reply[d])'
    BY <1>0, <1>1, <1>4, <2>1 DEF CallerInv, IsTrue
  <2> QED
    BY <1>0, <1>1, <1>4, <1>16, <2>1, <2>2 DEF CallerInv, Grows, Results
<1>19. FlightInv'
  <2>1. \A j \in Connectors, d \in Cmds : d \in InFlight(j)' => d \in InFlight(j)
    BY <1>11 DEF InFlight
  <2>2. \A g \in Handlers, j \in Connectors : Taking(g, j)' => Taking(g, j)
    BY <1>9, <1>10 DEF Taking
  <2>3. \A j \in Connectors : InFlight(j) = {} => InFlight(j)' = {}
    BY <2>1 DEF InFlight
  <2>4. \A j \in Connectors : \A d, e \in InFlight(j)' : d = e
    <3>1. \A j \in Connectors : InFlight(j)' \subseteq Cmds
      BY DEF InFlight
    <3> QED
      BY <1>0, <2>1, <3>1 DEF FlightInv
  <2>5. \A j \in Connectors, g \in Handlers : Taking(g, j)' => InFlight(j)' = {}
    BY <1>0, <2>2, <2>3 DEF FlightInv
  <2>6. \A j \in Connectors, g, f \in Handlers : Taking(g, j)' /\ Taking(f, j)' => g = f
    BY <1>0, <2>2 DEF FlightInv
  <2> QED
    BY <2>4, <2>5, <2>6 DEF FlightInv
<1>20. HandlerInv'
  <2> SUFFICES ASSUME NEW g \in Handlers PROVE HandlerOK(g)'
    BY DEF HandlerInv
  <2>1. CASE g = h
    <3>1. Sent(k, c)' /\ IsTrue(c, handler[h].res)'
      BY <1>1, <1>4, <1>10, <1>16 DEF Grows, IsTrue
    <3> QED
      BY <1>2, <1>3, <1>4, <1>10, <1>12, <2>1, <3>1 DEF HandlerOK, Returning
  <2>2. CASE g # h
    <3>1. handler'[g] = handler[g] /\ HandlerOK(g)
      BY <1>0, <1>9, <2>2 DEF HandlerInv
    <3>2. \A j \in Connectors, d \in Cmds : box[j].pending[d] = "completing" =>
            Known(d)' \/ box'[j].pending[d] = "completing"
      BY <1>11, <1>12
    <3> QED
      BY <1>1, <1>16, <3>1, <3>2, HandlerKeeps
  <2> QED
    BY <2>1, <2>2
<1>21. WorkerInv'
  BY <1>0, <1>1, <1>16, WorkerKeeps DEF WorkerInv
<1>22. WaitInv'
  <2>1. \A g \in Handlers :
          \/ handler'[g] = handler[g]
          \/ /\ handler'[g].from = handler[g].from /\ handler'[g].live = handler[g].live
             /\ handler'[g].stage # "free" /\ handler[g].stage # "free"
             /\ handler'[g].stage \in Returning <=> handler[g].stage \in Returning
             /\ handler'[g].stage \in Returning => handler'[g].cmd = handler[g].cmd
    BY <1>1, <1>9, <1>10 DEF Returning
  <2> QED
    BY <1>0, <1>1, <2>1, WaitKeeps
<1>23. PlaceInv'
  <2>1. \A g \in Handlers, d \in Cmds : Serves(g, d)' => Serves(g, d)
    BY <1>9, <1>10 DEF Serves
  <2>2. \A j \in Connectors, d \in Cmds : Holding(j, d)' => Holding(j, d)
    BY <1>1 DEF Holding
  <2> QED
    BY <1>0, <2>1, <2>2, PlaceKeeps
<1>24. NoResultIsDropped'
  BY <1>0, <1>1, <1>16, ResultKeeps
<1> QED
  BY <1>17, <1>18, <1>19, <1>20, <1>21, <1>22, <1>23, <1>24 DEF BridgeInv

\* A response: the command moves from the request to its worker.
LEMMA RespondKeeps ==
  ASSUME BridgeInv, TypeOK', NEW h \in Handlers, Respond(h)
  PROVE  BridgeInv'
<1>0. /\ TypeOK /\ BoxInv /\ CallerInv /\ FlightInv
      /\ HandlerInv /\ WaitInv /\ WorkerInv /\ PlaceInv /\ NoResultIsDropped
  BY DEF BridgeInv
<1>t. handler[h] \in Handler /\ HandlerOK(h) /\ worker \in [Connectors -> Worker]
  BY <1>0 DEF TypeOK, HandlerInv
<1>1. /\ handler[h].stage \in {"serve", "acknowledged", "unknown"} /\ handler[h].live
      /\ UNCHANGED <<up, epoch, current, box, sender, reply, told, journal, ran>>
      /\ handler' = [handler EXCEPT ![h] = FreeHandler]
  BY DEF Respond, Handle, bridge, callers
<1>2. PICK k \in Connectors : k = handler[h].from
  BY <1>0, <1>1 DEF WaitInv
<1>3. worker[k].pc = "wait" /\ worker[k].at = h /\ WorkerOK(k)
  BY <1>0, <1>1, <1>2 DEF WaitInv, WorkerInv
<1>4. handler'[h] = FreeHandler /\ \A g \in Handlers \ {h} : handler'[g] = handler[g]
  BY <1>0, <1>1, HandlerUpdate
<1>5. handler'[h].stage = "free" /\ handler'[h].box = Nowhere
  BY <1>4 DEF FreeHandler
<1>6. /\ \A j \in Connectors \ {k} : worker'[j] = worker[j]
      /\ worker'[k] = IF handler[h].stage # "serve" THEN [Loading EXCEPT !.pc = "clear"]
                      ELSE IF handler[h].cmd = NoCmd THEN Loading
                      ELSE [Loading EXCEPT !.pc = "record", !.cmd = handler[h].cmd]
  BY <1>t, <1>2 DEF Respond, Work
<1>7. worker'[k].at = NoHandler /\ worker'[k].pc \in {"load", "clear", "record"}
  BY <1>6 DEF Loading
<1>8. /\ worker'[k].pc = "clear" => handler[h].stage \in {"acknowledged", "unknown"}
      /\ worker'[k].pc = "record" =>
           handler[h].stage = "serve" /\ worker'[k].cmd = handler[h].cmd /\ handler[h].cmd # NoCmd
  BY <1>1, <1>6 DEF Loading
<1>9. IF handler[h].stage = "serve" THEN journal[k] = NoEntry
      ELSE journal[k].state = "result" /\ handler[h].cmd = journal[k].cmd
  BY <1>0, <1>1, <1>3 DEF WaitInv, Returning
<1>10. Grows
  <2>1. \A c \in Cmds : (Known(c) => Known(c)') /\ (Answered(c) => Answered(c)')
    BY <1>1, <1>4 DEF Known, Answered
  <2>2. \A j \in Connectors, c \in Cmds : Sent(j, c) => Sent(j, c)'
    BY <1>1 DEF Sent, Known
  <2> QED
    BY <1>1, <2>1, <2>2 DEF Grows
<1>11. BoxInv'
  <2>1. ASSUME NEW j \in Connectors, NEW c \in Cmds, box'[j].pending[c] = "completing"
        PROVE  \E g \in Handlers :
                 handler'[g].stage = "completing" /\ handler'[g].cmd = c /\ handler'[g].box = j
    <3>1. PICK g \in Handlers :
            handler[g].stage = "completing" /\ handler[g].cmd = c /\ handler[g].box = j
      BY <1>0, <1>1, <2>1 DEF BoxInv
    <3> QED
      BY <1>1, <1>4, <3>1
  <2> QED
    BY <1>0, <1>1, <2>1 DEF BoxInv
<1>12. CallerInv'
  BY <1>0, <1>1, <1>10 DEF CallerInv, IsTrue, Grows
<1>13. FlightInv'
  <2>1. \A j \in Connectors : InFlight(j)' = InFlight(j)
    BY <1>1 DEF InFlight
  <2>2. \A g \in Handlers, j \in Connectors : Taking(g, j)' => Taking(g, j)
    BY <1>4, <1>5 DEF Taking
  <2> QED
    BY <1>0, <2>1, <2>2 DEF FlightInv
<1>14. HandlerInv'
  <2> SUFFICES ASSUME NEW g \in Handlers PROVE HandlerOK(g)'
    BY DEF HandlerInv
  <2>1. CASE g = h
    BY <1>5, <2>1 DEF HandlerOK, Returning
  <2>2. CASE g # h
    <3>1. handler'[g] = handler[g] /\ HandlerOK(g)
      BY <1>0, <1>4, <2>2 DEF HandlerInv
    <3> QED
      BY <1>1, <1>10, <3>1, HandlerKeeps
  <2> QED
    BY <2>1, <2>2
<1>15. WorkerInv'
  <2> SUFFICES ASSUME NEW j \in Connectors PROVE WorkerOK(j)'
    BY DEF WorkerInv
  <2>1. CASE j # k
    BY <1>0, <1>1, <1>6, <1>10, <2>1, WorkerKeeps DEF WorkerInv
  <2>2. CASE j = k
    <3>1. ASSUME NEW c \in Cmds, worker'[k].pc = "record", worker'[k].cmd = c
          PROVE  Sent(k, c)' /\ ran'[c] = "no"
      BY <1>t, <1>1, <1>2, <1>8, <1>10, <3>1 DEF HandlerOK, Grows
    <3>2. worker'[k].pc = "record" => worker'[k].cmd \in Cmds /\ journal'[k] = NoEntry
      BY <1>t, <1>1, <1>8, <1>9 DEF Handler
    <3>3. ASSUME NEW c \in Cmds, worker'[k].pc = "clear", journal'[k].cmd = c
          PROVE  Answered(c)'
      <4>1. handler[h].cmd = c
        BY <1>1, <1>8, <1>9, <3>3
      <4>2. Answered(c)
        BY <1>t, <1>2, <1>8, <3>3, <4>1 DEF HandlerOK, Answered
      <4> QED
        BY <1>10, <4>2 DEF Grows
    <3>4. worker'[k].pc = "clear" => journal'[k].state = "result"
      BY <1>1, <1>8, <1>9
    <3>5. /\ journal'[k].state = "none" => journal'[k] = NoEntry
          /\ journal'[k].state # "none" => journal'[k].cmd \in Cmds
          /\ journal'[k].state = "executing" => FALSE
          /\ journal'[k].state = "result" => journal'[k].res \in Results
      BY <1>1, <1>3 DEF WorkerOK
    <3>6. ASSUME NEW c \in Cmds, journal'[k].cmd = c
          PROVE  Sent(k, c)' /\ (journal'[k].state = "result" => IsTrue(c, journal[k].res)')
      BY <1>1, <1>3, <1>10, <3>6 DEF WorkerOK, Grows, IsTrue
    <3> QED
      BY <1>7, <2>2, <3>1, <3>2, <3>3, <3>4, <3>5, <3>6 DEF WorkerOK
  <2> QED
    BY <2>1, <2>2
<1>16. WaitInv'
  <2>1. ASSUME NEW g \in Handlers, handler'[g].stage # "free"
        PROVE  /\ handler'[g].from \in Connectors
               /\ handler'[g].live =>
                    worker'[handler'[g].from].pc = "wait" /\ worker'[handler'[g].from].at = g
    <3>1. g # h /\ handler'[g] = handler[g]
      BY <1>4, <1>5, <2>1
    <3>2. PICK j \in Connectors : j = handler[g].from
      BY <1>0, <2>1, <3>1 DEF WaitInv
    <3>3. handler[g].live => worker[j].pc = "wait" /\ worker[j].at = g
      BY <1>0, <2>1, <3>1, <3>2 DEF WaitInv
    <3>4. handler[g].live => j # k
      BY <1>3, <3>1, <3>3
    <3> QED
      BY <1>6, <3>1, <3>2, <3>3, <3>4
  <2>2. \A j \in Connectors : worker'[j].pc # "wait" => worker'[j].at = NoHandler
    BY <1>0, <1>6, <1>7 DEF WaitInv
  <2>3. ASSUME NEW j \in Connectors, NEW g \in Handlers, worker'[j].at = g
        PROVE  /\ handler'[g].from = j /\ handler'[g].live /\ handler'[g].stage # "free"
               /\ IF handler'[g].stage \in Returning
                  THEN journal'[j].state = "result" /\ handler'[g].cmd = journal'[j].cmd
                  ELSE journal'[j] = NoEntry
    <3>1. j # k
      BY <1>7, <2>3, NamesAssumption
    <3>2. worker[j].at = g /\ g # h
      BY <1>0, <1>2, <1>6, <2>3, <3>1 DEF WaitInv
    <3> QED
      BY <1>0, <1>1, <1>4, <3>2 DEF WaitInv
  <2> QED
    BY <2>1, <2>2, <2>3 DEF WaitInv
<1>17. PlaceInv'
  <2>1. \A g \in Handlers, c \in Cmds : Serves(g, c)' => Serves(g, c) /\ g # h
    BY <1>4, <1>5 DEF Serves
  <2>2. \A j \in Connectors, c \in Cmds :
          Holding(j, c)' => Holding(j, c) \/ (j = k /\ Serves(h, c))
    BY <1>1, <1>6, <1>8 DEF Holding, Serves
  <2> QED
    BY <1>0, <2>1, <2>2 DEF PlaceInv
<1>18. NoResultIsDropped'
  BY <1>0, <1>1, <1>10, ResultKeeps
<1> QED
  BY <1>11, <1>12, <1>13, <1>14, <1>15, <1>16, <1>17, <1>18 DEF BridgeInv

\* Every step of a request keeps the invariant.
LEMMA RequestKeeps ==
  ASSUME BridgeInv, TypeOK', NEW h \in Handlers, Requests(h)
  PROVE  BridgeInv'
<1>1. ASSUME PollEnds(h) PROVE BridgeInv'
  BY <1>1, EmptyHanded DEF PollEnds, Handle
<1> QED
  BY <1>1, ConnectKeeps, PermitKeeps, TakeKeeps, ClaimKeeps, CompleteKeeps, AcknowledgeKeeps,
     InterruptKeeps, RespondKeeps DEF Requests

-----------------------------------------------------------------------------
(* The steps of a worker *)

\* A worker does something on its own: the bridge and every request stay.
Alone(k) ==
  /\ UNCHANGED <<bridge, box, callers, handler>>
  /\ \A j \in Connectors \ {k} : worker'[j] = worker[j] /\ journal'[j] = journal[j]
  /\ worker[k].pc # "wait" /\ worker'[k].pc # "wait" /\ worker'[k].at = NoHandler
  /\ \A c \in Cmds : ran'[c] # ran[c] => Holding(k, c) /\ ran[c] \notin {"ok", "failed"}
  /\ \A c \in Cmds : Holding(k, c)' => Holding(k, c)
  /\ \A c \in Cmds : Holding(k, c) => Holding(k, c)' \/ Answered(c) \/ ran'[c] \notin {"ok", "failed"}
  /\ \A c \in Cmds : ran'[c] # ran[c] => journal'[k].cmd = c

\* A worker that touches only its own journal and command takes nothing back.
LEMMA AloneGrows ==
  ASSUME NEW k \in Connectors, Alone(k)
  PROVE  Grows
<1>1. UNCHANGED <<box, sender, reply, told, handler>>
  BY DEF Alone, callers
<1>2. \A c \in Cmds : (Known(c) => Known(c)') /\ (Answered(c) => Answered(c)')
  BY <1>1 DEF Known, Answered
<1>3. \A j \in Connectors, c \in Cmds : Sent(j, c) => Sent(j, c)'
  BY <1>1 DEF Sent, Known
<1> QED
  BY <1>1, <1>2, <1>3 DEF Grows, Alone

\* It keeps the invariant if it stays in order itself.
LEMMA AloneKeeps ==
  ASSUME BridgeInv, TypeOK', NEW k \in Connectors, Alone(k), WorkerOK(k)'
  PROVE  BridgeInv'
<1>0. /\ TypeOK /\ BoxInv /\ CallerInv /\ FlightInv /\ Grows
      /\ HandlerInv /\ WaitInv /\ WorkerInv /\ PlaceInv /\ NoResultIsDropped
  BY AloneGrows DEF BridgeInv
<1>1. UNCHANGED <<up, epoch, current, box, sender, reply, told, handler>>
  BY DEF Alone, bridge, callers
<1>2. BoxInv' /\ FlightInv'
  BY <1>0, <1>1 DEF BoxInv, FlightInv, InFlight, Taking
<1>3. CallerInv'
  <2> SUFFICES ASSUME NEW c \in Cmds
               PROVE  /\ IsTrue(c, told[c])' /\ IsTrue(c, reply[c])'
                      /\ ran'[c] # "no" => \E j \in Connectors : Sent(j, c)'
    BY <1>0, <1>1 DEF CallerInv
  <2>1. IsTrue(c, told[c])' /\ IsTrue(c, reply[c])'
    BY <1>0, <1>1 DEF CallerInv, IsTrue, Grows
  <2>2. ASSUME ran'[c] # "no" PROVE \E j \in Connectors : Sent(j, c)
    <3>1. CASE ran'[c] = ran[c]
      BY <1>0, <2>2, <3>1 DEF CallerInv
    <3>2. CASE ran'[c] # ran[c]
      BY <1>0, <3>2 DEF Alone, Holding, WorkerInv, WorkerOK
    <3> QED
      BY <3>1, <3>2
  <2> QED
    BY <1>0, <2>1, <2>2 DEF Grows
<1>4. HandlerInv'
  <2> SUFFICES ASSUME NEW h \in Handlers PROVE HandlerOK(h)'
    BY DEF HandlerInv
  <2>1. \A c \in Cmds : Serves(h, c) => ran'[c] = ran[c]
    BY <1>0 DEF Alone, PlaceInv
  <2> QED
    BY <1>0, <1>1, <2>1, HandlerKeeps DEF HandlerInv
<1>5. WorkerInv'
  <2> SUFFICES ASSUME NEW j \in Connectors, j # k PROVE WorkerOK(j)'
    BY DEF WorkerInv
  <2>1. \A c \in Cmds : Holding(j, c) => ran'[c] = ran[c]
    BY <1>0 DEF Alone, PlaceInv
  <2>2. worker'[j] = worker[j] /\ journal'[j] = journal[j] /\ WorkerOK(j)
    BY <1>0 DEF Alone, WorkerInv
  <2> QED
    BY <1>0, <2>1, <2>2, WorkerKeeps
<1>6. WaitInv'
  <2>1. \A j \in Connectors, h \in Handlers : worker[j].at = h \/ worker'[j].at = h => j # k
    BY <1>0, NamesAssumption DEF Alone, WaitInv
  <2>2. ASSUME NEW h \in Handlers, handler'[h].stage # "free"
        PROVE  /\ handler'[h].from \in Connectors
               /\ handler'[h].live =>
                    worker'[handler'[h].from].pc = "wait" /\ worker'[handler'[h].from].at = h
    <3>1. PICK j \in Connectors : j = handler[h].from
      BY <1>0, <1>1, <2>2 DEF WaitInv
    <3>2. handler[h].live => worker[j].pc = "wait" /\ worker[j].at = h
      BY <1>0, <1>1, <2>2, <3>1 DEF WaitInv
    <3> QED
      BY <1>1, <3>1, <3>2 DEF Alone
  <2>3. \A j \in Connectors : worker'[j].pc # "wait" => worker'[j].at = NoHandler
    BY <1>0 DEF Alone, WaitInv
  <2>4. ASSUME NEW j \in Connectors, NEW h \in Handlers, worker'[j].at = h
        PROVE  /\ handler'[h].from = j /\ handler'[h].live /\ handler'[h].stage # "free"
               /\ IF handler'[h].stage \in Returning
                  THEN journal'[j].state = "result" /\ handler'[h].cmd = journal'[j].cmd
                  ELSE journal'[j] = NoEntry
    <3>1. j # k /\ worker[j].at = h /\ journal'[j] = journal[j]
      BY <2>1, <2>4 DEF Alone
    <3> QED
      BY <1>0, <1>1, <3>1 DEF WaitInv
  <2> QED
    BY <2>2, <2>3, <2>4 DEF WaitInv
<1>7. PlaceInv'
  <2>1. \A j \in Connectors, c \in Cmds : Holding(j, c)' => Holding(j, c)
    BY DEF Alone, Holding
  <2>2. \A h \in Handlers, c \in Cmds : Serves(h, c)' => Serves(h, c)
    BY <1>1 DEF Serves
  <2> QED
    BY <1>0, <2>1, <2>2, PlaceKeeps
<1>8. NoResultIsDropped'
  <2> SUFFICES ASSUME NEW c \in Cmds, ran'[c] \in {"ok", "failed"}
               PROVE  Answered(c)' \/ \E j \in Connectors : journal'[j].cmd = c
    BY DEF NoResultIsDropped, Answered, Known
  <2>1. CASE ran'[c] # ran[c]
    BY <2>1 DEF Alone
  <2>2. CASE ran'[c] = ran[c]
    <3>1. Answered(c) \/ \E j \in Connectors : journal[j].cmd = c
      BY <1>0, <2>2 DEF NoResultIsDropped, Answered, Known
    <3>2. CASE journal[k].cmd = c
      <4>1. Holding(k, c)' \/ Answered(c)
        BY <3>2 DEF Alone, Holding
      <4>2. worker'[k].pc = "record" /\ worker'[k].cmd = c => ran'[c] = "no"
        BY DEF WorkerOK
      <4> QED
        BY <1>0, <4>1, <4>2 DEF Holding, Grows
    <3>3. CASE \E j \in Connectors \ {k} : journal[j].cmd = c
      BY <3>3 DEF Alone
    <3> QED
      BY <1>0, <3>1, <3>2, <3>3 DEF Grows
  <2> QED
    BY <2>1, <2>2
<1> QED
  BY <1>2, <1>3, <1>4, <1>5, <1>6, <1>7, <1>8 DEF BridgeInv

\* The fields of a worker and of its journal after a step.
LEMMA WorkerUpdate ==
  ASSUME TypeOK, NEW k \in Connectors, NEW s, worker' = [worker EXCEPT ![k] = s]
  PROVE  worker'[k] = s /\ \A j \in Connectors \ {k} : worker'[j] = worker[j]
BY DEF TypeOK

\* The journals after a change of one.
LEMMA JournalUpdate ==
  ASSUME TypeOK, NEW k \in Connectors, NEW s, journal' = [journal EXCEPT ![k] = s]
  PROVE  journal'[k] = s /\ \A j \in Connectors \ {k} : journal'[j] = journal[j]
BY DEF TypeOK

\* A worker that starts, with an execution that its journal says was cut short.
LEMMA LoadJournalKeeps ==
  ASSUME BridgeInv, TypeOK', NEW k \in Connectors, LoadJournal(k)
  PROVE  BridgeInv'
<1>0. /\ TypeOK /\ WorkerOK(k) /\ journal[k] \in Entry
  BY DEF BridgeInv, TypeOK, WorkerInv
<1>1. worker[k].pc = "load" /\ UNCHANGED <<bridge, box, callers, handler, ran>>
  BY DEF LoadJournal
<1>2. /\ worker'[k] = [Loading EXCEPT !.pc = "handshake"]
      /\ \A j \in Connectors \ {k} : worker'[j] = worker[j]
  BY <1>0, WorkerUpdate DEF LoadJournal, Work
<1>3. worker'[k].pc = "handshake" /\ worker'[k].at = NoHandler
  BY <1>2 DEF Loading
<1>4. /\ journal'[k] = IF journal[k].state = "executing"
                       THEN [journal[k] EXCEPT !.state = "result", !.res = "unknown"] ELSE journal[k]
      /\ \A j \in Connectors \ {k} : journal'[j] = journal[j]
  BY <1>0, JournalUpdate DEF LoadJournal
<1>5. /\ journal'[k].cmd = journal[k].cmd
      /\ \/ journal'[k] = journal[k] /\ journal[k].state # "executing"
         \/ journal'[k].state = "result" /\ journal'[k].res = "unknown" /\ journal[k].state = "executing"
  BY <1>0, <1>4 DEF Entry
<1>6. Alone(k)
  BY <1>1, <1>2, <1>3, <1>4, <1>5 DEF Alone, Holding
<1>7. Grows
  BY <1>6, AloneGrows
<1>8. ASSUME NEW c \in Cmds, journal'[k].cmd = c
      PROVE  Sent(k, c)' /\ (journal'[k].state = "result" => IsTrue(c, journal[k].res)')
  BY <1>0, <1>1, <1>5, <1>7, <1>8 DEF WorkerOK, Grows, IsTrue
<1>9. WorkerOK(k)'
  BY <1>0, <1>3, <1>5, <1>8 DEF WorkerOK, Results
<1> QED
  BY <1>6, <1>9, AloneKeeps

\* A worker that writes the command down before it begins.
LEMMA RecordKeeps ==
  ASSUME BridgeInv, TypeOK', NEW k \in Connectors, Record(k)
  PROVE  BridgeInv'
<1>0. /\ TypeOK /\ WorkerOK(k) /\ worker[k] \in Worker
  BY DEF BridgeInv, TypeOK, WorkerInv
<1>1. worker[k].pc = "record" /\ UNCHANGED <<bridge, box, callers, handler, ran>>
  BY DEF Record
<1>2. PICK c \in Cmds : c = worker[k].cmd
  BY <1>0, <1>1 DEF WorkerOK
<1>3. worker'[k] = [worker[k] EXCEPT !.pc = "begin"] /\ \A j \in Connectors \ {k} : worker'[j] = worker[j]
  BY <1>0, WorkerUpdate DEF Record, Work
<1>4. worker'[k].pc = "begin" /\ worker'[k].at = worker[k].at /\ worker'[k].cmd = c
  BY <1>0, <1>2, <1>3 DEF Worker
<1>5. /\ journal'[k] = [state |-> "executing", cmd |-> c, res |-> "none"]
      /\ \A j \in Connectors \ {k} : journal'[j] = journal[j]
  BY <1>0, <1>2, JournalUpdate DEF Record
<1>6. journal'[k].state = "executing" /\ journal'[k].cmd = c
  BY <1>5
<1>7. worker[k].at = NoHandler /\ journal[k] = NoEntry /\ NoEntry.cmd = NoCmd
  BY <1>0, <1>1 DEF BridgeInv, WaitInv, WorkerOK, NoEntry
<1>8. Alone(k)
  BY <1>1, <1>2, <1>3, <1>4, <1>5, <1>6, <1>7, NamesAssumption DEF Alone, Holding
<1>9. Grows
  BY <1>8, AloneGrows
<1>10. Sent(k, c)' /\ ran'[c] = "no"
  BY <1>0, <1>1, <1>2, <1>9 DEF WorkerOK, Grows
<1>11. WorkerOK(k)'
  BY <1>4, <1>6, <1>10 DEF WorkerOK
<1> QED
  BY <1>8, <1>11, AloneKeeps

\* A worker that begins what it has written down.
LEMMA BeginKeeps ==
  ASSUME BridgeInv, TypeOK', NEW k \in Connectors, Begin(k)
  PROVE  BridgeInv'
<1>0. /\ TypeOK /\ WorkerOK(k) /\ worker[k] \in Worker /\ ran \in [Cmds -> {"no", "running", "ok", "failed"}]
  BY DEF BridgeInv, TypeOK, WorkerInv
<1>1. worker[k].pc = "begin" /\ UNCHANGED <<bridge, box, callers, handler, journal>>
  BY DEF Begin
<1>2. PICK c \in Cmds : c = worker[k].cmd
  BY <1>0, <1>1 DEF WorkerOK
<1>3. worker'[k] = [worker[k] EXCEPT !.pc = "execute"] /\ \A j \in Connectors \ {k} : worker'[j] = worker[j]
  BY <1>0, WorkerUpdate DEF Begin, Work
<1>4. worker'[k].pc = "execute" /\ worker'[k].at = worker[k].at /\ worker'[k].cmd = c
  BY <1>0, <1>2, <1>3 DEF Worker
<1>5. ran' = [ran EXCEPT ![c] = "running"]
  BY <1>2 DEF Begin
<1>6. ran'[c] = "running" /\ \A d \in Cmds \ {c} : ran'[d] = ran[d]
  BY <1>0, <1>5
<1>7. journal[k].state = "executing" /\ journal[k].cmd = c /\ ran[c] = "no" /\ Sent(k, c)
  BY <1>0, <1>1, <1>2 DEF WorkerOK
<1>8. worker[k].at = NoHandler
  BY <1>1 DEF BridgeInv, WaitInv
<1>9. Alone(k)
  BY <1>1, <1>3, <1>4, <1>6, <1>7, <1>8 DEF Alone, Holding
<1>10. Grows
  BY <1>9, AloneGrows
<1>11. WorkerOK(k)'
  BY <1>1, <1>4, <1>6, <1>7, <1>10 DEF WorkerOK, Grows
<1> QED
  BY <1>9, <1>11, AloneKeeps

\* The browser ends a command, and the result is what happened or says nothing.
LEMMA FinishKeeps ==
  ASSUME BridgeInv, TypeOK', NEW k \in Connectors, Finish(k)
  PROVE  BridgeInv'
<1>0. /\ TypeOK /\ WorkerOK(k) /\ worker[k] \in Worker /\ ran \in [Cmds -> {"no", "running", "ok", "failed"}]
  BY DEF BridgeInv, TypeOK, WorkerInv
<1>1. worker[k].pc = "execute" /\ UNCHANGED <<bridge, box, callers, handler, journal>>
  BY DEF Finish
<1>2. PICK c \in Cmds : c = worker[k].cmd
  BY <1>0, <1>1 DEF WorkerOK
<1>3. PICK outcome \in {"ok", "failed"}, res \in Results :
        /\ res \in {outcome, "unknown"}
        /\ ran' = [ran EXCEPT ![c] = outcome]
        /\ worker' = [worker EXCEPT ![k] = [worker[k] EXCEPT !.pc = "save", !.res = res]]
  BY <1>2 DEF Finish, Work, Results
<1>4. /\ worker'[k] = [worker[k] EXCEPT !.pc = "save", !.res = res]
      /\ \A j \in Connectors \ {k} : worker'[j] = worker[j]
  BY <1>0, <1>3, WorkerUpdate
<1>5. /\ worker'[k].pc = "save" /\ worker'[k].at = worker[k].at
      /\ worker'[k].cmd = c /\ worker'[k].res = res
  BY <1>0, <1>2, <1>4 DEF Worker
<1>6. ran'[c] = outcome /\ \A d \in Cmds \ {c} : ran'[d] = ran[d]
  BY <1>0, <1>3
<1>7. journal[k].state = "executing" /\ journal[k].cmd = c /\ ran[c] = "running" /\ Sent(k, c)
  BY <1>0, <1>1, <1>2 DEF WorkerOK
<1>8. worker[k].at = NoHandler
  BY <1>1 DEF BridgeInv, WaitInv
<1>9. Alone(k)
  BY <1>1, <1>4, <1>5, <1>6, <1>7, <1>8 DEF Alone, Holding
<1>10. Grows
  BY <1>9, AloneGrows
<1>11. IsTrue(c, worker[k].res)'
  BY <1>3, <1>5, <1>6 DEF IsTrue
<1>12. WorkerOK(k)'
  BY <1>1, <1>5, <1>6, <1>7, <1>10, <1>11 DEF WorkerOK, Grows, Results
<1> QED
  BY <1>9, <1>12, AloneKeeps

\* A worker that writes the result down.
LEMMA SaveKeeps ==
  ASSUME BridgeInv, TypeOK', NEW k \in Connectors, Save(k)
  PROVE  BridgeInv'
<1>0. /\ TypeOK /\ WorkerOK(k) /\ journal[k] \in Entry
  BY DEF BridgeInv, TypeOK, WorkerInv
<1>1. worker[k].pc = "save" /\ UNCHANGED <<bridge, box, callers, handler, ran>>
  BY DEF Save
<1>2. PICK c \in Cmds : c = worker[k].cmd
  BY <1>0, <1>1 DEF WorkerOK
<1>3. worker'[k] = Loading /\ \A j \in Connectors \ {k} : worker'[j] = worker[j]
  BY <1>0, WorkerUpdate DEF Save, Work
<1>4. worker'[k].pc = "load" /\ worker'[k].at = NoHandler
  BY <1>3 DEF Loading
<1>5. /\ journal'[k] = [journal[k] EXCEPT !.state = "result", !.res = worker[k].res]
      /\ \A j \in Connectors \ {k} : journal'[j] = journal[j]
  BY <1>0, JournalUpdate DEF Save
<1>6. /\ journal'[k].state = "result" /\ journal'[k].cmd = journal[k].cmd
      /\ journal'[k].res = worker[k].res
  BY <1>0, <1>5 DEF Entry
<1>7. /\ journal[k].cmd = c /\ Sent(k, c) /\ IsTrue(c, worker[k].res) /\ worker[k].res \in Results
  BY <1>0, <1>1, <1>2 DEF WorkerOK
<1>8. Alone(k)
  BY <1>1, <1>3, <1>4, <1>5, <1>6, <1>7 DEF Alone, Holding
<1>9. Grows
  BY <1>8, AloneGrows
<1>10. Sent(k, c)' /\ IsTrue(c, journal[k].res)'
  BY <1>1, <1>6, <1>7, <1>9 DEF Grows, IsTrue
<1>11. WorkerOK(k)'
  BY <1>4, <1>6, <1>7, <1>10 DEF WorkerOK
<1> QED
  BY <1>8, <1>11, AloneKeeps

\* A worker that forgets a result that was answered.
LEMMA ClearKeeps ==
  ASSUME BridgeInv, TypeOK', NEW k \in Connectors, Clear(k)
  PROVE  BridgeInv'
<1>0. /\ TypeOK /\ WorkerOK(k) /\ journal[k] \in Entry
  BY DEF BridgeInv, TypeOK, WorkerInv
<1>1. worker[k].pc = "clear" /\ UNCHANGED <<bridge, box, callers, handler, ran>>
  BY DEF Clear
<1>2. worker'[k] = Loading /\ \A j \in Connectors \ {k} : worker'[j] = worker[j]
  BY <1>0, WorkerUpdate DEF Clear, Work
<1>3. worker'[k].pc = "load" /\ worker'[k].at = NoHandler
  BY <1>2 DEF Loading
<1>4. journal'[k] = NoEntry /\ \A j \in Connectors \ {k} : journal'[j] = journal[j]
  BY <1>0, JournalUpdate DEF Clear
<1>5. journal'[k].state = "none" /\ journal'[k].cmd = NoCmd
  BY <1>4 DEF NoEntry
<1>6. \A c \in Cmds : Holding(k, c) => Answered(c)
  BY <1>0, <1>1 DEF Holding, WorkerOK
<1>7. Alone(k)
  BY <1>1, <1>2, <1>3, <1>4, <1>5, <1>6, NamesAssumption DEF Alone, Holding
<1>8. WorkerOK(k)'
  BY <1>3, <1>4, <1>5, NamesAssumption DEF WorkerOK
<1> QED
  BY <1>7, <1>8, AloneKeeps

\* A worker that starts over, or waits for nothing.
LEMMA WorkerIdles ==
  ASSUME Grows, NEW k \in Connectors, WorkerOK(k), journal' = journal,
         worker'[k].pc \in {"load", "handshake", "request"},
         worker'[k].pc # "load" => journal[k].state # "executing"
  PROVE  WorkerOK(k)'
<1>1. ASSUME NEW c \in Cmds, journal'[k].cmd = c
      PROVE  Sent(k, c)' /\ (journal'[k].state = "result" => IsTrue(c, journal[k].res)')
  BY <1>1 DEF WorkerOK, Grows, IsTrue
<1> QED
  BY <1>1 DEF WorkerOK

\* A worker that starts over without any change at the bridge.
LEMMA IdleKeeps ==
  ASSUME BridgeInv, TypeOK', NEW k \in Connectors, NEW s,
         UNCHANGED <<bridge, box, callers, handler, journal, ran>>,
         worker[k].pc \in {"handshake", "request"},
         worker' = [worker EXCEPT ![k] = s], s.at = NoHandler,
         s.pc \in {"load", "handshake", "request"}
  PROVE  BridgeInv'
<1>0. TypeOK /\ WorkerOK(k)
  BY DEF BridgeInv, WorkerInv
<1>1. worker'[k] = s /\ \A j \in Connectors \ {k} : worker'[j] = worker[j]
  BY <1>0, WorkerUpdate
<1>2. journal[k].state # "executing"
  BY <1>0 DEF WorkerOK
<1>3. Alone(k)
  BY <1>1 DEF Alone, Holding
<1>4. Grows
  BY <1>3, AloneGrows
<1>5. WorkerOK(k)'
  BY <1>0, <1>1, <1>2, <1>4, WorkerIdles
<1> QED
  BY <1>3, <1>5, AloneKeeps

\* A request of a worker: a poll, or the delivery of the result in its journal.
LEMMA RequestStarts ==
  ASSUME BridgeInv, TypeOK', NEW k \in Connectors, Request(k)
  PROVE  BridgeInv'
<1>0. /\ TypeOK /\ BoxInv /\ CallerInv /\ FlightInv
      /\ HandlerInv /\ WaitInv /\ WorkerInv /\ PlaceInv /\ NoResultIsDropped
      /\ WorkerOK(k) /\ worker[k] \in Worker
  BY DEF BridgeInv, WorkerInv, TypeOK
<1>1. worker[k].pc = "request" /\ UNCHANGED <<bridge, box, callers, journal, ran>>
  BY DEF Request
<1>2. CASE ~(up /\ current = k)
  <2>1. worker' = [worker EXCEPT ![k] = Loading] /\ UNCHANGED handler
    BY <1>2 DEF Request, Work
  <2>2. Loading.at = NoHandler /\ Loading.pc = "load"
    BY DEF Loading
  <2> QED
    BY <1>1, <2>1, <2>2, IdleKeeps
<1>3. CASE up /\ current = k
  <2> DEFINE s == IF journal[k].state = "none"
                  THEN [FreeHandler EXCEPT !.stage = "poll", !.from = k]
                  ELSE [FreeHandler EXCEPT !.stage = "result", !.from = k,
                          !.cmd = journal[k].cmd, !.res = journal[k].res]
  <2>1. PICK h \in Handlers :
          /\ handler[h].stage = "free" /\ handler' = [handler EXCEPT ![h] = s]
          /\ worker' = [worker EXCEPT ![k] = [worker[k] EXCEPT !.pc = "wait", !.at = h]]
    BY <1>3 DEF Request, Handle, Work
  <2>2. /\ s.from = k /\ s.box = Nowhere /\ s.live
        /\ \/ journal[k].state = "none" /\ s.stage = "poll"
           \/ /\ journal[k].state # "none" /\ s.stage = "result"
              /\ s.cmd = journal[k].cmd /\ s.res = journal[k].res
    BY DEF FreeHandler
  <2> HIDE DEF s
  <2>3. handler'[h] = s /\ \A g \in Handlers \ {h} : handler'[g] = handler[g]
    BY <1>0, <2>1, HandlerUpdate
  <2>4. /\ worker'[k] = [worker[k] EXCEPT !.pc = "wait", !.at = h]
        /\ \A j \in Connectors \ {k} : worker'[j] = worker[j]
    BY <1>0, <2>1, WorkerUpdate
  <2>5. worker'[k].pc = "wait" /\ worker'[k].at = h
    BY <1>0, <2>4 DEF Worker
  <2>6. UNCHANGED <<up, epoch, current, box, sender, reply, told, journal, ran>>
    BY <1>1 DEF bridge, callers
  <2>7. Grows
    <3>1. \A c \in Cmds : (Known(c) => Known(c)') /\ (Answered(c) => Answered(c)')
      BY <2>1, <2>3, <2>6 DEF Known, Answered
    <3>2. \A j \in Connectors, c \in Cmds : Sent(j, c) => Sent(j, c)'
      BY <2>6 DEF Sent, Known
    <3> QED
      BY <2>6, <3>1, <3>2 DEF Grows
  <2>8. journal[k].state # "executing" /\ journal[k].state \in {"none", "executing", "result"}
    BY <1>0, <1>1 DEF WorkerOK, TypeOK, Entry
  <2>9. BoxInv'
    <3>1. ASSUME NEW j \in Connectors, NEW c \in Cmds, box'[j].pending[c] = "completing"
          PROVE  \E g \in Handlers :
                   handler'[g].stage = "completing" /\ handler'[g].cmd = c /\ handler'[g].box = j
      <4>1. PICK g \in Handlers :
              handler[g].stage = "completing" /\ handler[g].cmd = c /\ handler[g].box = j
        BY <1>0, <2>6, <3>1 DEF BoxInv
      <4> QED
        BY <2>1, <2>3, <4>1
    <3> QED
      BY <1>0, <2>6, <3>1 DEF BoxInv
  <2>10. CallerInv'
    BY <1>0, <2>6, <2>7 DEF CallerInv, IsTrue, Grows
  <2>11. FlightInv'
    <3>1. \A j \in Connectors : InFlight(j)' = InFlight(j)
      BY <2>6 DEF InFlight
    <3>2. \A g \in Handlers, j \in Connectors : Taking(g, j)' => Taking(g, j)
      BY <2>2, <2>3 DEF Taking
    <3> QED
      BY <1>0, <3>1, <3>2 DEF FlightInv
  <2>12. HandlerInv'
    <3> SUFFICES ASSUME NEW g \in Handlers PROVE HandlerOK(g)'
      BY DEF HandlerInv
    <3>1. CASE g = h /\ handler'[h].stage = "poll"
      BY <2>2, <2>3, <3>1 DEF HandlerOK, Returning
    <3>2. CASE g = h /\ handler'[h].stage = "result"
      <4>1. /\ journal[k].state = "result" /\ handler'[h].cmd = journal[k].cmd
            /\ handler'[h].res = journal[k].res /\ handler'[h].from = k /\ handler'[h].box = Nowhere
        BY <2>2, <2>3, <2>8, <3>2
      <4>2. handler'[h].cmd \in Cmds /\ handler'[h].res \in Results
        BY <1>0, <4>1 DEF WorkerOK
      <4>3. ASSUME NEW c \in Cmds, handler'[h].cmd = c
            PROVE  Sent(k, c)' /\ IsTrue(c, handler[h].res)'
        BY <1>0, <2>6, <2>7, <4>1, <4>3 DEF WorkerOK, Grows, IsTrue
      <4> QED
        BY <3>2, <4>1, <4>2, <4>3 DEF HandlerOK, Returning
    <3>3. CASE g # h
      <4>1. handler'[g] = handler[g] /\ HandlerOK(g)
        BY <1>0, <2>3, <3>3 DEF HandlerInv
      <4> QED
        BY <2>6, <2>7, <4>1, HandlerKeeps
    <3> QED
      BY <2>2, <2>3, <3>1, <3>2, <3>3
  <2>13. WorkerInv'
    <3> SUFFICES ASSUME NEW j \in Connectors PROVE WorkerOK(j)'
      BY DEF WorkerInv
    <3>1. CASE j # k
      BY <1>0, <2>4, <2>6, <2>7, <3>1, WorkerKeeps DEF WorkerInv
    <3>2. CASE j = k
      <4>1. ASSUME NEW c \in Cmds, journal'[k].cmd = c
            PROVE  Sent(k, c)' /\ (journal'[k].state = "result" => IsTrue(c, journal[k].res)')
        BY <1>0, <2>6, <2>7, <4>1 DEF WorkerOK, Grows, IsTrue
      <4> QED
        BY <1>0, <2>5, <2>6, <2>8, <3>2, <4>1 DEF WorkerOK
    <3> QED
      BY <3>1, <3>2
  <2>14. WaitInv'
    <3>1. ASSUME NEW g \in Handlers, handler'[g].stage # "free"
          PROVE  /\ handler'[g].from \in Connectors
                 /\ handler'[g].live =>
                      worker'[handler'[g].from].pc = "wait" /\ worker'[handler'[g].from].at = g
      <4>1. CASE g = h
        BY <2>2, <2>3, <2>5, <4>1
      <4>2. CASE g # h
        <5>1. PICK j \in Connectors : j = handler[g].from
          BY <1>0, <2>3, <3>1, <4>2 DEF WaitInv
        <5>2. handler[g].live => worker[j].pc = "wait" /\ worker[j].at = g
          BY <1>0, <2>3, <3>1, <4>2, <5>1 DEF WaitInv
        <5> QED
          BY <1>1, <2>3, <2>4, <4>2, <5>1, <5>2
      <4> QED
        BY <4>1, <4>2
    <3>2. \A j \in Connectors : worker'[j].pc # "wait" => worker'[j].at = NoHandler
      BY <1>0, <2>4, <2>5 DEF WaitInv
    <3>3. ASSUME NEW j \in Connectors, NEW g \in Handlers, worker'[j].at = g
          PROVE  /\ handler'[g].from = j /\ handler'[g].live /\ handler'[g].stage # "free"
                 /\ IF handler'[g].stage \in Returning
                    THEN journal'[j].state = "result" /\ handler'[g].cmd = journal'[j].cmd
                    ELSE journal'[j] = NoEntry
      <4>1. CASE j = k
        <5>1. g = h
          BY <2>5, <3>3, <4>1
        <5>2. journal[k].state = "none" => journal[k] = NoEntry
          BY <1>0 DEF WorkerOK
        <5> QED
          BY <2>2, <2>3, <2>6, <2>8, <4>1, <5>1, <5>2 DEF Returning
      <4>2. CASE j # k
        <5>1. worker[j].at = g /\ g # h
          BY <1>0, <2>1, <2>4, <3>3, <4>2 DEF WaitInv
        <5> QED
          BY <1>0, <2>3, <2>6, <5>1 DEF WaitInv
      <4> QED
        BY <4>1, <4>2
    <3> QED
      BY <3>1, <3>2, <3>3 DEF WaitInv
  <2>15. PlaceInv'
    <3>1. \A g \in Handlers, c \in Cmds : Serves(g, c)' => Serves(g, c)
      BY <2>2, <2>3 DEF Serves
    <3>2. \A j \in Connectors, c \in Cmds : Holding(j, c)' => Holding(j, c)
      BY <2>4, <2>5, <2>6 DEF Holding
    <3> QED
      BY <1>0, <3>1, <3>2, PlaceKeeps
  <2>16. NoResultIsDropped'
    BY <1>0, <2>6, <2>7, ResultKeeps
  <2> QED
    BY <2>9, <2>10, <2>11, <2>12, <2>13, <2>14, <2>15, <2>16 DEF BridgeInv
<1> QED
  BY <1>2, <1>3

-----------------------------------------------------------------------------
(* Failures and changes of the owner *)

\* A worker that is killed, or whose request fails.
LEMMA AbandonKeeps ==
  ASSUME BridgeInv, TypeOK', NEW k \in Connectors,
         UNCHANGED <<bridge, box, callers, journal, ran>>,
         worker' = [worker EXCEPT ![k] = Loading], handler' = Abandoned(k)
  PROVE  BridgeInv'
<1>0. /\ TypeOK /\ BoxInv /\ CallerInv /\ FlightInv
      /\ HandlerInv /\ WaitInv /\ WorkerInv /\ PlaceInv /\ NoResultIsDropped
      /\ \A h \in Handlers : handler[h] \in Handler
  BY DEF BridgeInv, TypeOK
<1>1. UNCHANGED <<up, epoch, current, box, sender, reply, told, journal, ran>>
  BY DEF bridge, callers
<1>2. worker'[k] = Loading /\ \A j \in Connectors \ {k} : worker'[j] = worker[j]
  BY <1>0, WorkerUpdate
<1>3. worker'[k].pc = "load" /\ worker'[k].at = NoHandler
  BY <1>2 DEF Loading
<1>4. \A h \in Handlers :
        handler'[h] = IF h = worker[k].at THEN [handler[h] EXCEPT !.live = FALSE] ELSE handler[h]
  BY DEF Abandoned
<1>5. \A h \in Handlers :
        /\ handler'[h].stage = handler[h].stage /\ handler'[h].from = handler[h].from
        /\ handler'[h].box = handler[h].box
        /\ handler'[h].cmd = handler[h].cmd /\ handler'[h].res = handler[h].res
        /\ (handler'[h].live <=> (handler[h].live /\ h # worker[k].at))
  <2> SUFFICES ASSUME NEW h \in Handlers
               PROVE  /\ handler'[h].stage = handler[h].stage /\ handler'[h].from = handler[h].from
                      /\ handler'[h].box = handler[h].box
                      /\ handler'[h].cmd = handler[h].cmd /\ handler'[h].res = handler[h].res
                      /\ (handler'[h].live <=> (handler[h].live /\ h # worker[k].at))
    OBVIOUS
  <2>1. handler[h] \in Handler
    BY <1>0
  <2>2. CASE h = worker[k].at
    <3>1. handler'[h] = [handler[h] EXCEPT !.live = FALSE]
      BY <1>4, <2>2
    <3> QED
      BY <2>1, <2>2, <3>1 DEF Handler
  <2>3. CASE h # worker[k].at
    BY <1>4, <2>1, <2>3 DEF Handler
  <2> QED
    BY <2>2, <2>3
<1>6. Grows
  <2>1. \A c \in Cmds : (Known(c) => Known(c)') /\ (Answered(c) => Answered(c)')
    BY <1>1, <1>5 DEF Known, Answered
  <2>2. \A j \in Connectors, c \in Cmds : Sent(j, c) => Sent(j, c)'
    BY <1>1 DEF Sent, Known
  <2> QED
    BY <1>1, <2>1, <2>2 DEF Grows
<1>7. BoxInv'
  BY <1>0, <1>1, <1>5 DEF BoxInv
<1>8. CallerInv'
  BY <1>0, <1>1, <1>6 DEF CallerInv, IsTrue, Grows
<1>9. FlightInv'
  <2>1. \A j \in Connectors : InFlight(j)' = InFlight(j)
    BY <1>1 DEF InFlight
  <2>2. \A h \in Handlers, j \in Connectors : Taking(h, j)' <=> Taking(h, j)
    BY <1>5 DEF Taking
  <2> QED
    BY <1>0, <2>1, <2>2 DEF FlightInv
<1>10. HandlerInv'
  BY <1>0, <1>1, <1>5, <1>6, HandlerKeeps DEF HandlerInv
<1>11. WorkerInv'
  <2> SUFFICES ASSUME NEW j \in Connectors PROVE WorkerOK(j)'
    BY DEF WorkerInv
  <2>1. CASE j = k
    BY <1>0, <1>1, <1>3, <1>6, <2>1, WorkerIdles DEF WorkerInv
  <2>2. CASE j # k
    BY <1>0, <1>1, <1>2, <1>6, <2>2, WorkerKeeps DEF WorkerInv
  <2> QED
    BY <2>1, <2>2
<1>12. WaitInv'
  <2>1. ASSUME NEW h \in Handlers, handler'[h].stage # "free"
        PROVE  /\ handler'[h].from \in Connectors
               /\ handler'[h].live =>
                    worker'[handler'[h].from].pc = "wait" /\ worker'[handler'[h].from].at = h
    <3>1. PICK j \in Connectors : j = handler[h].from
      BY <1>0, <1>5, <2>1 DEF WaitInv
    <3>2. handler[h].live => worker[j].pc = "wait" /\ worker[j].at = h
      BY <1>0, <1>5, <2>1, <3>1 DEF WaitInv
    <3> QED
      BY <1>2, <1>5, <3>1, <3>2
  <2>2. \A j \in Connectors : worker'[j].pc # "wait" => worker'[j].at = NoHandler
    BY <1>0, <1>2, <1>3 DEF WaitInv
  <2>3. ASSUME NEW j \in Connectors, NEW h \in Handlers, worker'[j].at = h
        PROVE  /\ handler'[h].from = j /\ handler'[h].live /\ handler'[h].stage # "free"
               /\ IF handler'[h].stage \in Returning
                  THEN journal'[j].state = "result" /\ handler'[h].cmd = journal'[j].cmd
                  ELSE journal'[j] = NoEntry
    <3>1. j # k /\ worker[j].at = h
      BY <1>2, <1>3, <2>3, NamesAssumption
    <3>2. h # worker[k].at
      BY <1>0, <3>1 DEF WaitInv
    <3> QED
      BY <1>0, <1>1, <1>5, <3>1, <3>2 DEF WaitInv
  <2> QED
    BY <2>1, <2>2, <2>3 DEF WaitInv
<1>13. PlaceInv'
  <2>1. \A h \in Handlers, c \in Cmds : Serves(h, c)' => Serves(h, c)
    BY <1>5 DEF Serves
  <2>2. \A j \in Connectors, c \in Cmds : Holding(j, c)' => Holding(j, c)
    BY <1>1, <1>2, <1>3 DEF Holding
  <2> QED
    BY <1>0, <2>1, <2>2, PlaceKeeps
<1>14. NoResultIsDropped'
  BY <1>0, <1>1, <1>6, ResultKeeps
<1> QED
  BY <1>7, <1>8, <1>9, <1>10, <1>11, <1>12, <1>13, <1>14 DEF BridgeInv

\* A connector whose lease runs out.
LEMMA ExpireKeeps ==
  ASSUME BridgeInv, TypeOK', NEW k \in Connectors, Expire(k)
  PROVE  BridgeInv'
<1>0. /\ TypeOK /\ BoxInv /\ CallerInv /\ FlightInv
      /\ HandlerInv /\ WaitInv /\ WorkerInv /\ PlaceInv /\ NoResultIsDropped
      /\ box[k] \in Mailbox
  BY DEF BridgeInv, TypeOK
<1>1. UNCHANGED <<up, epoch, current, sender, reply, told, handler, worker, journal, ran>>
  BY DEF Expire, bridge, callers, browser
<1>2. box' = [box EXCEPT ![k] = [box[k] EXCEPT !.seen = "stale"]] /\ box[k].open
  BY DEF Expire, Live
<1>3. k = current
  <2>1. ClosedBox.open = FALSE
    BY DEF ClosedBox, OpenBox
  <2> QED
    BY <1>0, <1>2, <2>1 DEF BoxInv
<1>4. /\ box'[k] = [box[k] EXCEPT !.seen = "stale"]
      /\ \A j \in Connectors \ {k} : box'[j] = box[j]
  BY <1>0, <1>2, BoxUpdate
<1>5. box'[k].open = box[k].open /\ box'[k].pending = box[k].pending /\ box'[k].queue = box[k].queue
  BY <1>0, <1>4 DEF Mailbox
<1>6. \A j \in Connectors :
        /\ box'[j].open = box[j].open /\ box'[j].pending = box[j].pending
        /\ box'[j].queue = box[j].queue /\ (j # current => box'[j] = box[j])
  BY <1>3, <1>4, <1>5
<1>7. \A c \in Cmds : (Known(c)' <=> Known(c)) /\ (Answered(c)' <=> Answered(c))
  BY <1>1 DEF Known, Answered
<1>8. \A j \in Connectors, c \in Cmds : Sent(j, c) => Sent(j, c)'
  BY <1>1, <1>6, <1>7 DEF Sent
<1>9. Grows
  BY <1>1, <1>7, <1>8 DEF Grows
<1>10. BoxInv'
  <2>1. \A j \in Connectors : IF j = current THEN box'[j].open ELSE box'[j] = ClosedBox
    <3>1. \A j \in Connectors : j # current => box[j] = ClosedBox
      BY <1>0 DEF BoxInv
    <3> QED
      BY <1>2, <1>3, <1>6, <3>1
  <2> QED
    BY <1>0, <1>1, <1>6, <2>1 DEF BoxInv
<1>11. CallerInv'
  BY <1>0, <1>1, <1>9 DEF CallerInv, IsTrue, Grows
<1>12. FlightInv'
  <2>1. \A j \in Connectors : InFlight(j)' = InFlight(j)
    BY <1>6 DEF InFlight
  <2> QED
    BY <1>0, <1>1, <2>1 DEF FlightInv, Taking
<1>13. HandlerInv'
  BY <1>0, <1>1, <1>6, <1>9, HandlerKeeps DEF HandlerInv
<1>14. WorkerInv'
  BY <1>0, <1>1, <1>9, WorkerKeeps DEF WorkerInv
<1>15. WaitInv' /\ PlaceInv'
  BY <1>0, <1>1 DEF WaitInv, PlaceInv, Serves, Holding
<1>16. NoResultIsDropped'
  BY <1>0, <1>1, <1>9, ResultKeeps
<1> QED
  BY <1>10, <1>11, <1>12, <1>13, <1>14, <1>15, <1>16 DEF BridgeInv

\* Every mailbox is closed, or new: what was pending gets its answer, queued commands
\* that they never run, and nobody holds a mailbox.
Closes ==
  /\ \A c \in Cmds :
       /\ reply'[c] = reply[c] \/ (reply[c] = "none" /\ reply'[c] \in {"unknown", "never"})
       /\ reply[c] = "none" /\ reply'[c] = "never" =>
            \E k \in Connectors : box[k].pending[c] = "queued"
       /\ told'[c] = told[c] \/ (told[c] = "none" /\ told'[c] = "unknown")
       /\ (\E k \in Connectors : box[k].pending[c] # "no") => Known(c)'
       /\ sender'[c].box = Nowhere
       /\ sender'[c].pc = sender[c].pc \/ (sender'[c].pc = "done" /\ told'[c] # "none")
  /\ \A k \in Connectors :
       /\ box'[k].queue = <<>> /\ \A c \in Cmds : box'[k].pending[c] = "no"
       /\ IF k = current' THEN box'[k].open ELSE box'[k] = ClosedBox
  /\ ~up' => current' = Nobody
  /\ \A h \in Handlers :
       /\ handler'[h].box = Nowhere
       /\ \/ handler'[h].stage = "free"
          \/ /\ handler'[h].stage = handler[h].stage /\ handler'[h].from = handler[h].from
             /\ handler'[h].cmd = handler[h].cmd /\ handler'[h].res = handler[h].res
  /\ UNCHANGED <<journal, ran>>

\* Closing mailboxes takes nothing back, and answers whatever was being completed.
LEMMA ClosesGrows ==
  ASSUME BridgeInv, Closes
  PROVE  Grows /\ \A c \in Cmds : Answered(c) => Known(c)'
<1>0. BoxInv /\ CallerInv /\ HandlerInv /\ WaitInv
  BY DEF BridgeInv
<1>1. \A c \in Cmds : Known(c) => Known(c)'
  BY DEF Closes, Known
<1>2. ASSUME NEW c \in Cmds, Answered(c) PROVE Known(c)'
  <2>1. CASE Known(c)
    BY <1>1, <2>1
  <2>2. CASE ~Known(c)
    <3>1. PICK h \in Handlers : handler[h].stage = "completing" /\ handler[h].cmd = c
      BY <1>2, <2>2 DEF Answered
    <3>2. PICK k \in Connectors : handler[h].from = k
      BY <1>0, <3>1 DEF WaitInv
    <3>3. box[k].pending[c] = "completing"
      BY <1>0, <2>2, <3>1, <3>2 DEF HandlerInv, HandlerOK
    <3> QED
      BY <3>3 DEF Closes
  <2> QED
    BY <2>1, <2>2
<1>3. \A c \in Cmds : sender[c].pc \in {"await", "done"} => sender'[c].pc \in {"await", "done"}
  BY DEF Closes
<1>4. ASSUME NEW k \in Connectors, NEW c \in Cmds, Sent(k, c) PROVE Sent(k, c)'
  <2>1. Known(c)'
    BY <1>1, <1>4 DEF Closes, Sent
  <2>2. reply'[c] # "never"
    <3>1. ASSUME NEW j \in Connectors, box[j].pending[c] = "queued" PROVE FALSE
      <4>1. sender[c].box = j
        BY <1>0, <3>1 DEF BoxInv
      <4> QED
        BY <1>4, <3>1, <4>1, NamesAssumption DEF Sent
    <3> QED
      BY <1>4, <3>1 DEF Closes, Sent
  <2>3. told'[c] # "never"
    BY <1>4 DEF Closes, Sent
  <2> QED
    BY <1>3, <1>4, <2>1, <2>2, <2>3 DEF Closes, Sent
<1>5. \A c \in Cmds : Answered(c) => Answered(c)'
  BY <1>2 DEF Answered
<1> QED
  BY <1>1, <1>2, <1>3, <1>4, <1>5 DEF Grows, Closes

\* It keeps the invariant if the workers and what they wait for stay in order.
LEMMA ClosesKeeps ==
  ASSUME BridgeInv, TypeOK', Closes, WaitInv', WorkerInv',
         \A k \in Connectors, c \in Cmds : Holding(k, c)' => Holding(k, c)
  PROVE  BridgeInv'
<1>0. /\ TypeOK /\ BoxInv /\ CallerInv /\ FlightInv /\ Grows
      /\ HandlerInv /\ WaitInv /\ WorkerInv /\ PlaceInv /\ NoResultIsDropped
      /\ \A c \in Cmds : Answered(c) => Known(c)'
  BY ClosesGrows DEF BridgeInv
<1>1. BoxInv'
  <2>1. \A k \in Connectors : Len(box'[k].queue) = 0
    BY LenProperties DEF Closes
  <2>2. \A k \in Connectors : \A i \in 1 .. Len(box'[k].queue) :
          sender'[box'[k].queue[i]].pc \in {"await", "done"}
    BY <2>1
  <2> QED
    BY <2>2 DEF BoxInv, Closes
<1>2. CallerInv'
  <2> SUFFICES ASSUME NEW c \in Cmds
               PROVE  /\ sender'[c].pc = "done" => told'[c] # "none"
                      /\ told'[c] = "never" => sender'[c].pc = "done"
                      /\ reply'[c] = "never" => sender'[c].pc \notin {"idle", "gate"}
                      /\ IsTrue(c, told[c])' /\ IsTrue(c, reply[c])'
                      /\ ran'[c] # "no" => \E k \in Connectors : Sent(k, c)'
    BY DEF CallerInv, Closes
  <2>1. sender'[c].pc = "done" => told'[c] # "none"
    BY <1>0 DEF CallerInv, Closes
  <2>2. told'[c] = "never" => sender'[c].pc = "done"
    BY <1>0 DEF CallerInv, Closes
  <2>3. ASSUME reply'[c] = "never" PROVE sender'[c].pc \notin {"idle", "gate"}
    <3>1. CASE reply[c] = "never"
      BY <1>0, <3>1 DEF CallerInv, Closes
    <3>2. CASE reply[c] # "never"
      <4>1. PICK k \in Connectors : box[k].pending[c] = "queued"
        BY <2>3, <3>2 DEF Closes
      <4>2. sender[c].box = k
        BY <1>0, <4>1 DEF BoxInv
      <4>3. sender[c].pc \in {"offer", "await"}
        BY <1>0, <4>2, NamesAssumption DEF CallerInv
      <4> QED
        BY <4>3 DEF Closes
    <3> QED
      BY <3>1, <3>2
  <2>4. IsTrue(c, told[c])' /\ IsTrue(c, reply[c])'
    BY <1>0 DEF CallerInv, Closes, IsTrue
  <2>5. ran'[c] # "no" => \E k \in Connectors : Sent(k, c)'
    BY <1>0 DEF CallerInv, Closes, Grows
  <2> QED
    BY <2>1, <2>2, <2>3, <2>4, <2>5
<1>3. FlightInv'
  <2>1. \A k \in Connectors : InFlight(k)' = {}
    BY DEF InFlight, Closes
  <2>2. \A k \in Connectors, h \in Handlers : ~Taking(h, k)'
    BY NamesAssumption DEF Taking, Closes
  <2> QED
    BY <2>1, <2>2 DEF FlightInv
<1>4. HandlerInv'
  <2> SUFFICES ASSUME NEW h \in Handlers PROVE HandlerOK(h)'
    BY DEF HandlerInv
  <2>1. CASE handler'[h].stage = "free"
    BY <2>1 DEF HandlerOK, Returning, Closes
  <2>2. CASE handler'[h].stage # "free"
    <3>1. /\ handler'[h].stage = handler[h].stage /\ handler'[h].from = handler[h].from
          /\ handler'[h].cmd = handler[h].cmd /\ handler'[h].res = handler[h].res
          /\ handler'[h].box = Nowhere /\ HandlerOK(h)
      BY <1>0, <2>2 DEF Closes, HandlerInv
    <3>2. handler'[h].stage = "claim" =>
            \E c \in Cmds : handler'[h].cmd = c /\ sender'[c].pc \in {"await", "done"}
      BY <1>0, <3>1 DEF HandlerOK, Grows
    <3>3. handler'[h].stage \in Returning => handler'[h].cmd \in Cmds /\ handler'[h].res \in Results
      BY <3>1 DEF HandlerOK
    <3>4. ASSUME NEW k \in Connectors, NEW c \in Cmds, handler'[h].from = k, handler'[h].cmd = c
          PROVE  /\ handler'[h].stage = "serve" => Sent(k, c)' /\ ran'[c] = "no"
                 /\ handler'[h].stage \in Returning => Sent(k, c)' /\ IsTrue(c, handler[h].res)'
                 /\ handler'[h].stage = "completing" => Known(c)'
                 /\ handler'[h].stage = "acknowledged" => Known(c)'
                 /\ handler'[h].stage = "unknown" => Answered(c)'
      <4>1. handler'[h].stage = "serve" => Sent(k, c)' /\ ran'[c] = "no"
        BY <1>0, <3>1, <3>4 DEF HandlerOK, Grows, Closes
      <4>2. handler'[h].stage \in Returning => Sent(k, c)' /\ IsTrue(c, handler[h].res)'
        BY <1>0, <3>1, <3>4 DEF HandlerOK, Grows, Closes, IsTrue
      <4>3. handler'[h].stage = "completing" => Known(c)'
        BY <1>0, <3>1, <3>4 DEF Answered
      <4>4. /\ handler'[h].stage = "acknowledged" => Known(c)'
            /\ handler'[h].stage = "unknown" => Answered(c)'
        BY <1>0, <3>1, <3>4 DEF HandlerOK, Grows
      <4> QED
        BY <4>1, <4>2, <4>3, <4>4
    <3> QED
      BY <3>1, <3>2, <3>3, <3>4 DEF HandlerOK
  <2> QED
    BY <2>1, <2>2
<1>5. PlaceInv'
  <2>1. \A h \in Handlers, c \in Cmds : Serves(h, c)' => Serves(h, c)
    BY DEF Serves, Closes
  <2> QED
    BY <1>0, <2>1, PlaceKeeps
<1>6. NoResultIsDropped'
  <2>1. journal' = journal /\ ran' = ran
    BY DEF Closes
  <2> QED
    BY <1>0, <2>1, ResultKeeps
<1> QED
  BY <1>1, <1>2, <1>3, <1>4, <1>5, <1>6 DEF BridgeInv

\* What the callers of closed mailboxes hear, and who still holds one.
LEMMA ClosingReplies ==
  ASSUME BridgeInv, NEW ks \in SUBSET Connectors, reply' = RepliesOnClose(ks),
         \A k \in Connectors \ ks, c \in Cmds : box[k].pending[c] = "no"
  PROVE  \A c \in Cmds :
           /\ reply'[c] = reply[c] \/ (reply[c] = "none" /\ reply'[c] \in {"unknown", "never"})
           /\ reply[c] = "none" /\ reply'[c] = "never" =>
                \E k \in Connectors : box[k].pending[c] = "queued"
           /\ (\E k \in Connectors : box[k].pending[c] # "no") => reply'[c] # "none"
<1> SUFFICES ASSUME NEW c \in Cmds
             PROVE  /\ reply'[c] = reply[c] \/ (reply[c] = "none" /\ reply'[c] \in {"unknown", "never"})
                    /\ reply[c] = "none" /\ reply'[c] = "never" =>
                         \E k \in Connectors : box[k].pending[c] = "queued"
                    /\ (\E k \in Connectors : box[k].pending[c] # "no") => reply'[c] # "none"
  OBVIOUS
<1>0. \A k \in Connectors : box[k].pending[c] \in {"no", "queued", "executing", "completing"}
  BY DEF BridgeInv, TypeOK, Mailbox
<1>1. reply'[c] = IF reply[c] # "none" \/ \A k \in ks : c \notin Admitted(k) THEN reply[c]
                  ELSE IF \E k \in ks : c \in InFlight(k) THEN "unknown" ELSE "never"
  BY DEF RepliesOnClose
<1>2. \A k \in ks : (c \notin Admitted(k) <=> box[k].pending[c] = "no")
  BY DEF Admitted
<1>3. \A k \in ks : (c \in InFlight(k) <=> box[k].pending[c] \in {"executing", "completing"})
  BY DEF InFlight
<1>4. ASSUME reply[c] = "none", reply'[c] = "never"
      PROVE  \E k \in Connectors : box[k].pending[c] = "queued"
  <2>1. PICK k \in ks : box[k].pending[c] # "no"
    BY <1>1, <1>2, <1>4
  <2>2. box[k].pending[c] \notin {"executing", "completing"}
    BY <1>1, <1>2, <1>3, <1>4
  <2> QED
    BY <1>0, <2>1, <2>2
<1>5. ASSUME NEW k \in Connectors, box[k].pending[c] # "no" PROVE reply'[c] # "none"
  BY <1>1, <1>2, <1>5
<1> QED
  BY <1>1, <1>4, <1>5

\* Callers who lose a mailbox change in nothing else.
LEMMA DetachedCallers ==
  ASSUME TypeOK, NEW ks
  PROVE  \A c \in Cmds :
           /\ Detached(sender, ks)[c].pc = sender[c].pc
           /\ Detached(sender, ks)[c].box = IF sender[c].box \in ks THEN Nowhere ELSE sender[c].box
<1>1. sender \in [Cmds -> Sender] /\ \A c \in Cmds : sender[c] \in Sender
  BY DEF TypeOK
<1> QED
  BY <1>1 DEF Detached, Sender

\* Nor do requests.
LEMMA DetachedHandlers ==
  ASSUME TypeOK, NEW ks
  PROVE  \A h \in Handlers :
           /\ Detached(handler, ks)[h].stage = handler[h].stage
           /\ Detached(handler, ks)[h].from = handler[h].from
           /\ Detached(handler, ks)[h].cmd = handler[h].cmd
           /\ Detached(handler, ks)[h].res = handler[h].res
           /\ Detached(handler, ks)[h].live = handler[h].live
           /\ Detached(handler, ks)[h].box = IF handler[h].box \in ks THEN Nowhere ELSE handler[h].box
<1>1. handler \in [Handlers -> Handler] /\ \A h \in Handlers : handler[h] \in Handler
  BY DEF TypeOK
<1> QED
  BY <1>1 DEF Detached, Handler

\* A new and a closed mailbox have nothing in them.
LEMMA EmptyBoxes ==
  /\ OpenBox.open /\ OpenBox.queue = <<>> /\ \A c \in Cmds : OpenBox.pending[c] = "no"
  /\ ClosedBox.open = FALSE /\ ClosedBox.queue = <<>> /\ \A c \in Cmds : ClosedBox.pending[c] = "no"
BY DEF ClosedBox, OpenBox, NothingPending

\* A handshake: the connector waits, is the current one, or replaces a silent one and
\* closes its mailbox.
LEMMA AdoptKeeps ==
  ASSUME BridgeInv, TypeOK', NEW k \in Connectors, Adopt(k)
  PROVE  BridgeInv'
<1>0. /\ TypeOK /\ BoxInv /\ CallerInv /\ FlightInv
      /\ HandlerInv /\ WaitInv /\ WorkerInv /\ PlaceInv /\ NoResultIsDropped
      /\ WorkerOK(k) /\ worker[k] \in Worker
  BY DEF BridgeInv, WorkerInv, TypeOK
<1>1. worker[k].pc = "handshake" /\ worker[k].at = NoHandler /\ UNCHANGED <<up, epoch, told, journal, ran>>
  BY <1>0 DEF Adopt, WaitInv
<1> DEFINE next == [worker[k] EXCEPT !.pc = "request"]
<1>2. next.pc = "request" /\ next.at = NoHandler
  BY <1>0, <1>1 DEF Worker
<1>3. CASE current # k /\ Live(current)
  <2>1. UNCHANGED <<bridge, box, callers, handler, journal, ran>>
        /\ worker' = [worker EXCEPT ![k] = Loading]
    BY <1>1, <1>3 DEF Adopt, Work, bridge, callers
  <2>2. Loading.at = NoHandler /\ Loading.pc = "load"
    BY DEF Loading
  <2> QED
    BY <1>1, <2>1, <2>2, IdleKeeps
<1>4. CASE current = k
  <2>1. UNCHANGED <<bridge, box, callers, handler, journal, ran>>
        /\ worker' = [worker EXCEPT ![k] = next]
    BY <1>1, <1>4 DEF Adopt, Work, bridge, callers
  <2> HIDE DEF next
  <2> QED
    BY <1>1, <1>2, <2>1, IdleKeeps
<1>5. CASE current # k /\ ~Live(current)
  <2> DEFINE closed == {current} \cap Connectors
  <2>1. /\ box' = [b \in Connectors |-> IF b = k THEN OpenBox
                                         ELSE IF b \in closed THEN ClosedBox ELSE box[b]]
        /\ reply' = RepliesOnClose(closed)
        /\ sender' = Detached(sender, closed) /\ handler' = Detached(handler, closed)
        /\ current' = k /\ worker' = [worker EXCEPT ![k] = next]
    BY <1>5 DEF Adopt, Work
  <2>2. \A b \in Connectors \ closed : box[b] = ClosedBox
    BY <1>0 DEF BoxInv
  <2>3. closed \in SUBSET Connectors /\ \A b \in Connectors \ closed, c \in Cmds : box[b].pending[c] = "no"
    BY <2>2, EmptyBoxes
  <2>4. \A c \in Cmds : sender[c].box \in closed \cup {Nowhere}
    <3>1. \A c \in Cmds : sender[c].box \in Connectors \cup {Nowhere}
      BY <1>0 DEF TypeOK, Sender
    <3> QED
      BY <1>0, <3>1 DEF CallerInv
  <2>5. \A h \in Handlers : handler[h].box \in closed \cup {Nowhere}
    <3>1. \A h \in Handlers : handler[h].box \in Connectors \cup {Nowhere}
      BY <1>0 DEF TypeOK, Handler
    <3> QED
      BY <1>0, <3>1 DEF HandlerInv, HandlerOK
  <2>6. \A b \in Connectors : box'[b] = IF b = k THEN OpenBox ELSE ClosedBox
    BY <2>1, <2>2
  <2>7. \A c \in Cmds :
          /\ reply'[c] = reply[c] \/ (reply[c] = "none" /\ reply'[c] \in {"unknown", "never"})
          /\ reply[c] = "none" /\ reply'[c] = "never" =>
               \E b \in Connectors : box[b].pending[c] = "queued"
          /\ (\E b \in Connectors : box[b].pending[c] # "no") => reply'[c] # "none"
    BY <2>1, <2>3, ClosingReplies
  <2>8. \A c \in Cmds : sender'[c].pc = sender[c].pc /\ sender'[c].box = Nowhere
    BY <1>0, <2>1, <2>4, DetachedCallers
  <2>9. \A h \in Handlers :
          /\ handler'[h].stage = handler[h].stage /\ handler'[h].from = handler[h].from
          /\ handler'[h].cmd = handler[h].cmd /\ handler'[h].res = handler[h].res
          /\ handler'[h].live = handler[h].live /\ handler'[h].box = Nowhere
    BY <1>0, <2>1, <2>5, DetachedHandlers
  <2>10. worker'[k] = next /\ \A j \in Connectors \ {k} : worker'[j] = worker[j]
    BY <1>0, <2>1, WorkerUpdate
  <2>11. up
    BY DEF Adopt
  <2> HIDE DEF next, closed
  <2>12. Closes
    <3>1. \A b \in Connectors :
            /\ box'[b].queue = <<>> /\ \A c \in Cmds : box'[b].pending[c] = "no"
            /\ IF b = current' THEN box'[b].open ELSE box'[b] = ClosedBox
      BY <2>1, <2>6, EmptyBoxes
    <3> QED
      BY <1>1, <2>7, <2>8, <2>9, <2>11, <3>1 DEF Closes, Known
  <2>13. Grows
    BY <2>12, ClosesGrows
  <2>14. WorkerInv'
    <3> SUFFICES ASSUME NEW j \in Connectors PROVE WorkerOK(j)'
      BY DEF WorkerInv
    <3>1. CASE j = k
      <4>1. journal[k].state # "executing"
        BY <1>0, <1>1 DEF WorkerOK
      <4> QED
        BY <1>0, <1>1, <1>2, <2>10, <2>13, <3>1, <4>1, WorkerIdles
    <3>2. CASE j # k
      BY <1>0, <1>1, <2>10, <2>13, <3>2, WorkerKeeps DEF WorkerInv
    <3> QED
      BY <3>1, <3>2
  <2>15. WaitInv'
    <3>1. ASSUME NEW h \in Handlers, handler'[h].stage # "free"
          PROVE  /\ handler'[h].from \in Connectors
                 /\ handler'[h].live =>
                      worker'[handler'[h].from].pc = "wait" /\ worker'[handler'[h].from].at = h
      <4>1. PICK j \in Connectors : j = handler[h].from
        BY <1>0, <2>9, <3>1 DEF WaitInv
      <4>2. handler[h].live => worker[j].pc = "wait" /\ worker[j].at = h
        BY <1>0, <2>9, <3>1, <4>1 DEF WaitInv
      <4> QED
        BY <1>1, <2>9, <2>10, <4>1, <4>2
    <3>2. \A j \in Connectors : worker'[j].pc # "wait" => worker'[j].at = NoHandler
      BY <1>0, <1>2, <2>10 DEF WaitInv
    <3>3. ASSUME NEW j \in Connectors, NEW h \in Handlers, worker'[j].at = h
          PROVE  /\ handler'[h].from = j /\ handler'[h].live /\ handler'[h].stage # "free"
                 /\ IF handler'[h].stage \in Returning
                    THEN journal'[j].state = "result" /\ handler'[h].cmd = journal'[j].cmd
                    ELSE journal'[j] = NoEntry
      <4>1. worker[j].at = h
        BY <1>2, <2>10, <3>3, NamesAssumption
      <4> QED
        BY <1>0, <1>1, <2>9, <4>1 DEF WaitInv
    <3> QED
      BY <3>1, <3>2, <3>3 DEF WaitInv
  <2>16. \A j \in Connectors, c \in Cmds : Holding(j, c)' => Holding(j, c)
    BY <1>1, <1>2, <2>10 DEF Holding
  <2> QED
    BY <2>12, <2>14, <2>15, <2>16, ClosesKeeps
<1> QED
  BY <1>3, <1>4, <1>5

\* The bridge ends, and with it every request that a worker waits for.
LEMMA DisconnectKeeps ==
  ASSUME BridgeInv, TypeOK', Closes, worker' = Disconnected,
         \A h \in Handlers : handler'[h].stage # "free" => handler[h].stage # "free" /\ ~handler'[h].live
  PROVE  BridgeInv'
<1>0. TypeOK /\ WaitInv /\ WorkerInv /\ Grows /\ UNCHANGED <<journal, ran>>
  BY ClosesGrows DEF BridgeInv, Closes
<1>1. \A k \in Connectors : worker'[k] = IF worker[k].pc = "wait" THEN Loading ELSE worker[k]
  BY DEF Disconnected
<1>2. Loading.pc = "load" /\ Loading.at = NoHandler
  BY DEF Loading
<1>3. \A k \in Connectors : worker'[k].at = NoHandler
  BY <1>0, <1>1, <1>2 DEF WaitInv
<1>4. WaitInv'
  <2>1. \A h \in Handlers : handler'[h].stage # "free" =>
          handler'[h].from \in Connectors /\ ~handler'[h].live
    BY <1>0 DEF Closes, WaitInv
  <2> QED
    BY <1>3, <2>1, NamesAssumption DEF WaitInv
<1>5. WorkerInv'
  <2> SUFFICES ASSUME NEW k \in Connectors PROVE WorkerOK(k)'
    BY DEF WorkerInv
  <2>1. CASE worker[k].pc = "wait"
    BY <1>0, <1>1, <1>2, <2>1, WorkerIdles DEF WorkerInv
  <2>2. CASE worker[k].pc # "wait"
    BY <1>0, <1>1, <2>2, WorkerKeeps DEF WorkerInv
  <2> QED
    BY <2>1, <2>2
<1>6. \A k \in Connectors, c \in Cmds : Holding(k, c)' => Holding(k, c)
  BY <1>0, <1>1, <1>2 DEF Holding
<1> QED
  BY <1>4, <1>5, <1>6, ClosesKeeps

\* The bridge stops: its handlers are interrupted, but for those that complete.
LEMMA StopKeeps ==
  ASSUME BridgeInv, TypeOK', Stop
  PROVE  BridgeInv'
<1>0. TypeOK /\ (\A h \in Handlers : handler[h] \in Handler)
      /\ \A c \in Cmds : sender[c].box \in Connectors \cup {Nowhere}
  BY DEF BridgeInv, TypeOK, Sender
<1>1. \A c \in Cmds :
        /\ reply'[c] = reply[c] \/ (reply[c] = "none" /\ reply'[c] \in {"unknown", "never"})
        /\ reply[c] = "none" /\ reply'[c] = "never" =>
             \E k \in Connectors : box[k].pending[c] = "queued"
        /\ (\E k \in Connectors : box[k].pending[c] # "no") => reply'[c] # "none"
  BY ClosingReplies DEF Stop
<1>2. \A c \in Cmds : sender'[c].pc = sender[c].pc /\ sender'[c].box = Nowhere
  <2>1. sender' = Detached(sender, Connectors)
    BY DEF Stop
  <2>2. \A c \in Cmds :
          /\ Detached(sender, Connectors)[c].pc = sender[c].pc
          /\ Detached(sender, Connectors)[c].box =
               IF sender[c].box \in Connectors THEN Nowhere ELSE sender[c].box
    BY <1>0, DetachedCallers
  <2> QED
    BY <1>0, <2>1, <2>2
<1>3. \A h \in Handlers :
        \/ handler'[h].stage = "free" /\ handler'[h].box = Nowhere
        \/ /\ handler'[h].stage = handler[h].stage /\ handler'[h].from = handler[h].from
           /\ handler'[h].cmd = handler[h].cmd /\ handler'[h].res = handler[h].res
           /\ handler'[h].box = Nowhere /\ ~handler'[h].live /\ handler[h].stage # "free"
  <2> SUFFICES ASSUME NEW h \in Handlers
               PROVE  \/ handler'[h].stage = "free" /\ handler'[h].box = Nowhere
                      \/ /\ handler'[h].stage = handler[h].stage /\ handler'[h].from = handler[h].from
                         /\ handler'[h].cmd = handler[h].cmd /\ handler'[h].res = handler[h].res
                         /\ handler'[h].box = Nowhere /\ ~handler'[h].live /\ handler[h].stage # "free"
    OBVIOUS
  <2>1. CASE handler[h].stage = "completing"
    <3>1. handler'[h] = [handler[h] EXCEPT !.box = Nowhere, !.live = FALSE]
      BY <2>1 DEF Stop
    <3> QED
      BY <1>0, <2>1, <3>1 DEF Handler
  <2>2. CASE handler[h].stage # "completing"
    BY <2>2 DEF Stop, FreeHandler
  <2> QED
    BY <2>1, <2>2
<1>4. Closes
  <2>1. \A k \in Connectors :
          /\ box'[k].queue = <<>> /\ \A c \in Cmds : box'[k].pending[c] = "no"
          /\ IF k = current' THEN box'[k].open ELSE box'[k] = ClosedBox
    BY EmptyBoxes, NamesAssumption DEF Stop
  <2>2. UNCHANGED <<told, journal, ran>> /\ current' = Nobody
    BY DEF Stop
  <2> QED
    BY <1>1, <1>2, <1>3, <2>1, <2>2 DEF Closes, Known
<1>5. worker' = Disconnected
  BY DEF Stop
<1>6. \A h \in Handlers : handler'[h].stage # "free" => handler[h].stage # "free" /\ ~handler'[h].live
  BY <1>3
<1> QED
  BY <1>4, <1>5, <1>6, DisconnectKeeps

\* The process of the bridge ends with all its callers.
LEMMA CrashKeeps ==
  ASSUME BridgeInv, TypeOK', Crash
  PROVE  BridgeInv'
<1> DEFINE lost == {c \in Cmds : sender[c].pc \in {"gate", "offer", "await"} /\ Serving(c)}
<1>0. /\ TypeOK /\ BoxInv /\ CallerInv /\ (\A c \in Cmds : sender[c] \in Sender)
  BY DEF BridgeInv, TypeOK
<1>1. /\ sender' = [c \in Cmds |-> IF c \in lost
                                   THEN [sender[c] EXCEPT !.pc = "done", !.box = Nowhere] ELSE sender[c]]
      /\ told' = [c \in Cmds |-> IF c \in lost /\ told[c] = "none" THEN "unknown" ELSE told[c]]
      /\ up /\ current' = Nobody /\ UNCHANGED <<reply, journal, ran>>
      /\ box' = [k \in Connectors |-> ClosedBox]
  BY DEF Crash
<1>2. \A c \in Cmds \ lost : sender[c].box = Nowhere
  BY <1>0, <1>1 DEF CallerInv, Serving
<1>3. \A c \in Cmds : (\E k \in Connectors : box[k].pending[c] # "no") => c \in lost
  BY <1>0, <1>2, NamesAssumption DEF BoxInv
<1> HIDE DEF lost
<1>4. \A c \in Cmds : IF c \in lost THEN told'[c] # "none" ELSE told'[c] = told[c]
  BY <1>1
<1>5. ASSUME NEW c \in Cmds
      PROVE  /\ sender'[c].box = Nowhere
             /\ sender'[c].pc = sender[c].pc \/ (sender'[c].pc = "done" /\ told'[c] # "none")
  <2>1. CASE c \in lost
    <3>1. sender'[c] = [sender[c] EXCEPT !.pc = "done", !.box = Nowhere]
      BY <1>1, <2>1
    <3> QED
      BY <1>0, <1>4, <2>1, <3>1 DEF Sender
  <2>2. CASE c \notin lost
    BY <1>1, <1>2, <2>2
  <2> QED
    BY <2>1, <2>2
<1>6. \A h \in Handlers : handler'[h].stage = "free" /\ handler'[h].box = Nowhere
  BY DEF Crash, FreeHandler
<1>7. \A k \in Connectors :
        /\ box'[k].queue = <<>> /\ \A c \in Cmds : box'[k].pending[c] = "no"
        /\ IF k = current' THEN box'[k].open ELSE box'[k] = ClosedBox
  BY <1>1, EmptyBoxes, NamesAssumption
<1>8. \A c \in Cmds : told'[c] = told[c] \/ (told[c] = "none" /\ told'[c] = "unknown")
  BY <1>1
<1>9. Closes
  BY <1>1, <1>3, <1>4, <1>5, <1>6, <1>7, <1>8 DEF Closes, Known
<1>10. worker' = Disconnected
  BY DEF Crash
<1> QED
  BY <1>6, <1>9, <1>10, DisconnectKeeps

\* A new process with the port, when no caller holds a mailbox; and steps of no part.
LEMMA PromoteKeeps ==
  ASSUME BridgeInv, TypeOK', UNCHANGED <<current, box, callers, handler, browser>>,
         (up' = up /\ epoch' = epoch) \/ (~up /\ up' = TRUE)
  PROVE  BridgeInv'
<1>0. /\ TypeOK /\ BoxInv /\ CallerInv /\ FlightInv
      /\ HandlerInv /\ WaitInv /\ WorkerInv /\ PlaceInv /\ NoResultIsDropped
      /\ \A c \in Cmds : sender[c].box \in Connectors \cup {Nowhere}
  BY DEF BridgeInv, TypeOK, Sender
<1>1. UNCHANGED <<current, box, sender, reply, told, handler, worker, journal, ran>>
  BY DEF callers, browser
<1>2. Grows
  BY <1>1 DEF Grows, Known, Answered, Sent
<1>3. BoxInv'
  BY <1>0, <1>1 DEF BoxInv
<1>4. CallerInv'
  <2>1. \A c \in Cmds : sender[c].box # Nowhere => epoch' = epoch
    BY <1>0, NamesAssumption DEF BoxInv, CallerInv
  <2>2. \A c \in Cmds : ran[c] # "no" => \E k \in Connectors : Sent(k, c)'
    BY <1>0, <1>2 DEF CallerInv, Grows
  <2> QED
    BY <1>0, <1>1, <2>1, <2>2 DEF CallerInv, IsTrue
<1>5. FlightInv' /\ WaitInv' /\ PlaceInv'
  BY <1>0, <1>1 DEF FlightInv, InFlight, Taking, WaitInv, PlaceInv, Serves, Holding
<1>6. HandlerInv'
  BY <1>0, <1>1, <1>2, HandlerKeeps DEF HandlerInv
<1>7. WorkerInv'
  BY <1>0, <1>1, <1>2, WorkerKeeps DEF WorkerInv
<1>8. NoResultIsDropped'
  BY <1>0, <1>1, <1>2, ResultKeeps
<1> QED
  BY <1>3, <1>4, <1>5, <1>6, <1>7, <1>8 DEF BridgeInv

-----------------------------------------------------------------------------
(* The invariant, and what follows from it *)

\* The invariant holds initially.
LEMMA InitKeeps == Init => BridgeInv
<1> SUFFICES ASSUME Init PROVE BridgeInv
  OBVIOUS
<1>0. /\ FreeHandler.stage = "free" /\ FreeHandler.box = Nowhere
      /\ Loading.pc = "load" /\ Loading.at = NoHandler /\ Loading.cmd = NoCmd
      /\ NoEntry.state = "none" /\ NoEntry.cmd = NoCmd
  BY DEF FreeHandler, Loading, NoEntry
<1>1. /\ \A h \in Handlers : handler[h].stage = "free" /\ handler[h].box = Nowhere
      /\ \A k \in Connectors : worker[k] = Loading /\ journal[k] = NoEntry /\ box[k] = ClosedBox
      /\ \A c \in Cmds : /\ sender[c].pc = "idle" /\ sender[c].box = Nowhere
                         /\ told[c] = "none" /\ reply[c] = "none" /\ ran[c] = "no"
      /\ up /\ current = Nobody
  BY <1>0 DEF Init
<1>2. TypeOK
  BY InitTyped
<1>3. BoxInv
  <2>1. \A k \in Connectors : Len(box[k].queue) = 0
    BY <1>1, EmptyBoxes, LenProperties
  <2>2. \A k \in Connectors : \A i \in 1 .. Len(box[k].queue) :
          sender[box[k].queue[i]].pc \in {"await", "done"}
    BY <2>1
  <2> QED
    BY <1>1, <2>2, EmptyBoxes, NamesAssumption DEF BoxInv
<1>4. CallerInv
  BY <1>1 DEF CallerInv, IsTrue
<1>5. FlightInv
  <2>1. \A k \in Connectors : InFlight(k) = {}
    BY <1>1, EmptyBoxes DEF InFlight
  <2> QED
    BY <1>1, <2>1 DEF FlightInv, Taking
<1>6. HandlerInv
  BY <1>1 DEF HandlerInv, HandlerOK, Returning
<1>7. WaitInv
  BY <1>0, <1>1, NamesAssumption DEF WaitInv
<1>8. WorkerInv
  BY <1>0, <1>1, NamesAssumption DEF WorkerInv, WorkerOK
<1>9. PlaceInv
  BY <1>0, <1>1, NamesAssumption DEF PlaceInv, Serves, Holding
<1>10. NoResultIsDropped
  BY <1>1 DEF NoResultIsDropped
<1> QED
  BY <1>2, <1>3, <1>4, <1>5, <1>6, <1>7, <1>8, <1>9, <1>10 DEF BridgeInv

\* Every step keeps it.
LEMMA NextKeeps == BridgeInv /\ [Next]_vars => BridgeInv'
<1> SUFFICES ASSUME BridgeInv, [Next]_vars PROVE BridgeInv'
  OBVIOUS
<1>0. TypeOK'
  BY NextTyped
<1>1. CASE UNCHANGED vars
  <2>1. UNCHANGED <<current, box, callers, handler, browser>> /\ up' = up /\ epoch' = epoch
    BY <1>1 DEF vars, callers, browser
  <2> QED
    BY <1>0, <2>1, PromoteKeeps
<1>2. ASSUME NEW c \in Cmds, Send(c) \/ Caller(c) \/ Cancel(c) \/ Disconnect(c)
      PROVE  BridgeInv'
  BY <1>0, <1>2, CallerStep, CallerKeeps
<1>3. ASSUME NEW h \in Handlers, Requests(h) PROVE BridgeInv'
  BY <1>0, <1>3, RequestKeeps
<1>4. ASSUME NEW k \in Connectors, Loop(k) PROVE BridgeInv'
  BY <1>0, <1>4, LoadJournalKeeps, AdoptKeeps, RequestStarts, RecordKeeps, BeginKeeps, FinishKeeps,
     SaveKeeps, ClearKeeps DEF Loop
<1>5. ASSUME NEW k \in Connectors, Expire(k) PROVE BridgeInv'
  BY <1>0, <1>5, ExpireKeeps
<1>6. ASSUME NEW k \in Connectors, RequestFails(k) \/ KillWorker(k) PROVE BridgeInv'
  BY <1>0, <1>6, AbandonKeeps DEF RequestFails, KillWorker, Work
<1>7. CASE Stop
  BY <1>0, <1>7, StopKeeps
<1>8. CASE Crash
  BY <1>0, <1>8, CrashKeeps
<1>9. CASE Promote
  BY <1>0, <1>9, PromoteKeeps DEF Promote
<1> QED
  BY <1>1, <1>2, <1>3, <1>4, <1>5, <1>6, <1>7, <1>8, <1>9 DEF Next

\* So it holds always.
LEMMA Invariance == Spec => []BridgeInv
BY InitKeeps, NextKeeps, PTL DEF Spec

\* Everything has its type, and no mailbox queue outgrows its capacity.
THEOREM TypeCorrect == Spec => []TypeOK
<1>1. BridgeInv => TypeOK
  BY DEF BridgeInv
<1> QED
  BY <1>1, Invariance, PTL

\* A mailbox has at most one command in flight, whatever requests are lost and whichever
\* stale polls still wait (the delivery permit and the guard of CommandBroker.next).
THEOREM FlightIsSingle == Spec => []OneInFlight
<1>1. BridgeInv => OneInFlight
  <2> SUFFICES ASSUME BridgeInv, NEW k \in Connectors PROVE Cardinality(InFlight(k)) <= 1
    BY DEF OneInFlight
  <2>1. \A c, d \in InFlight(k) : c = d
    BY DEF BridgeInv, FlightInv
  <2>2. CASE InFlight(k) = {}
    BY <2>2, FS_EmptySet
  <2>3. CASE InFlight(k) # {}
    <3>1. PICK c : c \in InFlight(k)
      BY <2>3
    <3>2. InFlight(k) = {c}
      BY <2>1, <3>1
    <3> QED
      BY <3>2, FS_Singleton
  <2> QED
    BY <2>2, <2>3
<1> QED
  BY <1>1, Invariance, PTL

\* What the browser has done is not forgotten before the caller has an answer or is
\* certain to get one (the journal, complete and the closing of mailboxes).
THEOREM ResultsAreKept == Spec => []NoResultIsDropped
<1>1. BridgeInv => NoResultIsDropped
  BY DEF BridgeInv
<1> QED
  BY <1>1, Invariance, PTL

-----------------------------------------------------------------------------
(* The promise *)

\* A caller is told something once, and it is an answer, a refusal or that nothing is known.
LEMMA CallerPromise ==
  ASSUME BridgeInv, BridgeInv', NEW c \in Cmds, CallerMoves(c)
  PROVE  Abstract!Next \/ UNCHANGED <<told, ran>>
<1>0. /\ told \in [Cmds -> Answers \cup {"none"}] /\ told' \in [Cmds -> Answers \cup {"none"}]
      /\ CallerInv /\ reply[c] \in Answers \cup {"none"}
      /\ ran[c] \in {"no", "running", "ok", "failed"}
  BY DEF BridgeInv, TypeOK
<1>1. ran' = ran /\ \A d \in Cmds \ {c} : told'[d] = told[d]
  BY DEF CallerMoves, browser
<1>2. CASE told'[c] = told[c]
  BY <1>0, <1>1, <1>2
<1>3. CASE told'[c] # told[c]
  <2> DEFINE answer == told'[c]
  <2>1. told[c] = "none" /\ answer # "none" /\ answer \in {"unknown", "never", reply[c]}
    BY <1>0, <1>3 DEF CallerMoves, Enters, Reserves, Offers, Hears, Leaves
  <2>2. told' = [told EXCEPT ![c] = answer]
    BY <1>0, <1>1
  <2>3. CASE answer = "unknown"
    <3>1. told' = [d \in Cmds |-> IF d \in {c} THEN "unknown" ELSE told[d]]
      BY <1>0, <2>2, <2>3
    <3>2. Abstract!GiveUp({c})
      BY <1>1, <2>1, <3>1 DEF Abstract!GiveUp
    <3>3. {c} \in SUBSET Cmds
      OBVIOUS
    <3> QED
      BY <3>2, <3>3 DEF Abstract!Next
  <2>4. CASE answer = "never"
    <3>1. \A k \in Connectors : ~Sent(k, c)
      BY <1>0, <2>1, <2>4 DEF CallerMoves, Enters, Reserves, Offers, Hears, Leaves, Sent
    <3>2. ran[c] = "no"
      BY <1>0, <3>1 DEF CallerInv
    <3>3. Abstract!Refuse(c)
      BY <1>1, <2>1, <2>2, <2>4, <3>2 DEF Abstract!Refuse, Abstract!Tell
    <3> QED
      BY <3>3 DEF Abstract!Next
  <2>5. CASE answer \in {"ok", "failed"}
    <3>1. ran[c] = answer
      BY <1>0, <2>1, <2>5 DEF CallerInv, IsTrue
    <3>2. Abstract!Answer(c)
      BY <1>1, <2>1, <2>2, <2>5, <3>1 DEF Abstract!Answer, Abstract!Tell
    <3> QED
      BY <3>2 DEF Abstract!Next
  <2> QED
    BY <1>0, <2>1, <2>3, <2>4, <2>5 DEF Answers, Results
<1> QED
  BY <1>2, <1>3

\* A command begins once and not after a refusal; it finishes with one outcome.
LEMMA WorkerPromise ==
  ASSUME BridgeInv, NEW k \in Connectors, Begin(k) \/ Finish(k)
  PROVE  Abstract!Next
<1>0. /\ CallerInv /\ WorkerOK(k) /\ worker[k].pc \in {"begin", "execute"}
      /\ told \in [Cmds -> Answers \cup {"none"}]
  BY DEF BridgeInv, WorkerInv, TypeOK, Begin, Finish
<1>1. PICK c \in Cmds : c = worker[k].cmd
  BY <1>0 DEF WorkerOK
<1>2. CASE Begin(k)
  <2>1. worker[k].pc = "begin" /\ UNCHANGED told /\ ran' = [ran EXCEPT ![c] = "running"]
    BY <1>1, <1>2 DEF Begin, callers
  <2>2. ran[c] = "no" /\ journal[k].cmd = c
    BY <1>0, <1>1, <2>1 DEF WorkerOK
  <2>3. Sent(k, c)
    BY <1>0, <2>2 DEF WorkerOK
  <2>4. told[c] \in {"none", "unknown"}
    BY <1>0, <2>2, <2>3 DEF Sent, CallerInv, IsTrue, Answers, Results
  <2>5. Abstract!Begin(c)
    BY <2>1, <2>2, <2>4 DEF Abstract!Begin
  <2> QED
    BY <2>5 DEF Abstract!Next
<1>3. CASE Finish(k)
  <2>1. worker[k].pc = "execute" /\ UNCHANGED told
        /\ \E outcome \in {"ok", "failed"} : ran' = [ran EXCEPT ![c] = outcome]
    BY <1>1, <1>3 DEF Finish, callers
  <2>2. ran[c] = "running"
    BY <1>0, <1>1, <2>1 DEF WorkerOK
  <2>3. Abstract!Finish(c)
    BY <2>1, <2>2 DEF Abstract!Finish
  <2> QED
    BY <2>3 DEF Abstract!Next
<1> QED
  BY <1>2, <1>3

\* All callers of a process that ends are gone at once.
LEMMA CrashPromise ==
  ASSUME BridgeInv, Crash
  PROVE  Abstract!Next \/ UNCHANGED <<told, ran>>
<1> DEFINE lost == {c \in Cmds : sender[c].pc \in {"gate", "offer", "await"} /\ Serving(c)}
           gone == {c \in lost : told[c] = "none"}
<1>0. told \in [Cmds -> Answers \cup {"none"}]
  BY DEF BridgeInv, TypeOK
<1>1. told' = [c \in Cmds |-> IF c \in lost /\ told[c] = "none" THEN "unknown" ELSE told[c]]
      /\ ran' = ran
  BY DEF Crash
<1>2. told' = [c \in Cmds |-> IF c \in gone THEN "unknown" ELSE told[c]]
  BY <1>1
<1>3. gone \in SUBSET Cmds /\ \A c \in gone : told[c] = "none"
  OBVIOUS
<1> HIDE DEF gone
<1>4. CASE gone = {}
  BY <1>0, <1>1, <1>2, <1>4
<1>5. CASE gone # {}
  <2>1. Abstract!GiveUp(gone)
    BY <1>1, <1>2, <1>3, <1>5 DEF Abstract!GiveUp
  <2> QED
    BY <1>3, <2>1 DEF Abstract!Next
<1> QED
  BY <1>4, <1>5

\* A command runs at most once, never after its caller was told that it would not, and a
\* success or a failure is reported only if the browser had it: every step of the bridge
\* is one of ChromeCommand, or none.
THEOREM KeepsPromise == Spec => PromiseKept
<1>1. Init => Abstract!Init
  BY DEF Init, Abstract!Init
<1>2. ASSUME BridgeInv, BridgeInv', [Next]_vars PROVE Abstract!Next \/ UNCHANGED <<told, ran>>
  <2>1. CASE UNCHANGED vars
    BY <2>1 DEF vars
  <2>2. ASSUME NEW c \in Cmds, Send(c) \/ Caller(c) \/ Cancel(c) \/ Disconnect(c)
        PROVE  Abstract!Next \/ UNCHANGED <<told, ran>>
    BY <1>2, <2>2, CallerStep, CallerPromise
  <2>3. ASSUME NEW h \in Handlers, Requests(h) PROVE UNCHANGED <<told, ran>>
    BY <2>3 DEF Requests, Connect, Permit, Take, Claim, PollEnds, Complete, Acknowledge, Interrupt,
       Respond, callers, browser
  <2>4. ASSUME NEW k \in Connectors, Loop(k) PROVE Abstract!Next \/ UNCHANGED <<told, ran>>
    <3>1. CASE Begin(k) \/ Finish(k)
      BY <1>2, <3>1, WorkerPromise
    <3>2. CASE ~(Begin(k) \/ Finish(k))
      BY <2>4, <3>2 DEF Loop, LoadJournal, Adopt, Request, Record, Save, Clear, callers
    <3> QED
      BY <3>1, <3>2
  <2>5. ASSUME NEW k \in Connectors, Expire(k) \/ RequestFails(k) \/ KillWorker(k)
        PROVE  UNCHANGED <<told, ran>>
    BY <2>5 DEF Expire, RequestFails, KillWorker, callers, browser
  <2>6. CASE Stop \/ Promote
    BY <2>6 DEF Stop, Promote, callers, browser
  <2>7. CASE Crash
    BY <1>2, <2>7, CrashPromise
  <2> QED
    BY <1>2, <2>1, <2>2, <2>3, <2>4, <2>5, <2>6, <2>7 DEF Next
<1>3. Spec => []BridgeInv
  BY Invariance
<1> QED
  BY <1>1, <1>2, <1>3, PTL DEF Spec, PromiseKept, Abstract!Spec

=============================================================================
