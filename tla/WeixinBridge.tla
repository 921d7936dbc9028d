---------------------------- MODULE WeixinBridge ----------------------------
(***************************************************************************)
(* The bridge from a Weixin account to Pi sessions: the loop of BridgeLive *)
(* (iteration, processUpdateBatch, dispatchPending, dispatchPrompt, retry, *)
(* requireReauthentication), the state file it keeps with StateStore, and  *)
(* the operations that stop it, log in and change the default session.     *)
(*                                                                         *)
(* Around it: the iLink server, which delivers the messages after a cursor *)
(* in order and all of them after an empty one, and the Pi server, which   *)
(* decides every prompt by the ledger of its session (PromptLedger).       *)
(*                                                                         *)
(* The bridge may stop, crash or fail between any two of its steps; every  *)
(* write of the state file replaces it in one step. One Weixin user only:  *)
(* FlushImages never fires, since a login drops what another user left.    *)
(***************************************************************************)
EXTENDS Naturals, Sequences, SequencesExt, PromptLedger

CONSTANTS
  Messages,      \* how many messages the user sends
  Contents,      \* what a message may be: type and quoted session
  Sessions,      \* Pi sessions
  Default,       \* the default session at first
  NoSession,     \* a message that quotes nothing
  ProcessedLimit,\* processedLimit of the state store
  MaxFailures,   \* bound: failed calls, stops and crashes
  MaxLogins,     \* bound: expired logins and new ones
  MaxSwitches    \* bound: changes of the default session

ASSUME SessionsAssumption == Default \in Sessions /\ NoSession \notin Sessions
ASSUME ContentsAssumption ==
  Contents \subseteq [type : {"text", "image", "both", "notice", "foreign"},
                      quote : Sessions \cup {NoSession}]
ASSUME LimitsAssumption ==
  /\ Messages \in Nat \ {0} /\ ProcessedLimit \in Nat \ {0}
  /\ MaxFailures \in Nat /\ MaxLogins \in Nat /\ MaxSwitches \in Nat

VARIABLES
  msg,        \* the messages, in the order they are sent
  sent,       \* how many have been sent
  store,      \* the state file
  loop,       \* the loop of the bridge
  pi,         \* the ledgers of the Pi sessions
  running,    \* prompts that Pi is executing
  ran,        \* executions: session, request, if it was one before (history)
  answered,   \* messages somebody got a reply to (history)
  ignored,    \* messages of others (history)
  dropped,    \* messages left behind for another session's images (history)
  excused,    \* messages whose idempotency was lost (history)
  bounds      \* what has gone wrong so far (bound)

vars == <<msg, sent, store, loop, pi, running, ran, answered, ignored,
          dropped, excused, bounds>>
outside == <<msg, sent>>
server == <<pi, running, ran>>
history == <<answered, ignored, dropped, excused>>

-----------------------------------------------------------------------------
(* Types *)

Id == 1 .. Messages

\* The id of a message, or messageBatchIdentity of a batch, as request id.
Request == [type : {"one", "batch"}, ids : Seq(Id)]
NoRequest == [type |-> "one", ids |-> <<>>]

\* PendingImageBatch; due: its deadline has passed.
Batch == [tag : {"none", "Collecting", "Dispatching"}, session : Sessions,
          ids : Seq(Id), due : BOOLEAN]
NoBatch == [tag |-> "none", session |-> Default, ids |-> <<>>, due |-> FALSE]

Store == [auth : BOOLEAN, default : Sessions, cursor : 0 .. Messages,
          processed : Seq(Id), pending : Batch]

\* A dispatch in progress and where the loop goes on after it.
Job == [req : Request, session : Sessions, stage : {"ask", "wait", "reply", "mark"},
        back : {"message", "next", "cursor"}]
NoJob == [req |-> NoRequest, session |-> Default, stage |-> "ask", back |-> "message"]

Loop == [pc : {"off", "begin", "fetch", "message", "finish", "dispatch", "cursor"},
         next : 1 .. Messages + 1, upto : 0 .. Messages, default : Sessions, job : Job]
Off == [pc |-> "off", next |-> 1, upto |-> 0, default |-> Default, job |-> NoJob]

Record == [req : Request, pay : Request, rt : Sessions, done : BOOLEAN]

Init ==
  /\ msg \in [Id -> Contents] /\ sent = 0
  /\ store = [auth |-> TRUE, default |-> Default, cursor |-> 0,
              processed |-> <<>>, pending |-> NoBatch]
  /\ loop = Off
  /\ pi = {} /\ running = {} /\ ran = {}
  /\ answered = {} /\ ignored = {} /\ dropped = {} /\ excused = {}
  /\ bounds = [failures |-> 0, logins |-> 0, switches |-> 0]

-----------------------------------------------------------------------------
(* The state file *)

Forgets(s, m) == m \notin Range(s.processed) /\ Len(s.processed) = ProcessedLimit

\* Mutant: the ids of earlier messages are never dropped.
WithProcessedAll(s, m) ==
  IF m \in Range(s.processed) THEN s ELSE [s EXCEPT !.processed = Append(@, m)]

\* Mutant: nothing is marked.
WithProcessedNever(s, m) == s

\* withProcessed: the last ProcessedLimit ids.
WithProcessed(s, m) ==
  IF m \in Range(s.processed) THEN s
  ELSE [s EXCEPT !.processed = Append(IF Forgets(s, m) THEN Tail(@) ELSE @, m)]

\* appendBatch: the batch is empty or collects for the same session.
Compatible(batch, session) ==
  batch.tag = "none" \/ (batch.tag = "Collecting" /\ batch.session = session)

Joined(batch, m) == IF m \in Range(batch.ids) THEN batch.ids ELSE Append(batch.ids, m)

\* An id that leaves the list before the cursor has passed it is taken for new,
\* and what follows it may join the batch that it opens again.
Excuse(m) ==
  excused' = IF Forgets(store, m) /\ Head(store.processed) > store.cursor
             THEN excused \cup Head(store.processed) .. Messages ELSE excused

\* Mutant: what was collected is discarded.
ExpiredDropping(s) ==
  IF s.pending.tag = "Collecting" /\ s.pending.due THEN [s EXCEPT !.pending = NoBatch] ELSE s

\* Mutant: the deadline is forgotten.
ExpiredNever(s) == s

\* ExpireImages: what was collected is dispatched.
Expired(s) ==
  IF s.pending.tag = "Collecting" /\ s.pending.due
  THEN [s EXCEPT !.pending.tag = "Dispatching"] ELSE s

\* clearAuth, saveAuth and logout forget the cursor, the ids and the batch.
Forgotten(s, auth) ==
  [s EXCEPT !.auth = auth, !.cursor = 0, !.processed = <<>>, !.pending = NoBatch]

BatchJob(batch, back) ==
  [req |-> [type |-> "batch", ids |-> batch.ids], session |-> batch.session,
   stage |-> "ask", back |-> back]

\* A dispatch that the state s has in progress comes first, then pc.
Resume(l, s, pc) ==
  IF s.pending.tag = "Dispatching"
  THEN [l EXCEPT !.pc = "dispatch", !.job = BatchJob(s.pending, pc)]
  ELSE [l EXCEPT !.pc = pc, !.job = NoJob]

-----------------------------------------------------------------------------
(* The loop *)

Start ==
  /\ loop.pc = "off" /\ store.auth
  /\ loop' = [Off EXCEPT !.pc = "begin"]
  /\ UNCHANGED <<outside, store, server, history, bounds>>

\* processUpdateBatch without messages: it reads the default session, lets
\* the batch expire and takes up a dispatch that was left unfinished.
Begin ==
  /\ loop.pc = "begin"
  /\ store' = Expired(store)
  /\ loop' = Resume([loop EXCEPT !.default = store.default], store', "message")
  /\ UNCHANGED <<outside, server, history, bounds>>

\* getUpdates: some of the messages after the cursor. When there are none the
\* poll times out, and an empty batch is processed as in the next iteration.
Fetch ==
  /\ loop.pc = "fetch"
  /\ \/ /\ store.cursor = sent
        /\ loop' = [Off EXCEPT !.pc = "begin"]
     \/ \E k \in store.cursor + 1 .. sent :
          loop' = Resume([loop EXCEPT !.default = store.default,
                            !.next = store.cursor + 1, !.upto = k], store, "message")
  /\ UNCHANGED <<outside, store, server, history, bounds>>

\* The next message of the batch.
Advanced == [loop EXCEPT !.next = @ + 1, !.job = NoJob, !.pc = "message"]

\* One message of the batch, m, that has not been processed.
Handling(m) ==
  /\ loop.pc = "message" /\ m = loop.next /\ m <= loop.upto
  /\ m \notin Range(store.processed)

Target(m) == IF msg[m].quote = NoSession THEN loop.default ELSE msg[m].quote

Skip ==
  /\ loop.pc = "message" /\ loop.next <= loop.upto
  /\ loop.next \in Range(store.processed)
  /\ loop' = Advanced
  /\ UNCHANGED <<outside, store, server, history, bounds>>

\* A message of somebody else, or one that cannot be decoded.
Ignore(m) ==
  /\ Handling(m) /\ msg[m].type = "foreign"
  /\ store' = WithProcessed(store, m) /\ Excuse(m)
  /\ ignored' = ignored \cup {m}
  /\ loop' = Advanced
  /\ UNCHANGED <<outside, server, answered, dropped, bounds>>

\* Quoting something unknown, or nothing that Pi could be told: a reply.
Notify(m) ==
  /\ Handling(m) /\ msg[m].type = "notice" /\ m \notin answered
  /\ answered' = answered \cup {m}
  /\ UNCHANGED <<outside, store, loop, server, ignored, dropped, excused, bounds>>

Notified(m) ==
  /\ Handling(m) /\ msg[m].type = "notice" /\ m \in answered
  /\ store' = WithProcessed(store, m) /\ Excuse(m)
  /\ loop' = Advanced
  /\ UNCHANGED <<outside, server, answered, ignored, dropped, bounds>>

\* CollectImages. A batch of another session makes the iteration fail.
Collect(m) ==
  /\ Handling(m) /\ msg[m].type = "image"
  /\ IF Compatible(store.pending, Target(m))
     THEN /\ store' = [WithProcessed(store, m) EXCEPT !.pending =
                [tag |-> "Collecting", session |-> Target(m), due |-> FALSE,
                 ids |-> Joined(store.pending, m)]]
          /\ Excuse(m)
          /\ loop' = Advanced
     ELSE /\ loop' = [Off EXCEPT !.pc = "begin"]
          /\ UNCHANGED <<store, excused>>
  /\ UNCHANGED <<outside, server, answered, ignored, dropped, bounds>>

\* DispatchImages: a text after images, or with some. A batch of another
\* session leaves the state as it is, and the message behind.
DispatchImages(m) ==
  /\ Handling(m)
  /\ msg[m].type = "both" \/ (msg[m].type = "text" /\ store.pending.tag = "Collecting")
  /\ IF Compatible(store.pending, Target(m))
     THEN /\ store' = [WithProcessed(store, m) EXCEPT !.pending =
                [tag |-> "Dispatching", session |-> Target(m), due |-> FALSE,
                 ids |-> Joined(store.pending, m)]]
          /\ Excuse(m)
          /\ loop' = [loop EXCEPT !.pc = "dispatch", !.job = BatchJob(store'.pending, "next")]
          /\ UNCHANGED dropped
     ELSE /\ loop' = Advanced
          /\ dropped' = dropped \cup {m}
          /\ UNCHANGED <<store, excused>>
  /\ UNCHANGED <<outside, server, answered, ignored, bounds>>

\* A text on its own is a prompt under its own id.
DispatchText(m) ==
  /\ Handling(m) /\ msg[m].type = "text" /\ store.pending.tag # "Collecting"
  /\ loop' = [loop EXCEPT !.pc = "dispatch",
       !.job = [req |-> [type |-> "one", ids |-> <<m>>], session |-> Target(m),
                stage |-> "ask", back |-> "next"]]
  /\ UNCHANGED <<outside, store, server, history, bounds>>

\* After the last message: the batch may have expired meanwhile.
Finish ==
  /\ loop.pc = "message" /\ loop.next > loop.upto
  /\ store' = Expired(store)
  /\ loop' = Resume(loop, store', "cursor")
  /\ UNCHANGED <<outside, server, history, bounds>>

\* saveCursor, and the next half of the iteration.
SaveCursor ==
  /\ loop.pc = "cursor"
  /\ \/ /\ loop.upto = 0
        /\ loop' = [Off EXCEPT !.pc = "fetch"]
        /\ UNCHANGED store
     \/ /\ loop.upto # 0
        /\ store' = [store EXCEPT !.cursor = loop.upto]
        /\ loop' = [Off EXCEPT !.pc = "begin"]
  /\ UNCHANGED <<outside, server, history, bounds>>

-----------------------------------------------------------------------------
(* A dispatch *)

Stage(s) == loop.pc = "dispatch" /\ loop.job.stage = s
To(stage) == loop' = [loop EXCEPT !.job.stage = stage]

\* The prompt reaches the Pi server.
Ask ==
  LET j == loop.job
      rec == [req |-> j.req, pay |-> j.req, rt |-> j.session, done |-> FALSE]
      verdict == Decide({r \in pi : r.rt = j.session}, j.req, j.req)
  IN
  /\ Stage("ask")
  /\ \/ /\ rec \in running
        /\ To("wait") /\ UNCHANGED server
     \/ /\ rec \notin running /\ verdict # "begin"  \* its text, or a conflict
        /\ To("reply") /\ UNCHANGED server
     \/ /\ rec \notin running /\ verdict = "begin"
        /\ To("wait")
        /\ pi' = pi \cup {rec} /\ running' = running \cup {rec}
        /\ ran' = ran \cup {[req |-> j.req, session |-> j.session,
                             again |-> \E x \in ran : x.req = j.req /\ x.session = j.session]}
  /\ UNCHANGED <<outside, store, history, bounds>>

\* The images cannot be had, or the session is not found: a reply says so.
\* The Pi server says so too when it lost the runtime of a prompt it began.
Unavailable ==
  /\ Stage("ask") \/ Stage("wait")
  /\ bounds.failures < MaxFailures
  /\ bounds' = [bounds EXCEPT !.failures = @ + 1]
  /\ To("reply")
  /\ UNCHANGED <<outside, store, server, history>>

\* The stream of the prompt ends, with its text or without.
Heard ==
  LET mine(r) == r.req = loop.job.req /\ r.rt = loop.job.session IN
  /\ Stage("wait") /\ ~\E r \in running : mine(r)
  /\ IF \E r \in pi : mine(r) /\ r.done THEN To("reply")
     ELSE loop' = [Off EXCEPT !.pc = "begin"]
  /\ UNCHANGED <<outside, store, server, history, bounds>>

Reply ==
  /\ Stage("reply")
  /\ answered' = answered \cup Range(loop.job.req.ids)
  /\ To("mark")
  /\ UNCHANGED <<outside, store, server, ignored, dropped, excused, bounds>>

\* CompleteImages, or markProcessed; then back to where the dispatch began.
Conclude ==
  LET j == loop.job IN
  /\ Stage("mark")
  /\ IF j.req.type = "batch"
     THEN /\ store' = IF store.pending.tag = "Dispatching" /\ store.pending.ids = j.req.ids
                      THEN [store EXCEPT !.pending = NoBatch] ELSE store
          /\ UNCHANGED excused
     ELSE /\ store' = WithProcessed(store, j.req.ids[1]) /\ Excuse(j.req.ids[1])
  /\ loop' = IF j.back = "next" THEN Advanced ELSE [loop EXCEPT !.pc = j.back, !.job = NoJob]
  /\ UNCHANGED <<outside, server, answered, ignored, dropped, bounds>>

-----------------------------------------------------------------------------
(* Failures and operations of the user *)

Bounded(f, max) == bounds[f] < max /\ bounds' = [bounds EXCEPT ![f] = @ + 1]

\* A call or a write fails: the loop begins the iteration again.
Fail ==
  /\ loop.pc # "off" /\ Bounded("failures", MaxFailures)
  /\ loop' = [Off EXCEPT !.pc = "begin"]
  /\ UNCHANGED <<outside, store, server, history>>

\* The bridge is stopped or its process ends; the prompt it waits for goes on.
Stop ==
  /\ loop.pc # "off" /\ Bounded("failures", MaxFailures)
  /\ loop' = Off
  /\ UNCHANGED <<outside, store, server, history>>

\* requireReauthentication after an iLink call, or logout.
Expire ==
  /\ store.auth /\ Bounded("logins", MaxLogins)
  /\ store' = Forgotten(store, FALSE)
  /\ loop' = Off
  /\ excused' = excused \cup Range(store.processed)
        \cup UNION {Range(x.req.ids) : x \in ran}
  /\ UNCHANGED <<outside, server, answered, ignored, dropped>>

\* connect: the loop is stopped before the new credentials are saved.
Login ==
  /\ ~store.auth
  /\ store' = Forgotten(store, TRUE)
  /\ UNCHANGED <<outside, loop, server, history, bounds>>

\* setDefaultSession. What was executed and is not marked yet, and the batch
\* that is being processed with the old default, may go to the new one again.
SetDefault ==
  /\ Bounded("switches", MaxSwitches)
  /\ \E s \in Sessions \ {store.default} : store' = [store EXCEPT !.default = s]
  /\ excused' = excused \cup loop.next .. loop.upto
       \cup {m \in Id \ Range(store.processed) : \E x \in ran : m \in Range(x.req.ids)}
  /\ UNCHANGED <<outside, loop, server, answered, ignored, dropped>>

-----------------------------------------------------------------------------
(* The servers and time *)

Send ==
  /\ sent < Messages /\ sent' = sent + 1
  /\ UNCHANGED <<msg, store, loop, server, history, bounds>>

Elapse ==
  /\ store.pending.tag = "Collecting" /\ ~store.pending.due
  /\ store' = [store EXCEPT !.pending.due = TRUE]
  /\ UNCHANGED <<outside, loop, server, history, bounds>>

\* Pi ends a prompt: its completion is recorded, or it fails.
PiEnds ==
  \E r \in running :
    /\ running' = running \ {r}
    /\ \/ /\ pi' = (pi \ {r}) \cup {[r EXCEPT !.done = TRUE]}
          /\ UNCHANGED bounds
       \/ /\ UNCHANGED pi /\ Bounded("failures", MaxFailures)
    /\ UNCHANGED <<outside, store, loop, ran, history>>

Handle(m) ==
  Ignore(m) \/ Notify(m) \/ Notified(m) \/ Collect(m) \/ DispatchImages(m) \/ DispatchText(m)

Iterate ==
  \/ Start \/ Begin \/ Fetch \/ Skip \/ (\E m \in Id : Handle(m)) \/ Finish \/ SaveCursor
  \/ Ask \/ Heard \/ Reply \/ Conclude

Next ==
  \/ Iterate \/ Unavailable \/ Fail \/ Stop \/ Expire \/ Login \/ SetDefault
  \/ Send \/ Elapse \/ PiEnds

Spec == Init /\ [][Next]_vars

\* The loop goes on and is started again while there are credentials, time
\* passes and Pi ends what it executes. Nobody has to send, fail, log in or
\* change anything.
FairSpec == Spec /\ WF_vars(Iterate) /\ WF_vars(Elapse) /\ WF_vars(PiEnds)

-----------------------------------------------------------------------------
(* Properties *)

TypeOK ==
  /\ msg \in [Id -> Contents] /\ sent \in 0 .. Messages
  /\ store \in Store /\ loop \in Loop
  /\ pi \subseteq Record /\ running \subseteq pi
  /\ ran \subseteq [req : Request, session : Sessions, again : BOOLEAN]
  /\ answered \cup ignored \cup dropped \cup excused \subseteq Id
  /\ Len(store.processed) <= ProcessedLimit
  /\ bounds \in [failures : 0 .. MaxFailures, logins : 0 .. MaxLogins,
                 switches : 0 .. MaxSwitches]

\* A reply was sent for m, it is none of the user's, or the state file holds
\* it for a dispatch.
Settled(m) == m \in answered \cup ignored \cup Range(store.pending.ids)

\* Pi executes no message twice, whether as a prompt or as part of a batch of
\* images, in one session or in two, whatever fails between its dispatch and
\* its mark, unless the user forces it: by a new login, which forgets ids and
\* cursor, or a new default session; or the list of ids overflows before the
\* cursor has passed them. Concerns the ledger of Pi, the marks and the batches.
ExecutedOnce ==
  \A x, y \in ran : x # y => Range(x.req.ids) \cap Range(y.req.ids) \subseteq excused

\* What is marked, and what the cursor has passed, is settled, except for a
\* text that a batch of images for another session made processUpdateBatch
\* leave behind. Concerns the order of dispatch, reply, mark and cursor.
MarkedIsSettled ==
  /\ \A m \in Range(store.processed) : Settled(m)
  /\ \A m \in 1 .. store.cursor : Settled(m) \/ m \in dropped

\* The promise of the README of the extension (lines 3 to 5): an unquoted
\* message enters the default session and a quoting one the session it came
\* from. No message may be passed over.
NothingLost == \A m \in 1 .. store.cursor : Settled(m)

\* While the bridge keeps its credentials, every message that arrives is
\* answered: failed calls, crashes, incompatible batches and prompts that
\* are in doubt block the ones behind them only for a while.
EveryMessageAnswered ==
  []<>(\/ ~store.auth
       \/ 1 .. sent \subseteq answered \cup ignored \cup dropped)
=============================================================================
