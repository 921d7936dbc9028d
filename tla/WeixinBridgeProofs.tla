-------------------------- MODULE WeixinBridgeProofs --------------------------
(***************************************************************************)
(* Proofs about WeixinBridge, for any messages, sessions, limits and       *)
(* failures: what is marked is settled, and nothing is executed twice.     *)
(***************************************************************************)
EXTENDS WeixinBridge, SequenceTheorems, TLAPS

Marked(m) == m \in Range(store.processed)
StoreTarget(m) == IF msg[m].quote = NoSession THEN store.default ELSE msg[m].quote
One(m) == [type |-> "one", ids |-> <<m>>]
Apart(ids, y) == Range(ids) \cap Range(y.req.ids) \subseteq excused

\* Where the loop is. A dispatch is that of the batch in the file, or of the next message,
\* a text that comes when no batch is there; its messages are answered before the mark.
JobInv ==
  loop.pc = "dispatch" =>
    /\ loop.job.req.type = "batch" =>
         /\ store.pending.tag = "Dispatching"
         /\ store.pending.ids = loop.job.req.ids /\ store.pending.session = loop.job.session
    /\ loop.job.req.type = "one" =>
         /\ loop.job.req.ids = <<loop.next>> /\ loop.job.back = "next"
         /\ msg[loop.next].type = "text" /\ ~Marked(loop.next)
         /\ store.pending.tag = "none" /\ loop.job.session = Target(loop.next)
    /\ loop.job.back = "next" =>
         /\ loop.next <= loop.upto /\ loop.next \in Range(loop.job.req.ids)
         /\ msg[loop.next].type # "image"
         /\ loop.job.req.type = "batch" => Marked(loop.next)
    /\ loop.job.back = "cursor" => loop.next > loop.upto
    /\ loop.job.stage = "mark" => Range(loop.job.req.ids) \subseteq answered

LoopInv ==
  /\ loop.pc \in {"off", "begin", "fetch"} => loop.upto = 0
  /\ IF loop.upto = 0 THEN loop.next = 1
     ELSE store.cursor < loop.next /\ store.cursor < loop.upto
  /\ loop.pc = "cursor" => loop.next > loop.upto
  /\ loop.pc \in {"fetch", "message", "cursor"} => store.pending.tag # "Dispatching"
  /\ store.pending.tag = "none" => store.pending.ids = <<>>
  /\ ~store.auth =>
       loop.pc = "off" /\ store.cursor = 0 /\ store.processed = <<>> /\ store.pending = NoBatch

\* What the loop has gone through is settled, the images of it are marked, unless an
\* overflow forgot them; it uses the default session of the file, unless that is new.
PassedInv ==
  /\ \A m \in 1 .. loop.next - 1 : Settled(m) \/ m \in dropped
  /\ \A m \in store.cursor + 1 .. loop.next - 1 : msg[m].type = "image" =>
       Marked(m) \/ m .. Messages \subseteq excused
  /\ loop.default = store.default \/ loop.next .. loop.upto \subseteq excused

\* What was executed is in the ledger, and once; a message that was executed and is neither
\* marked nor passed is a text on its own, for the session it would go to again.
RanInv ==
  /\ \A x \in ran : ~x.again /\ \E r \in pi : r.req = x.req /\ r.rt = x.session
  /\ \A x \in ran : x.req.type = "one" => \E m \in Id : x.req = One(m) /\ msg[m].type = "text"
  /\ \A x \in ran : \A m \in Range(x.req.ids) :
       \/ m \in excused \/ Marked(m) \/ m <= store.cursor
       \/ x.req = One(m) /\ x.session = StoreTarget(m)

\* The loop comes to such a message again before anything else is collected.
Open(m) ==
  m \notin excused /\ ~Marked(m) /\ m > store.cursor /\ \E x \in ran : x.req = One(m)

OpenInv ==
  \A m \in Id : Open(m) =>
      /\ store.pending.tag # "Collecting"
      /\ \A i \in store.cursor + 1 .. m - 1 : msg[i].type = "image" => Marked(i)
      /\ loop.upto # 0 => loop.next <= m

\* A batch has messages that are marked, and none that was executed outside of it.
BatchInv ==
  /\ \A m \in Range(store.pending.ids) : m \in excused \/ Marked(m) \/ m <= store.cursor
  /\ \A x \in ran :
       \/ Apart(store.pending.ids, x)
       \/ /\ store.pending.tag = "Dispatching" /\ x.session = store.pending.session
          /\ x.req = [type |-> "batch", ids |-> store.pending.ids]

WeixinInv ==
  /\ TypeOK /\ JobInv /\ LoopInv /\ PassedInv /\ MarkedIsSettled
  /\ RanInv /\ OpenInv /\ BatchInv /\ ExecutedOnce

-----------------------------------------------------------------------------
(* Sequences and records *)

USE SessionsAssumption, ContentsAssumption, LimitsAssumption

\* The elements of the sequences that the model builds.
LEMMA Elements ==
  ASSUME NEW S, NEW q \in Seq(S), NEW x \in S
  PROVE  /\ Range(q) \subseteq S /\ Len(q) \in Nat
         /\ Append(q, x) \in Seq(S) /\ Len(Append(q, x)) = Len(q) + 1
         /\ Range(Append(q, x)) = Range(q) \cup {x}
         /\ q # <<>> =>
              /\ Head(q) \in Range(q) /\ Tail(q) \in Seq(S) /\ Len(Tail(q)) = Len(q) - 1
              /\ Range(q) = {Head(q)} \cup Range(Tail(q))
<1>1. Len(q) \in Nat /\ DOMAIN q = 1 .. Len(q) /\ \A i \in 1 .. Len(q) : q[i] \in S
  BY LenProperties, ElementOfSeq
<1>2. /\ Append(q, x) \in Seq(S) /\ Len(Append(q, x)) = Len(q) + 1
      /\ \A i \in 1 .. Len(q) : Append(q, x)[i] = q[i]
      /\ Append(q, x)[Len(q) + 1] = x
  BY AppendProperties
<1>3. DOMAIN Append(q, x) = 1 .. Len(q) + 1
  BY <1>2, LenProperties
<1>4. Range(Append(q, x)) = Range(q) \cup {x}
  BY <1>1, <1>2, <1>3 DEF Range
<1>5. ASSUME q # <<>>
      PROVE  /\ Head(q) \in Range(q) /\ Tail(q) \in Seq(S) /\ Len(Tail(q)) = Len(q) - 1
             /\ Range(q) = {Head(q)} \cup Range(Tail(q))
  <2>1. /\ Tail(q) \in Seq(S) /\ Len(Tail(q)) = Len(q) - 1
        /\ \A i \in 1 .. Len(Tail(q)) : Tail(q)[i] = q[i + 1]
    BY <1>5, HeadTailProperties
  <2>2. Len(q) # 0 /\ Head(q) = q[1]
    BY <1>5, EmptySeq
  <2>3. DOMAIN Tail(q) = 1 .. Len(q) - 1
    BY <2>1, LenProperties
  <2>4. Head(q) \in Range(q)
    BY <1>1, <2>2 DEF Range
  <2>5. \A i \in 1 .. Len(q) - 1 : Tail(q)[i] = q[i + 1]
    BY <2>1
  <2>6. \A i \in 2 .. Len(q) : i - 1 \in 1 .. Len(q) - 1 /\ q[i] = Tail(q)[i - 1]
    BY <1>1, <2>5
  <2>7. \A y \in Range(q) : y = Head(q) \/ y \in Range(Tail(q))
    <3> SUFFICES ASSUME NEW i \in 1 .. Len(q) PROVE q[i] = q[1] \/ q[i] \in Range(Tail(q))
      BY <1>1, <2>2 DEF Range
    <3>1. i = 1 \/ i \in 2 .. Len(q)
      BY <1>1
    <3> QED
      BY <2>3, <2>6, <3>1 DEF Range
  <2>8. Range(Tail(q)) \subseteq Range(q)
    <3>1. \A i \in 1 .. Len(q) - 1 : i + 1 \in 1 .. Len(q)
      BY <1>1
    <3> QED
      BY <1>1, <2>3, <2>5, <3>1 DEF Range
  <2> QED
    BY <2>1, <2>4, <2>7, <2>8
<1>6. Range(q) \subseteq S
  BY <1>1 DEF Range
<1> QED
  BY <1>1, <1>2, <1>4, <1>5, <1>6

\* The empty sequence and those with one element.
LEMMA Singles ==
  /\ Range(<<>>) = {} /\ \A S : <<>> \in Seq(S)
  /\ \A x : Range(<<x>>) = {x} /\ <<x>>[1] = x
  /\ \A S : \A x \in S : <<x>> \in Seq(S)
  /\ \A x, y : <<x>> = <<y>> => x = y
<1>1. Range(<<>>) = {}
  BY DEF Range
<1>2. \A x : Range(<<x>>) = {x}
  BY DEF Range
<1> QED
  BY <1>1, <1>2

\* Records of the model have their fields, and changing one leaves the others alone.
LEMMA StateFields ==
  ASSUME TypeOK
  PROVE  /\ store.auth \in BOOLEAN /\ store.default \in Sessions /\ store.cursor \in 0 .. Messages
         /\ store.processed \in Seq(Id) /\ store.pending \in Batch
         /\ store.pending.tag \in {"none", "Collecting", "Dispatching"}
         /\ store.pending.session \in Sessions /\ store.pending.ids \in Seq(Id)
         /\ store.pending.due \in BOOLEAN
         /\ loop.pc \in {"off", "begin", "fetch", "message", "finish", "dispatch", "cursor"}
         /\ loop.next \in 1 .. Messages + 1 /\ loop.upto \in 0 .. Messages
         /\ loop.default \in Sessions /\ loop.job \in Job /\ loop.job.req \in Request
         /\ loop.job.session \in Sessions /\ loop.job.req.ids \in Seq(Id)
         /\ loop.job.req.type \in {"one", "batch"}
         /\ loop.job.back \in {"message", "next", "cursor"}
<1>1. store \in Store /\ loop \in Loop
  BY DEF TypeOK
<1>2. store.pending \in Batch /\ loop.job \in Job
  BY <1>1 DEF Store, Loop
<1>3. loop.job.req \in Request
  BY <1>2 DEF Job
<1> QED
  BY <1>1, <1>2, <1>3 DEF Store, Batch, Loop, Job, Request

\* A message has a type and goes to one of the sessions.
LEMMA MessageFields ==
  ASSUME TypeOK, NEW m \in Id
  PROVE  /\ msg[m].type \in {"text", "image", "both", "notice", "foreign"}
         /\ StoreTarget(m) \in Sessions /\ Target(m) \in Sessions
<1>1. msg[m] \in [type : {"text", "image", "both", "notice", "foreign"},
                  quote : Sessions \cup {NoSession}]
  BY DEF TypeOK
<1> QED
  BY <1>1, StateFields DEF StoreTarget, Target

\* The records that the loop starts with.
LEMMA InitialRecords ==
  /\ NoRequest \in Request /\ NoBatch \in Batch /\ NoJob \in Job
  /\ NoBatch.tag = "none" /\ NoBatch.ids = <<>>
  /\ Off \in Loop /\ [Off EXCEPT !.pc = "begin"] \in Loop /\ [Off EXCEPT !.pc = "fetch"] \in Loop
  /\ Off.pc = "off" /\ Off.next = 1 /\ Off.upto = 0
  /\ \A p \in {"begin", "fetch"} :
       /\ [Off EXCEPT !.pc = p].pc = p /\ [Off EXCEPT !.pc = p].next = 1
       /\ [Off EXCEPT !.pc = p].upto = 0
<1>1. NoRequest \in Request
  BY Singles DEF NoRequest, Request
<1>2. NoJob \in Job /\ NoBatch \in Batch
  BY <1>1, Singles DEF NoJob, Job, NoBatch, Batch
<1>3. Off \in Loop
  BY <1>2 DEF Off, Loop
<1> QED
  BY <1>1, <1>2, <1>3 DEF Off, Loop, NoBatch

\* Marking a message keeps the other fields of the file and all marks but the oldest.
LEMMA WithProcessedFields ==
  ASSUME TypeOK, NEW m \in Id
  PROVE  LET s == WithProcessed(store, m) IN
         /\ s \in Store /\ Len(s.processed) <= ProcessedLimit
         /\ s.auth = store.auth /\ s.default = store.default
         /\ s.cursor = store.cursor /\ s.pending = store.pending
         /\ m \in Range(s.processed) /\ Range(s.processed) \subseteq Range(store.processed) \cup {m}
         /\ \A i \in Range(store.processed) : 
              i \in Range(s.processed) \/ (Forgets(store, m) /\ i = Head(store.processed))
<1>. DEFINE p == store.processed
            s == WithProcessed(store, m)
            q == IF Forgets(store, m) THEN Tail(p) ELSE p
<1>1. /\ store \in Store /\ p \in Seq(Id) /\ Len(p) <= ProcessedLimit /\ Len(p) \in Nat
      /\ ProcessedLimit \in Nat \ {0}
  BY StateFields, Elements DEF TypeOK
<1>2. CASE m \in Range(p)
  BY <1>1, <1>2 DEF WithProcessed
<1>3. CASE m \notin Range(p)
  <2>1. s = [store EXCEPT !.processed = Append(q, m)]
    BY <1>3 DEF WithProcessed
  <2>2. /\ q \in Seq(Id) /\ Len(q) + 1 <= ProcessedLimit /\ Range(q) \subseteq Range(p)
        /\ \A i \in Range(p) : i \in Range(q) \/ (Forgets(store, m) /\ i = Head(p))
    <3>1. CASE Forgets(store, m)
      <4>1. Len(p) = ProcessedLimit /\ p # <<>> /\ q = Tail(p)
        BY <1>1, <3>1 DEF Forgets
      <4>2. /\ Tail(p) \in Seq(Id) /\ Len(Tail(p)) = Len(p) - 1
            /\ Range(p) = {Head(p)} \cup Range(Tail(p))
        BY <1>1, <4>1, Elements
      <4>3. Len(p) - 1 + 1 <= ProcessedLimit
        BY <1>1
      <4>. QED
        BY <3>1, <4>1, <4>2, <4>3
    <3>2. CASE ~Forgets(store, m)
      <4>1. q = p /\ Len(p) # ProcessedLimit
        BY <1>3, <3>2 DEF Forgets
      <4>2. Len(p) + 1 <= ProcessedLimit
        BY <1>1, <4>1
      <4>. QED
        BY <1>1, <3>2, <4>2
    <3>. QED
      BY <3>1, <3>2
  <2>. HIDE DEF q
  <2>3. /\ Append(q, m) \in Seq(Id) /\ Len(Append(q, m)) = Len(q) + 1
        /\ Range(Append(q, m)) = Range(q) \cup {m}
    BY <2>2, Elements
  <2>4. /\ s \in Store /\ s.processed = Append(q, m)
        /\ s.auth = store.auth /\ s.default = store.default
        /\ s.cursor = store.cursor /\ s.pending = store.pending
    BY <1>1, <2>1, <2>3 DEF Store
  <2>. QED
    BY <2>2, <2>3, <2>4
<1>. QED
  BY <1>2, <1>3

\* What leaves the list is passed by the cursor, or excused with all that follows.
LEMMA MarkKeeps ==
  ASSUME TypeOK, NEW m \in Id, Excuse(m), store'.cursor = store.cursor,
         store'.processed = WithProcessed(store, m).processed
  PROVE  /\ excused \subseteq excused' /\ Marked(m)'
         /\ \A i \in Id : Marked(i)' => Marked(i) \/ i = m
         /\ \A i \in Id : Marked(i) =>
              Marked(i)' \/ i <= store'.cursor \/ i .. Messages \subseteq excused'
<1>. DEFINE s == WithProcessed(store, m)
<1>1. /\ m \in Range(s.processed) /\ Range(s.processed) \subseteq Range(store.processed) \cup {m}
      /\ \A i \in Range(store.processed) : 
           i \in Range(s.processed) \/ (Forgets(store, m) /\ i = Head(store.processed))
  BY WithProcessedFields
<1>. HIDE DEF s
<1>2. store'.processed = s.processed
  BY DEF s
<1>3. ASSUME NEW i \in Id, Marked(i), ~Marked(i)', ~(i <= store'.cursor)
      PROVE  i .. Messages \subseteq excused'
  <2>1. Forgets(store, m) /\ i = Head(store.processed)
    BY <1>1, <1>2, <1>3 DEF Marked
  <2>2. i > store.cursor
    BY <1>3, StateFields DEF Id
  <2>. QED
    BY <2>1, <2>2 DEF Excuse
<1>. QED
  BY <1>1, <1>2, <1>3 DEF Marked, Excuse

\* What an overflow forgets are messages.
LEMMA ExcuseTyped ==
  ASSUME TypeOK, NEW m \in Id, Excuse(m)
  PROVE  excused' \subseteq Id
<1>1. excused \subseteq Id /\ store.processed \in Seq(Id) /\ Len(store.processed) \in Nat
  BY StateFields, Elements DEF TypeOK
<1>2. CASE Forgets(store, m)
  <2>1. store.processed # <<>>
    BY <1>2, EmptySeq DEF Forgets
  <2>2. Head(store.processed) \in Id
    BY <1>1, <2>1, Elements
  <2>3. Head(store.processed) .. Messages \subseteq Id
    BY <2>2 DEF Id
  <2>. QED
    BY <1>1, <2>3 DEF Excuse
<1>3. CASE ~Forgets(store, m)
  BY <1>1, <1>3 DEF Excuse
<1>. QED
  BY <1>2, <1>3

\* ExpireImages changes at most the tag of the batch.
LEMMA ExpiredFields ==
  ASSUME TypeOK
  PROVE  LET s == Expired(store) IN
         /\ s \in Store /\ s.auth = store.auth /\ s.default = store.default
         /\ s.cursor = store.cursor /\ s.processed = store.processed
         /\ s.pending.ids = store.pending.ids /\ s.pending.session = store.pending.session
         /\ s.pending.due = store.pending.due
         /\ \/ s.pending.tag = store.pending.tag
            \/ s.pending.tag = "Dispatching" /\ store.pending.tag = "Collecting"
<1>1. store \in Store /\ store.pending \in Batch
  BY StateFields DEF TypeOK
<1>2. CASE store.pending.tag = "Collecting" /\ store.pending.due
  <2>. DEFINE b == [store.pending EXCEPT !.tag = "Dispatching"]
  <2>1. /\ b \in Batch /\ b.tag = "Dispatching" /\ b.ids = store.pending.ids
        /\ b.session = store.pending.session /\ b.due = store.pending.due
    BY <1>1 DEF Batch
  <2>2. Expired(store) = [store EXCEPT !.pending = b]
    BY <1>1, <1>2 DEF Expired
  <2>. HIDE DEF b
  <2>. QED
    BY <1>1, <1>2, <2>1, <2>2 DEF Store
<1>3. CASE ~(store.pending.tag = "Collecting" /\ store.pending.due)
  BY <1>1, <1>3 DEF Expired
<1>. QED
  BY <1>2, <1>3

\* The dispatch of a batch.
LEMMA BatchJobFields ==
  ASSUME NEW b \in Batch, NEW back \in {"message", "next", "cursor"}
  PROVE  /\ BatchJob(b, back) \in Job /\ BatchJob(b, back).session = b.session
         /\ BatchJob(b, back).stage = "ask" /\ BatchJob(b, back).back = back
         /\ BatchJob(b, back).req \in Request
         /\ BatchJob(b, back).req.type = "batch" /\ BatchJob(b, back).req.ids = b.ids
         /\ BatchJob(b, back).req = [type |-> "batch", ids |-> b.ids]
<1>1. b.ids \in Seq(Id) /\ b.session \in Sessions
  BY DEF Batch
<1>. QED
  BY <1>1 DEF BatchJob, Job, Request

\* Where the loop goes on, and with which dispatch.
LEMMA ResumeFields ==
  ASSUME NEW l \in Loop, NEW s \in Store, NEW pc \in {"message", "cursor"}
  PROVE  LET h == Resume(l, s, pc) IN
         /\ h \in Loop /\ h.next = l.next /\ h.upto = l.upto /\ h.default = l.default
         /\ s.pending.tag = "Dispatching" =>
              /\ h.pc = "dispatch" /\ h.job.stage = "ask" /\ h.job.back = pc
              /\ h.job.req.type = "batch" /\ h.job.req.ids = s.pending.ids
              /\ h.job.session = s.pending.session
         /\ s.pending.tag # "Dispatching" => h.pc = pc
<1>0. pc \in {"message", "next", "cursor"}
  OBVIOUS
<1>1. s.pending \in Batch
  BY DEF Store
<1>. DEFINE j == BatchJob(s.pending, pc)
<1>2. /\ j \in Job /\ j.session = s.pending.session /\ j.stage = "ask" /\ j.back = pc
      /\ j.req.type = "batch" /\ j.req.ids = s.pending.ids
  BY <1>0, <1>1 DEF BatchJob, Job, Batch, Request
<1>3. CASE s.pending.tag = "Dispatching"
  <2>1. Resume(l, s, pc) = [l EXCEPT !.pc = "dispatch", !.job = j]
    BY <1>3 DEF Resume
  <2>. HIDE DEF j
  <2>. QED
    BY <1>2, <1>3, <2>1 DEF Loop
<1>4. CASE s.pending.tag # "Dispatching"
  <2>1. Resume(l, s, pc) = [l EXCEPT !.pc = pc, !.job = NoJob]
    BY <1>4 DEF Resume
  <2>. QED
    BY <1>4, <2>1, InitialRecords DEF Loop
<1>. QED
  BY <1>3, <1>4

\* A dispatch that goes on to its next stage.
LEMMA StageFields ==
  ASSUME TypeOK, NEW s \in {"ask", "wait", "reply", "mark"}, To(s)
  PROVE  /\ loop' \in Loop /\ loop'.pc = loop.pc /\ loop'.next = loop.next /\ loop'.upto = loop.upto
         /\ loop'.default = loop.default /\ loop'.job.req = loop.job.req
         /\ loop'.job.session = loop.job.session /\ loop'.job.back = loop.job.back
         /\ loop'.job.stage = s
<1>1. loop \in Loop /\ loop.job \in Job
  BY StateFields DEF TypeOK
<1>. DEFINE j == [loop.job EXCEPT !.stage = s]
<1>2. /\ j \in Job /\ j.req = loop.job.req /\ j.session = loop.job.session
      /\ j.back = loop.job.back /\ j.stage = s
  BY <1>1 DEF Job
<1>3. loop' = [loop EXCEPT !.job = j]
  BY <1>1 DEF To
<1>. HIDE DEF j
<1>. QED
  BY <1>1, <1>2, <1>3 DEF Loop

\* The loop goes on to the next message.
LEMMA AdvancedFields ==
  ASSUME TypeOK, loop.next <= loop.upto
  PROVE  /\ Advanced \in Loop /\ Advanced.pc = "message" /\ Advanced.next = loop.next + 1
         /\ Advanced.upto = loop.upto /\ Advanced.default = loop.default
         /\ loop.upto # 0 /\ loop.next \in Id
<1>1. loop \in Loop
  BY DEF TypeOK
<1>2. loop.next + 1 \in 1 .. Messages + 1 /\ loop.upto # 0 /\ loop.next \in Id
  BY StateFields DEF Id
<1>. QED
  BY <1>1, <1>2, InitialRecords DEF Advanced, Loop

\* The batch after CollectImages or DispatchImages.
LEMMA CollectedFields ==
  ASSUME TypeOK, NEW m \in Id, NEW tag \in {"Collecting", "Dispatching"},
         store' = [WithProcessed(store, m) EXCEPT !.pending =
                     [tag |-> tag, session |-> Target(m), due |-> FALSE, ids |-> Joined(store.pending, m)]]
  PROVE  /\ store' \in Store /\ store'.auth = store.auth /\ store'.default = store.default
         /\ store'.cursor = store.cursor /\ store'.processed = WithProcessed(store, m).processed
         /\ Len(store'.processed) <= ProcessedLimit
         /\ store'.pending \in Batch /\ store'.pending.tag = tag
         /\ store'.pending.session = Target(m)
         /\ Range(store'.pending.ids) = Range(store.pending.ids) \cup {m}
<1>. DEFINE s == WithProcessed(store, m)
            q == Joined(store.pending, m)
            b == [tag |-> tag, session |-> Target(m), due |-> FALSE, ids |-> q]
<1>1. /\ s \in Store /\ Len(s.processed) <= ProcessedLimit /\ s.auth = store.auth
      /\ s.default = store.default /\ s.cursor = store.cursor
  BY WithProcessedFields
<1>2. q \in Seq(Id) /\ Range(q) = Range(store.pending.ids) \cup {m}
  <2>1. store.pending.ids \in Seq(Id)
    BY StateFields
  <2>2. CASE m \in Range(store.pending.ids)
    BY <2>1, <2>2 DEF Joined
  <2>3. CASE m \notin Range(store.pending.ids)
    BY <2>1, <2>3, Elements DEF Joined
  <2>. QED
    BY <2>2, <2>3
<1>. HIDE DEF s, q
<1>3. b \in Batch /\ b.tag = tag /\ b.session = Target(m) /\ b.ids = q
  BY <1>2, MessageFields DEF Batch
<1>4. store' = [s EXCEPT !.pending = b]
  BY DEF s, q
<1>. HIDE DEF b
<1>5. /\ store' \in Store /\ store'.auth = s.auth /\ store'.default = s.default
      /\ store'.cursor = s.cursor /\ store'.processed = s.processed /\ store'.pending = b
  BY <1>1, <1>3, <1>4 DEF Store
<1>. QED
  BY <1>1, <1>2, <1>3, <1>5 DEF s

-----------------------------------------------------------------------------
(* What most steps keep *)

\* A step that executes nothing keeps what was executed; a message does not become open.
LEMMA KeepsRan ==
  ASSUME WeixinInv, TypeOK', UNCHANGED <<msg, ran>>, store'.default = store.default,
         store.cursor <= store'.cursor, excused \subseteq excused',
         \A r \in pi : \E q \in pi' : q.req = r.req /\ q.rt = r.rt,
         \A i \in Id : Marked(i) => Marked(i)' \/ i <= store'.cursor \/ i .. Messages \subseteq excused'
  PROVE  /\ RanInv' /\ ExecutedOnce'
         /\ \A m \in Id : Open(m)' =>
              /\ Open(m)
              /\ \A i \in store'.cursor + 1 .. m - 1 : msg[i].type = "image" => Marked(i)'
<1>1. TypeOK /\ RanInv /\ OpenInv /\ ExecutedOnce
  BY DEF WeixinInv
<1>2. store.cursor \in 0 .. Messages /\ store'.cursor \in 0 .. Messages
  BY <1>1, StateFields, TypeOK' DEF TypeOK, Store
<1>3. \A i \in Id : Marked(i) => Marked(i)' \/ i <= store'.cursor \/ i \in excused'
  BY DEF Id
<1>4. \A m : StoreTarget(m)' = StoreTarget(m)
  BY DEF StoreTarget
<1>5. RanInv'
  <2>1. ASSUME NEW x \in ran
        PROVE  ~x.again /\ \E r \in pi' : r.req = x.req /\ r.rt = x.session
    <3>1. ~x.again /\ \E r \in pi : r.req = x.req /\ r.rt = x.session
      BY <1>1 DEF RanInv
    <3>. QED
      BY <3>1
  <2>2. ASSUME NEW x \in ran, x.req.type = "one"
        PROVE  \E m \in Id : x.req = One(m) /\ msg[m].type = "text"
    BY <1>1, <2>2 DEF RanInv
  <2>3. ASSUME NEW x \in ran, NEW m \in Range(x.req.ids)
        PROVE  \/ m \in excused' \/ Marked(m)' \/ m <= store'.cursor
               \/ x.req = One(m) /\ x.session = StoreTarget(m)'
    <3>1. m \in Id
      <4>1. x.req.ids \in Seq(Id)
        BY <1>1 DEF TypeOK, Request
      <4>. QED
        BY <4>1, Elements DEF Range
    <3>2. \/ m \in excused \/ Marked(m) \/ m <= store.cursor
          \/ x.req = One(m) /\ x.session = StoreTarget(m)
      BY <1>1, <2>3 DEF RanInv
    <3>. QED
      BY <1>2, <1>3, <1>4, <3>1, <3>2 DEF Id
  <2>. QED
    BY <2>1, <2>2, <2>3 DEF RanInv, One
<1>6. ExecutedOnce'
  BY <1>1 DEF ExecutedOnce
<1>7. ASSUME NEW m \in Id, Open(m)'
      PROVE  /\ Open(m)
             /\ \A i \in store'.cursor + 1 .. m - 1 : msg[i].type = "image" => Marked(i)'
  <2>1. /\ m \notin excused' /\ ~Marked(m)' /\ m > store'.cursor
        /\ \E x \in ran : x.req = One(m)
    BY <1>7 DEF Open, One
  <2>2. Open(m)
    BY <1>2, <1>3, <2>1 DEF Open, Id
  <2>3. ASSUME NEW i \in store'.cursor + 1 .. m - 1, msg[i].type = "image"
        PROVE  Marked(i)'
    <3>1. i \in Id /\ i \in store.cursor + 1 .. m - 1 /\ m \in i .. Messages /\ ~(i <= store'.cursor)
      BY <1>2 DEF Id
    <3>2. Marked(i)
      BY <1>1, <2>2, <2>3, <3>1 DEF OpenInv
    <3>. QED
      BY <2>1, <3>1, <3>2
  <2>. QED
    BY <2>2, <2>3
<1>. QED
  BY <1>5, <1>6, <1>7

\* What the loop has passed stays settled while it stands, goes on by one message, or returns.
LEMMA KeepsPassed ==
  ASSUME WeixinInv, TypeOK', UNCHANGED msg, excused \subseteq excused',
         NEW n, n = loop.next,
         store'.cursor = store.cursor, store'.default = store.default,
         loop'.upto = loop.upto, loop'.default = loop.default,
         \A m \in Id : Settled(m) => Settled(m)',
         dropped \subseteq dropped',
         \A i \in Id : Marked(i) => Marked(i)' \/ i <= store'.cursor \/ i .. Messages \subseteq excused',
         \/ loop'.next = n
         \/ /\ loop'.next = n + 1 /\ n \in Id
            /\ Settled(n)' \/ n \in dropped'
            /\ msg[n].type = "image" => Marked(n)'
  PROVE  PassedInv'
<1>1. TypeOK /\ PassedInv
  BY DEF WeixinInv
<1>2. /\ loop.next \in 1 .. Messages + 1 /\ loop'.next \in 1 .. Messages + 1
      /\ store.cursor \in 0 .. Messages /\ loop.upto \in 0 .. Messages /\ Messages \in Nat
  BY <1>1, StateFields DEF TypeOK, Loop
<1>3. ASSUME NEW m \in 1 .. loop'.next - 1
      PROVE  Settled(m)' \/ m \in dropped'
  <2>1. m \in Id /\ (m \in 1 .. n - 1 \/ (m = n /\ loop'.next = n + 1))
    BY <1>2 DEF Id
  <2>2. CASE m \in 1 .. n - 1
    BY <1>1, <2>1, <2>2 DEF PassedInv
  <2>3. CASE m = n /\ loop'.next = n + 1
    BY <1>2, <2>3
  <2>. QED
    BY <2>1, <2>2, <2>3
<1>4. ASSUME NEW m \in store'.cursor + 1 .. loop'.next - 1, msg[m].type = "image"
      PROVE  Marked(m)' \/ m .. Messages \subseteq excused'
  <2>1. /\ m \in Id /\ ~(m <= store'.cursor)
        /\ m \in store.cursor + 1 .. n - 1 \/ (m = n /\ loop'.next = n + 1)
    BY <1>2 DEF Id
  <2>2. CASE m \in store.cursor + 1 .. n - 1
    BY <1>1, <1>4, <2>1, <2>2 DEF PassedInv
  <2>3. CASE m = n /\ loop'.next = n + 1
    BY <1>2, <1>4, <2>3
  <2>. QED
    BY <2>1, <2>2, <2>3
<1>5. loop'.default = store'.default \/ loop'.next .. loop'.upto \subseteq excused'
  <2>1. loop'.next .. loop'.upto \subseteq loop.next .. loop.upto
    BY <1>2
  <2>. QED
    BY <1>1, <2>1 DEF PassedInv
<1>. QED
  BY <1>3, <1>4, <1>5 DEF PassedInv

\* A step that leaves the file, the ledgers and what was lost alone: what it does to the loop
\* decides.
LEMMA LoopMoves ==
  ASSUME WeixinInv, TypeOK', UNCHANGED <<msg, store, pi, ran, ignored, excused>>,
         answered \subseteq answered', dropped \subseteq dropped', JobInv', LoopInv', PassedInv',
         \A m \in Id : Open(m) => loop'.upto = 0 \/ loop'.next <= m
  PROVE  WeixinInv'
<1>1. \A m : Marked(m)' = Marked(m) /\ (Settled(m) => Settled(m)') /\ Open(m)' = Open(m)
  BY DEF Marked, Settled, Open, One
<1>2. RanInv' /\ ExecutedOnce'
  BY <1>1, KeepsRan, StateFields DEF WeixinInv
<1>3. MarkedIsSettled'
  <2>1. MarkedIsSettled
    BY DEF WeixinInv
  <2>. QED
    BY <1>1, <2>1 DEF MarkedIsSettled
<1>4. OpenInv'
  BY <1>1 DEF WeixinInv, OpenInv
<1>5. BatchInv'
  BY <1>1 DEF WeixinInv, BatchInv, Apart
<1>. QED
  BY <1>2, <1>3, <1>4, <1>5 DEF WeixinInv

\* The loop begins the iteration again, or ends.
LEMMA Restarts ==
  ASSUME WeixinInv, TypeOK', UNCHANGED <<msg, store, pi, ran, ignored, excused>>,
         answered \subseteq answered', dropped \subseteq dropped',
         \/ loop' = Off
         \/ loop' = [Off EXCEPT !.pc = "begin"] /\ store.auth
         \/ loop' = [Off EXCEPT !.pc = "fetch"] /\ store.auth /\ store.pending.tag # "Dispatching"
  PROVE  WeixinInv'
<1>1. /\ loop'.pc \in {"off", "begin", "fetch"} /\ loop'.next = 1 /\ loop'.upto = 0
      /\ loop'.pc # "off" => store.auth
      /\ loop'.pc = "fetch" => store.pending.tag # "Dispatching"
  BY InitialRecords
<1>2. TypeOK /\ LoopInv
  BY DEF WeixinInv
<1>3. JobInv'
  BY <1>1 DEF JobInv
<1>4. LoopInv'
  BY <1>1, <1>2 DEF LoopInv
<1>5. PassedInv'
  BY <1>1, <1>2, StateFields DEF PassedInv
<1>. QED
  BY <1>1, <1>3, <1>4, <1>5, LoopMoves

\* The next message is marked once it is settled; the loop stays at it or goes on.
LEMMA MarksNext ==
  ASSUME WeixinInv, TypeOK', UNCHANGED <<msg, pi, ran>>,
         NEW n \in Id, n = loop.next, loop.next <= loop.upto, Excuse(n),
         store'.cursor = store.cursor, store'.default = store.default,
         store'.processed = WithProcessed(store, n).processed,
         Range(store.pending.ids) \subseteq Range(store'.pending.ids),
         answered \subseteq answered', ignored \subseteq ignored', dropped \subseteq dropped',
         Settled(n)', loop'.next \in {n, n + 1},
         loop'.upto = loop.upto, loop'.default = loop.default
  PROVE  /\ RanInv' /\ ExecutedOnce' /\ PassedInv' /\ MarkedIsSettled'
         /\ \A m \in Id : Open(m)' =>
              /\ Open(m) /\ loop'.next <= m
              /\ \A i \in store'.cursor + 1 .. m - 1 : msg[i].type = "image" => Marked(i)'
<1>1. TypeOK /\ MarkedIsSettled /\ OpenInv
  BY DEF WeixinInv
<1>2. /\ excused \subseteq excused' /\ Marked(n)'
      /\ \A i \in Id : Marked(i)' => Marked(i) \/ i = n
      /\ \A i \in Id : Marked(i) => Marked(i)' \/ i <= store'.cursor \/ i .. Messages \subseteq excused'
  BY <1>1, MarkKeeps
<1>3. \A m : Settled(m) => Settled(m)'
  BY DEF Settled
<1>4. store.cursor <= store'.cursor /\ n \in Nat /\ loop.upto # 0 /\ store.cursor \in 0 .. Messages
  BY <1>1, StateFields DEF Id
<1>5. /\ RanInv' /\ ExecutedOnce'
      /\ \A m \in Id : Open(m)' =>
           /\ Open(m)
           /\ \A i \in store'.cursor + 1 .. m - 1 : msg[i].type = "image" => Marked(i)'
  BY <1>2, <1>4, KeepsRan
<1>6. PassedInv'
  BY <1>2, <1>3, KeepsPassed
<1>7. MarkedIsSettled'
  <2>1. \A m \in Range(store'.processed) : m \in Id /\ Marked(m)'
    <3>1. store'.processed \in Seq(Id)
      BY DEF TypeOK, Store
    <3>. QED
      BY <3>1, Elements DEF Marked
  <2>2. \A m \in Range(store'.processed) : Settled(m)'
    BY <1>1, <1>2, <1>3, <2>1 DEF MarkedIsSettled, Marked
  <2>3. \A m \in 1 .. store'.cursor : Settled(m)' \/ m \in dropped'
    BY <1>1, <1>3 DEF MarkedIsSettled
  <2>. QED
    BY <2>2, <2>3 DEF MarkedIsSettled
<1>8. ASSUME NEW m \in Id, Open(m)'
      PROVE  loop'.next <= m
  <2>1. Open(m)
    BY <1>5, <1>8
  <2>2. loop.next <= m
    BY <1>1, <1>4, <2>1 DEF OpenInv
  <2>3. m # n
    BY <1>2, <1>8 DEF Open
  <2>. QED
    BY <1>4, <2>2, <2>3 DEF Id
<1>. QED
  BY <1>5, <1>6, <1>7, <1>8

\* A batch that stays as it is, or whose dispatch begins.
LEMMA KeepsBatch ==
  ASSUME WeixinInv, UNCHANGED ran, excused \subseteq excused', TypeOK',
         store.cursor <= store'.cursor,
         store'.pending.ids = store.pending.ids, store'.pending.session = store.pending.session,
         store.pending.tag = "Dispatching" => store'.pending.tag = "Dispatching",
         \A i \in Id : Marked(i) => Marked(i)' \/ i <= store'.cursor \/ i .. Messages \subseteq excused'
  PROVE  BatchInv'
<1>1. TypeOK /\ BatchInv
  BY DEF WeixinInv
<1>2. ASSUME NEW m \in Range(store.pending.ids)
      PROVE  m \in excused' \/ Marked(m)' \/ m <= store'.cursor
  <2>1. m \in Id
    <3>1. 1 \in Id /\ store.pending.ids \in Seq(Id)
      BY <1>1, StateFields DEF Id
    <3>. QED
      BY <3>1, Elements
  <2>2. m \in excused \/ Marked(m) \/ m <= store.cursor
    BY <1>1 DEF BatchInv
  <2>3. store.cursor \in Nat /\ store'.cursor \in Nat /\ m \in m .. Messages
    BY <1>1, <2>1, StateFields DEF TypeOK, Store, Id
  <2>. QED
    BY <2>1, <2>2, <2>3 DEF Id
<1>3. ASSUME NEW x \in ran
      PROVE  \/ Apart(store.pending.ids, x)'
             \/ /\ store'.pending.tag = "Dispatching" /\ x.session = store'.pending.session
                /\ x.req = [type |-> "batch", ids |-> store'.pending.ids]
  <2>1. \/ Apart(store.pending.ids, x)
        \/ /\ store.pending.tag = "Dispatching" /\ x.session = store.pending.session
           /\ x.req = [type |-> "batch", ids |-> store.pending.ids]
    BY <1>1 DEF BatchInv
  <2>. QED
    BY <2>1 DEF Apart
<1>. QED
  BY <1>2, <1>3 DEF BatchInv

\* A message of the batch that Pi has executed comes again only as a text on its own.
LEMMA NextIsNew ==
  ASSUME WeixinInv, NEW n \in Id, n = loop.next, loop.next <= loop.upto, ~Marked(n),
         NEW x \in ran, n \in Range(x.req.ids), n \notin excused
  PROVE  x.req = One(n) /\ Open(n) /\ msg[n].type = "text" /\ x.session = StoreTarget(n)
<1>1. TypeOK /\ RanInv /\ LoopInv
  BY DEF WeixinInv
<1>2. n > store.cursor
  BY <1>1, StateFields DEF LoopInv, Id
<1>3. x.req = One(n) /\ x.session = StoreTarget(n)
  BY <1>1, <1>2, StateFields DEF RanInv, Id
<1>4. PICK m \in Id : x.req = One(m) /\ msg[m].type = "text"
  BY <1>1, <1>3 DEF RanInv, One
<1>5. m = n
  BY <1>3, <1>4, Singles DEF One
<1>. QED
  BY <1>2, <1>3, <1>4, <1>5 DEF Open

\* A message that joins the batch: no image, and no text after images, is executed already.
LEMMA JoinsBatch ==
  ASSUME WeixinInv, TypeOK', UNCHANGED ran, NEW n \in Id, n = loop.next, loop.next <= loop.upto,
         ~Marked(n), msg[n].type # "text" \/ store.pending.tag = "Collecting", Excuse(n),
         store.pending.tag # "Dispatching", store'.cursor = store.cursor,
         store'.processed = WithProcessed(store, n).processed,
         Range(store'.pending.ids) = Range(store.pending.ids) \cup {n}
  PROVE  BatchInv'
<1>1. TypeOK /\ BatchInv /\ OpenInv
  BY DEF WeixinInv
<1>2. /\ excused \subseteq excused' /\ Marked(n)'
      /\ \A i \in Id : Marked(i) => Marked(i)' \/ i <= store'.cursor \/ i .. Messages \subseteq excused'
  BY <1>1, MarkKeeps
<1>3. ASSUME NEW m \in Range(store'.pending.ids)
      PROVE  m \in excused' \/ Marked(m)' \/ m <= store'.cursor
  <2>1. CASE m = n
    BY <1>2, <2>1
  <2>2. CASE m \in Range(store.pending.ids)
    <3>1. m \in Id
      BY <1>1, <2>2, StateFields, Elements
    <3>2. m \in excused \/ Marked(m) \/ m <= store.cursor
      BY <1>1, <2>2 DEF BatchInv
    <3>3. m \in m .. Messages
      BY <3>1 DEF Id
    <3>. QED
      BY <1>2, <3>1, <3>2, <3>3
  <2>. QED
    BY <2>1, <2>2
<1>4. ASSUME NEW x \in ran
      PROVE  Apart(store.pending.ids, x)'
  <2>1. Range(store.pending.ids) \cap Range(x.req.ids) \subseteq excused
    BY <1>1 DEF BatchInv, Apart
  <2>2. n \in Range(x.req.ids) => n \in excused
    BY <1>1, NextIsNew DEF OpenInv
  <2>. QED
    BY <1>2, <2>1, <2>2 DEF Apart
<1>. QED
  BY <1>3, <1>4 DEF BatchInv

-----------------------------------------------------------------------------
(* The steps *)

\* What goes wrong is counted up to its bound.
LEMMA BoundedTyped ==
  ASSUME TypeOK,
         \/ Bounded("failures", MaxFailures) \/ Bounded("logins", MaxLogins)
         \/ Bounded("switches", MaxSwitches) \/ UNCHANGED bounds
  PROVE  bounds' \in [failures : 0 .. MaxFailures, logins : 0 .. MaxLogins,
                      switches : 0 .. MaxSwitches]
<1>1. bounds \in [failures : 0 .. MaxFailures, logins : 0 .. MaxLogins,
                  switches : 0 .. MaxSwitches]
  BY DEF TypeOK
<1>2. CASE Bounded("failures", MaxFailures)
  <2>1. bounds.failures < MaxFailures /\ bounds' = [bounds EXCEPT !.failures = @ + 1]
    BY <1>2 DEF Bounded
  <2>2. bounds.failures + 1 \in 0 .. MaxFailures
    BY <1>1, <2>1
  <2>. QED
    BY <1>1, <2>1, <2>2
<1>3. CASE Bounded("logins", MaxLogins)
  <2>1. bounds.logins < MaxLogins /\ bounds' = [bounds EXCEPT !.logins = @ + 1]
    BY <1>3 DEF Bounded
  <2>2. bounds.logins + 1 \in 0 .. MaxLogins
    BY <1>1, <2>1
  <2>. QED
    BY <1>1, <2>1, <2>2
<1>4. CASE Bounded("switches", MaxSwitches)
  <2>1. bounds.switches < MaxSwitches /\ bounds' = [bounds EXCEPT !.switches = @ + 1]
    BY <1>4 DEF Bounded
  <2>2. bounds.switches + 1 \in 0 .. MaxSwitches
    BY <1>1, <2>1
  <2>. QED
    BY <1>1, <2>1, <2>2
<1>5. CASE UNCHANGED bounds
  BY <1>1, <1>5
<1>. QED
  BY <1>2, <1>3, <1>4, <1>5

\* The loop starts with the credentials.
LEMMA StartKeeps ==
  ASSUME WeixinInv, Start
  PROVE  WeixinInv'
<1>1. TypeOK'
  BY InitialRecords DEF WeixinInv, Start, TypeOK, outside, server, history
<1>. QED
  BY <1>1, Restarts DEF Start, outside, server, history

\* A failed call, a stop or a crash: the file and the ledgers stay as they are.
LEMMA FailKeeps ==
  ASSUME WeixinInv, Fail \/ Stop
  PROVE  WeixinInv'
<1>0. TypeOK /\ LoopInv
  BY DEF WeixinInv
<1>1. TypeOK'
  <2>1. loop' \in Loop
    BY InitialRecords DEF Fail, Stop
  <2>2. bounds' \in [failures : 0 .. MaxFailures, logins : 0 .. MaxLogins,
                     switches : 0 .. MaxSwitches]
    BY <1>0, BoundedTyped DEF Fail, Stop
  <2>. QED
    BY <1>0, <2>1, <2>2 DEF Fail, Stop, TypeOK, outside, server, history
<1>2. store.auth
  BY <1>0, StateFields DEF Fail, Stop, LoopInv
<1>. QED
  BY <1>1, <1>2, Restarts DEF Fail, Stop, outside, server, history

\* The batch that expires is dispatched at once.
LEMMA BeginFinishKeeps ==
  ASSUME WeixinInv, Begin \/ Finish
  PROVE  WeixinInv'
<1>0. TypeOK /\ JobInv /\ LoopInv /\ PassedInv /\ MarkedIsSettled /\ OpenInv
  BY DEF WeixinInv
<1>1. /\ store' = Expired(store)
      /\ UNCHANGED <<msg, sent, pi, running, ran, answered, ignored, dropped, excused, bounds>>
  BY DEF Begin, Finish, outside, server, history
<1>2. /\ store' \in Store /\ store'.auth = store.auth /\ store'.default = store.default
      /\ store'.cursor = store.cursor /\ store'.processed = store.processed
      /\ store'.pending.ids = store.pending.ids
      /\ store'.pending.session = store.pending.session
      /\ \/ store'.pending.tag = store.pending.tag
         \/ store'.pending.tag = "Dispatching" /\ store.pending.tag = "Collecting"
  BY <1>0, <1>1, ExpiredFields
<1>3. /\ loop' \in Loop /\ loop'.next = loop.next /\ loop'.upto = loop.upto
      /\ loop'.default \in {loop.default, store.default}
      /\ store'.pending.tag = "Dispatching" =>
           /\ loop'.pc = "dispatch" /\ loop'.job.stage = "ask"
           /\ loop'.job.back \in {"message", "cursor"}
           /\ loop'.job.back = "cursor" => loop.next > loop.upto
           /\ loop'.job.req.type = "batch" /\ loop'.job.req.ids = store'.pending.ids
           /\ loop'.job.session = store'.pending.session
      /\ store'.pending.tag # "Dispatching" =>
           /\ loop'.pc \in {"message", "cursor"} /\ (loop'.pc = "cursor" => loop.next > loop.upto)
  <2>1. CASE Begin
    <3>. DEFINE l == [loop EXCEPT !.default = store.default]
    <3>1. l \in Loop /\ l.next = loop.next /\ l.upto = loop.upto /\ l.default = store.default
      BY <1>0, StateFields DEF TypeOK, Loop
    <3>2. loop' = Resume(l, store', "message")
      BY <2>1 DEF Begin
    <3>. HIDE DEF l
    <3>. QED
      BY <1>2, <3>1, <3>2, ResumeFields
  <2>2. CASE Finish
    <3>1. loop' = Resume(loop, store', "cursor") /\ loop.next > loop.upto /\ loop \in Loop
      BY <1>0, <2>2 DEF Finish, TypeOK
    <3>. QED
      BY <1>2, <3>1, ResumeFields
  <2>. QED
    BY <2>1, <2>2
<1>4. TypeOK'
  BY <1>0, <1>1, <1>2, <1>3 DEF TypeOK
<1>5. \A m : Marked(m)' = Marked(m) /\ Settled(m)' = Settled(m)
  BY <1>1, <1>2 DEF Marked, Settled
<1>6. store.auth
  BY <1>0 DEF LoopInv, Begin, Finish
<1>7. JobInv'
  BY <1>3 DEF JobInv
<1>8. LoopInv'
  BY <1>0, <1>2, <1>3, <1>6, StateFields DEF LoopInv
<1>9. PassedInv'
  BY <1>0, <1>1, <1>2, <1>3, <1>5 DEF PassedInv
<1>10. MarkedIsSettled'
  BY <1>0, <1>1, <1>2, <1>5 DEF MarkedIsSettled
<1>11. store.cursor <= store'.cursor /\ excused' = excused
  BY <1>0, <1>1, <1>2, StateFields
<1>12. /\ RanInv' /\ ExecutedOnce'
       /\ \A m \in Id : Open(m)' =>
            /\ Open(m)
            /\ \A i \in store'.cursor + 1 .. m - 1 : msg[i].type = "image" => Marked(i)'
  BY <1>1, <1>2, <1>4, <1>5, <1>11, KeepsRan
<1>13. OpenInv'
  BY <1>0, <1>1, <1>2, <1>3, <1>12 DEF OpenInv
<1>14. BatchInv'
  BY <1>1, <1>2, <1>4, <1>5, <1>11, KeepsBatch
<1>. QED
  BY <1>4, <1>7, <1>8, <1>9, <1>10, <1>12, <1>13, <1>14 DEF WeixinInv

\* getUpdates goes on after the cursor, before whatever may come again.
LEMMA FetchKeeps ==
  ASSUME WeixinInv, Fetch
  PROVE  WeixinInv'
<1>0. TypeOK /\ LoopInv /\ MarkedIsSettled /\ OpenInv
  BY DEF WeixinInv
<1>1. /\ UNCHANGED <<msg, sent, store, pi, running, ran>>
      /\ UNCHANGED <<answered, ignored, dropped, excused, bounds>> /\ loop.pc = "fetch"
  BY DEF Fetch, outside, server, history
<1>2. store.auth /\ store.pending.tag # "Dispatching"
  BY <1>0, <1>1, StateFields DEF LoopInv
<1>3. CASE loop' = [Off EXCEPT !.pc = "begin"]
  <2>1. TypeOK'
    BY <1>0, <1>1, <1>3, InitialRecords DEF TypeOK
  <2>. QED
    BY <1>1, <1>2, <1>3, <2>1, Restarts
<1>4. ASSUME NEW k \in store.cursor + 1 .. sent,
             loop' = Resume([loop EXCEPT !.default = store.default,
                               !.next = store.cursor + 1, !.upto = k], store, "message")
      PROVE  WeixinInv'
  <2>. DEFINE l == [loop EXCEPT !.default = store.default, !.next = store.cursor + 1, !.upto = k]
  <2>1. /\ store.cursor \in 0 .. Messages /\ sent \in 0 .. Messages /\ store.default \in Sessions
        /\ k \in 0 .. Messages /\ store.cursor + 1 \in 1 .. Messages + 1 /\ k # 0
        /\ store.cursor < k /\ store.cursor < store.cursor + 1 /\ store \in Store /\ loop \in Loop
    <3>1. /\ store.cursor \in 0 .. Messages /\ sent \in 0 .. Messages /\ store.default \in Sessions
          /\ store \in Store /\ loop \in Loop
      BY <1>0, StateFields DEF TypeOK
    <3>. QED
      BY <3>1
  <2>2. l \in Loop /\ l.next = store.cursor + 1 /\ l.upto = k /\ l.default = store.default
    BY <2>1 DEF Loop
  <2>3. loop' = Resume(l, store, "message")
    BY <1>4
  <2>. HIDE DEF l
  <2>4. /\ loop' \in Loop /\ loop'.next = store.cursor + 1 /\ loop'.upto = k
        /\ loop'.default = store.default /\ loop'.pc = "message"
    BY <1>2, <2>1, <2>2, <2>3, ResumeFields
  <2>5. TypeOK'
    BY <1>0, <1>1, <2>4 DEF TypeOK
  <2>6. JobInv'
    BY <2>4 DEF JobInv
  <2>7. LoopInv'
    BY <1>0, <1>1, <1>2, <2>1, <2>4 DEF LoopInv
  <2>8. PassedInv'
    <3>1. loop'.next - 1 = store.cursor /\ store.cursor + 1 .. store.cursor = {}
      BY <2>1, <2>4
    <3>2. \A m : Settled(m)' = Settled(m)
      BY <1>1 DEF Settled
    <3>3. \A m \in 1 .. loop'.next - 1 : Settled(m)' \/ m \in dropped'
      <4>. TAKE m \in 1 .. loop'.next - 1
      <4>1. m \in 1 .. store.cursor
        BY <3>1
      <4>. QED
        BY <1>0, <1>1, <3>2, <4>1 DEF MarkedIsSettled
    <3>4. store'.cursor + 1 .. loop'.next - 1 = {} /\ loop'.default = store'.default
      BY <1>1, <2>4, <3>1
    <3>. QED
      BY <3>3, <3>4 DEF PassedInv
  <2>9. \A m \in Id : Open(m) => loop'.next <= m
    BY <2>1, <2>4 DEF Open, Id
  <2>. QED
    BY <1>1, <2>5, <2>6, <2>7, <2>8, <2>9, LoopMoves
<1>. QED
  BY <1>3, <1>4 DEF Fetch

\* A message that is marked is passed.
LEMMA SkipKeeps ==
  ASSUME WeixinInv, Skip
  PROVE  WeixinInv'
<1>0. TypeOK /\ LoopInv /\ MarkedIsSettled /\ OpenInv
  BY DEF WeixinInv
<1>1. /\ UNCHANGED <<msg, sent, store, pi, running, ran>>
      /\ UNCHANGED <<answered, ignored, dropped, excused, bounds>>
      /\ loop.pc = "message" /\ loop.next <= loop.upto
      /\ Marked(loop.next) /\ loop' = Advanced
  BY DEF Skip, outside, server, history, Marked
<1>2. /\ loop' \in Loop /\ loop'.pc = "message" /\ loop'.next = loop.next + 1
      /\ loop'.upto = loop.upto /\ loop'.default = loop.default /\ loop.upto # 0 /\ loop.next \in Id
  BY <1>0, <1>1, AdvancedFields
<1>3. TypeOK'
  BY <1>0, <1>1, <1>2 DEF TypeOK
<1>4. JobInv'
  BY <1>2 DEF JobInv
<1>5. LoopInv'
  BY <1>0, <1>1, <1>2, StateFields DEF LoopInv, Id
<1>6. PICK n \in Id : n = loop.next
  BY <1>2
<1>7. \A m : Settled(m)' = Settled(m) /\ Marked(m)' = Marked(m)
  BY <1>1 DEF Settled, Marked
<1>8. Settled(n) /\ Marked(n)
  BY <1>0, <1>1, <1>6 DEF MarkedIsSettled, Marked
<1>9. PassedInv'
  BY <1>1, <1>2, <1>3, <1>6, <1>7, <1>8, KeepsPassed
<1>10. ASSUME NEW m \in Id, Open(m)
       PROVE  loop'.next <= m
  <2>1. loop.next <= m /\ m # n
    BY <1>0, <1>2, <1>8, <1>10 DEF OpenInv, Open
  <2>. QED
    BY <1>2, <1>6, <2>1 DEF Id
<1>. QED
  BY <1>1, <1>3, <1>4, <1>5, <1>9, <1>10, LoopMoves

\* A message that needs no dispatch is marked.
LEMMA IgnoreKeeps ==
  ASSUME WeixinInv, NEW n \in Id, Ignore(n) \/ Notified(n)
  PROVE  WeixinInv'
<1>0. TypeOK /\ LoopInv /\ OpenInv
  BY DEF WeixinInv
<1>1. /\ UNCHANGED <<msg, sent, pi, running, ran, answered, dropped, bounds>>
      /\ loop.pc = "message" /\ n = loop.next /\ loop.next <= loop.upto /\ loop' = Advanced
      /\ store' = WithProcessed(store, n) /\ Excuse(n)
      /\ ignored \subseteq ignored' /\ ignored' \subseteq ignored \cup {n}
      /\ n \in answered \cup ignored'
  BY DEF Ignore, Notified, Handling, outside, server
<1>2. /\ loop' \in Loop /\ loop'.pc = "message" /\ loop'.next = loop.next + 1
      /\ loop'.upto = loop.upto /\ loop'.default = loop.default /\ loop.upto # 0
  BY <1>0, <1>1, AdvancedFields
<1>3. /\ store' \in Store /\ Len(store'.processed) <= ProcessedLimit
      /\ store'.auth = store.auth /\ store'.default = store.default
      /\ store'.cursor = store.cursor /\ store'.pending = store.pending
      /\ store'.processed = WithProcessed(store, n).processed
  BY <1>0, <1>1, WithProcessedFields
<1>4. TypeOK'
  <2>1. excused' \subseteq Id
    BY <1>0, <1>1, ExcuseTyped
  <2>. QED
    BY <1>0, <1>1, <1>2, <1>3, <2>1 DEF TypeOK
<1>5. JobInv'
  BY <1>2 DEF JobInv
<1>6. LoopInv'
  BY <1>0, <1>1, <1>2, <1>3, StateFields DEF LoopInv
<1>7. Settled(n)'
  BY <1>1 DEF Settled
<1>8. /\ RanInv' /\ ExecutedOnce' /\ PassedInv' /\ MarkedIsSettled'
      /\ \A m \in Id : Open(m)' =>
           /\ Open(m) /\ loop'.next <= m
           /\ \A i \in store'.cursor + 1 .. m - 1 : msg[i].type = "image" => Marked(i)'
  BY <1>1, <1>2, <1>3, <1>4, <1>7, MarksNext
<1>9. OpenInv'
  BY <1>0, <1>1, <1>2, <1>3, <1>8 DEF OpenInv
<1>10. BatchInv'
  <2>1. /\ excused \subseteq excused'
        /\ \A i \in Id : Marked(i) => Marked(i)' \/ i <= store'.cursor \/ i .. Messages \subseteq excused'
    BY <1>0, <1>1, <1>3, MarkKeeps
  <2>2. store.cursor <= store'.cursor
    BY <1>0, <1>3, StateFields
  <2>. QED
    BY <1>1, <1>3, <1>4, <2>1, <2>2, KeepsBatch
<1>. QED
  BY <1>4, <1>5, <1>6, <1>8, <1>9, <1>10 DEF WeixinInv

\* A reply without a dispatch settles a message before it is marked.
LEMMA NotifyKeeps ==
  ASSUME WeixinInv, NEW n \in Id, Notify(n)
  PROVE  WeixinInv'
<1>0. TypeOK /\ JobInv /\ LoopInv /\ PassedInv /\ OpenInv
  BY DEF WeixinInv
<1>1. /\ UNCHANGED <<msg, sent, store, loop, pi, running, ran, ignored, dropped, excused, bounds>>
      /\ answered' = answered \cup {n} /\ loop.pc = "message"
  BY DEF Notify, Handling, outside, server
<1>2. TypeOK'
  BY <1>0, <1>1 DEF TypeOK
<1>3. JobInv' /\ LoopInv'
  BY <1>0, <1>1 DEF JobInv, LoopInv
<1>4. PassedInv'
  <2>1. \A m : (Settled(m) => Settled(m)') /\ Marked(m)' = Marked(m)
    BY <1>1 DEF Settled, Marked
  <2>. QED
    BY <1>0, <1>1, <2>1 DEF PassedInv
<1>5. \A m \in Id : Open(m) => loop'.upto = 0 \/ loop'.next <= m
  BY <1>0, <1>1 DEF OpenInv
<1>. QED
  BY <1>1, <1>2, <1>3, <1>4, <1>5, LoopMoves

\* An image joins the batch, unless that is another session's.
LEMMA CollectKeeps ==
  ASSUME WeixinInv, NEW n \in Id, Collect(n)
  PROVE  WeixinInv'
<1>0. TypeOK /\ LoopInv /\ OpenInv
  BY DEF WeixinInv
<1>1. /\ UNCHANGED <<msg, sent, pi, running, ran, answered, ignored, dropped, bounds>>
      /\ loop.pc = "message" /\ n = loop.next /\ loop.next <= loop.upto
      /\ ~Marked(n) /\ msg[n].type = "image"
  BY DEF Collect, Handling, outside, server, Marked
<1>2. store.auth
  BY <1>0, <1>1, StateFields DEF LoopInv
<1>3. CASE ~Compatible(store.pending, Target(n))
  <2>1. loop' = [Off EXCEPT !.pc = "begin"] /\ UNCHANGED <<store, excused>>
    BY <1>3 DEF Collect
  <2>2. TypeOK'
    BY <1>0, <1>1, <2>1, InitialRecords DEF TypeOK
  <2>. QED
    BY <1>1, <1>2, <2>1, <2>2, Restarts
<1>4. CASE Compatible(store.pending, Target(n))
  <2>1. /\ store' = [WithProcessed(store, n) EXCEPT !.pending =
             [tag |-> "Collecting", session |-> Target(n), due |-> FALSE,
              ids |-> Joined(store.pending, n)]]
        /\ Excuse(n) /\ loop' = Advanced
    BY <1>4 DEF Collect
  <2>2. /\ store' \in Store /\ store'.auth = store.auth /\ store'.default = store.default
        /\ store'.cursor = store.cursor /\ store'.processed = WithProcessed(store, n).processed
        /\ Len(store'.processed) <= ProcessedLimit
        /\ store'.pending.tag = "Collecting"
        /\ Range(store'.pending.ids) = Range(store.pending.ids) \cup {n}
    BY <1>0, <2>1, CollectedFields
  <2>3. /\ loop' \in Loop /\ loop'.pc = "message" /\ loop'.next = loop.next + 1
        /\ loop'.upto = loop.upto /\ loop'.default = loop.default /\ loop.upto # 0
    BY <1>0, <1>1, <2>1, AdvancedFields
  <2>4. TypeOK'
    <3>1. excused' \subseteq Id
      BY <1>0, <2>1, ExcuseTyped
    <3>. QED
      BY <1>0, <1>1, <2>2, <2>3, <3>1 DEF TypeOK
  <2>5. JobInv'
    BY <2>3 DEF JobInv
  <2>6. LoopInv'
    BY <1>0, <1>1, <1>2, <2>2, <2>3, StateFields DEF LoopInv
  <2>7. Settled(n)'
    BY <2>2 DEF Settled
  <2>8. /\ RanInv' /\ ExecutedOnce' /\ PassedInv' /\ MarkedIsSettled'
        /\ \A m \in Id : Open(m)' =>
             /\ Open(m) /\ loop'.next <= m
             /\ \A i \in store'.cursor + 1 .. m - 1 : msg[i].type = "image" => Marked(i)'
    BY <1>1, <2>1, <2>2, <2>3, <2>4, <2>7, MarksNext
  <2>9. \A m \in Id : ~Open(m)'
    <3>. SUFFICES ASSUME NEW m \in Id, Open(m)' PROVE FALSE
      OBVIOUS
    <3>1. Open(m) /\ loop.next + 1 <= m
      BY <2>3, <2>8
    <3>2. n \in store.cursor + 1 .. m - 1
      BY <1>0, <1>1, <2>3, <3>1, StateFields DEF LoopInv, Id
    <3>. QED
      BY <1>0, <1>1, <3>1, <3>2 DEF OpenInv
  <2>10. OpenInv'
    BY <2>9 DEF OpenInv
  <2>11. BatchInv'
    <3>1. store.pending.tag # "Dispatching" /\ msg[n].type # "text"
      BY <1>1, <1>4 DEF Compatible
    <3>. QED
      BY <1>1, <2>1, <2>2, <2>4, <3>1, JoinsBatch
  <2>. QED
    BY <2>4, <2>5, <2>6, <2>8, <2>10, <2>11 DEF WeixinInv
<1>. QED
  BY <1>3, <1>4

\* A message with images, or a text after some, has the batch dispatched, unless that is
\* another session's: then it is passed over.
LEMMA DispatchImagesKeeps ==
  ASSUME WeixinInv, NEW n \in Id, DispatchImages(n)
  PROVE  WeixinInv'
<1>0. TypeOK /\ LoopInv /\ OpenInv
  BY DEF WeixinInv
<1>1. /\ UNCHANGED <<msg, sent, pi, running, ran, answered, ignored, bounds>>
      /\ loop.pc = "message" /\ n = loop.next /\ loop.next <= loop.upto /\ ~Marked(n)
      /\ msg[n].type # "image" /\ (msg[n].type # "text" \/ store.pending.tag = "Collecting")
  BY DEF DispatchImages, Handling, outside, server, Marked
<1>2. store.auth /\ loop.upto # 0 /\ store.pending.tag # "Dispatching"
  BY <1>0, <1>1, StateFields DEF LoopInv
<1>3. msg[n].type # "image"
  BY DEF DispatchImages
<1>4. CASE ~Compatible(store.pending, Target(n))
  <2>1. loop' = Advanced /\ dropped' = dropped \cup {n} /\ UNCHANGED <<store, excused>>
    BY <1>4 DEF DispatchImages
  <2>2. /\ loop' \in Loop /\ loop'.pc = "message" /\ loop'.next = loop.next + 1
        /\ loop'.upto = loop.upto /\ loop'.default = loop.default /\ loop.upto # 0
    BY <1>0, <1>1, <2>1, AdvancedFields
  <2>3. TypeOK'
    BY <1>0, <1>1, <2>1, <2>2 DEF TypeOK
  <2>4. JobInv'
    BY <2>2 DEF JobInv
  <2>5. LoopInv'
    BY <1>0, <1>1, <2>1, <2>2, StateFields DEF LoopInv
  <2>6. PassedInv'
    <3>1. \A m : Settled(m)' = Settled(m) /\ Marked(m)' = Marked(m)
      BY <1>1, <2>1 DEF Settled, Marked
    <3>. QED
      BY <1>1, <1>3, <2>1, <2>2, <2>3, <3>1, KeepsPassed
  <2>7. store.pending.tag = "Collecting"
    BY <1>2, <1>4, StateFields, <1>0 DEF Compatible
  <2>8. \A m \in Id : ~Open(m)
    BY <1>0, <2>7 DEF OpenInv
  <2>. QED
    BY <1>1, <2>1, <2>3, <2>4, <2>5, <2>6, <2>8, LoopMoves
<1>5. CASE Compatible(store.pending, Target(n))
  <2>1. /\ store' = [WithProcessed(store, n) EXCEPT !.pending =
             [tag |-> "Dispatching", session |-> Target(n), due |-> FALSE,
              ids |-> Joined(store.pending, n)]]
        /\ Excuse(n) /\ UNCHANGED dropped
        /\ loop' = [loop EXCEPT !.pc = "dispatch", !.job = BatchJob(store'.pending, "next")]
    BY <1>5 DEF DispatchImages
  <2>2. /\ store' \in Store /\ store'.auth = store.auth /\ store'.default = store.default
        /\ store'.cursor = store.cursor /\ store'.processed = WithProcessed(store, n).processed
        /\ Len(store'.processed) <= ProcessedLimit
        /\ store'.pending \in Batch /\ store'.pending.tag = "Dispatching"
        /\ Range(store'.pending.ids) = Range(store.pending.ids) \cup {n}
    BY <1>0, <2>1, CollectedFields
  <2>3. /\ loop' \in Loop /\ loop'.pc = "dispatch" /\ loop'.next = loop.next
        /\ loop'.upto = loop.upto /\ loop'.default = loop.default
        /\ loop'.job.req.type = "batch" /\ loop'.job.req.ids = store'.pending.ids
        /\ loop'.job.session = store'.pending.session /\ loop'.job.back = "next"
        /\ loop'.job.stage = "ask"
    <3>. DEFINE j == BatchJob(store'.pending, "next")
    <3>1. /\ j \in Job /\ j.session = store'.pending.session /\ j.stage = "ask" /\ j.back = "next"
          /\ j.req.type = "batch" /\ j.req.ids = store'.pending.ids
      BY <2>2 DEF BatchJob, Job, Batch, Request
    <3>2. loop' = [loop EXCEPT !.pc = "dispatch", !.job = j] /\ loop \in Loop
      BY <1>0, <2>1 DEF TypeOK
    <3>. HIDE DEF j
    <3>. QED
      BY <3>1, <3>2 DEF Loop
  <2>4. TypeOK'
    <3>1. excused' \subseteq Id
      BY <1>0, <2>1, ExcuseTyped
    <3>. QED
      BY <1>0, <1>1, <2>1, <2>2, <2>3, <3>1 DEF TypeOK
  <2>5. JobInv'
    <3>1. Marked(n)' /\ n \in Range(loop'.job.req.ids)
      BY <1>0, <2>1, <2>2, <2>3, MarkKeeps
    <3>2. loop'.next \in Range(store'.processed)
      BY <1>1, <2>3, <3>1 DEF Marked
    <3>. QED
      BY <1>1, <1>3, <2>2, <2>3, <3>1, <3>2 DEF JobInv, Marked
  <2>6. LoopInv'
    BY <1>0, <1>1, <1>2, <2>2, <2>3, StateFields DEF LoopInv
  <2>7. Settled(n)'
    BY <2>2 DEF Settled
  <2>8. /\ RanInv' /\ ExecutedOnce' /\ PassedInv' /\ MarkedIsSettled'
        /\ \A m \in Id : Open(m)' =>
             /\ Open(m) /\ loop'.next <= m
             /\ \A i \in store'.cursor + 1 .. m - 1 : msg[i].type = "image" => Marked(i)'
    BY <1>1, <2>1, <2>2, <2>3, <2>4, <2>7, MarksNext
  <2>9. OpenInv'
    BY <1>1, <2>2, <2>8 DEF OpenInv
  <2>10. BatchInv'
    BY <1>1, <1>2, <2>1, <2>2, <2>4, JoinsBatch
  <2>. QED
    BY <2>4, <2>5, <2>6, <2>8, <2>9, <2>10 DEF WeixinInv
<1>. QED
  BY <1>4, <1>5

\* A text on its own is dispatched.
LEMMA DispatchTextKeeps ==
  ASSUME WeixinInv, NEW n \in Id, DispatchText(n)
  PROVE  WeixinInv'
<1>0. TypeOK /\ LoopInv /\ PassedInv /\ OpenInv
  BY DEF WeixinInv
<1>1. /\ UNCHANGED <<msg, sent, store, pi, running, ran>>
      /\ UNCHANGED <<answered, ignored, dropped, excused, bounds>>
      /\ loop.pc = "message" /\ n = loop.next /\ loop.next <= loop.upto /\ ~Marked(n)
      /\ msg[n].type = "text" /\ store.pending.tag # "Collecting"
  BY DEF DispatchText, Handling, outside, server, history, Marked
<1>2. store.pending.tag = "none"
  BY <1>0, <1>1, StateFields DEF LoopInv
<1>3. /\ loop' \in Loop /\ loop'.pc = "dispatch" /\ loop'.next = loop.next
      /\ loop'.upto = loop.upto /\ loop'.default = loop.default
      /\ loop'.job.req.type = "one" /\ loop'.job.req.ids = <<n>>
      /\ loop'.job.session = Target(n) /\ loop'.job.back = "next" /\ loop'.job.stage = "ask"
  <2>. DEFINE j == [req |-> [type |-> "one", ids |-> <<n>>], session |-> Target(n),
                    stage |-> "ask", back |-> "next"]
  <2>1. /\ j \in Job /\ j.req.type = "one" /\ j.req.ids = <<n>>
        /\ j.session = Target(n) /\ j.back = "next" /\ j.stage = "ask"
    BY <1>0, MessageFields, Singles DEF Job, Request
  <2>2. loop' = [loop EXCEPT !.pc = "dispatch", !.job = j] /\ loop \in Loop
    BY <1>0 DEF DispatchText, TypeOK
  <2>. HIDE DEF j
  <2>. QED
    BY <2>1, <2>2 DEF Loop
<1>4. TypeOK'
  BY <1>0, <1>1, <1>3 DEF TypeOK
<1>5. JobInv'
  <2>1. n \in Range(loop'.job.req.ids)
    BY <1>3, Singles
  <2>2. Target(loop.next)' = Target(n)
    BY <1>1, <1>3 DEF Target
  <2>. QED
    BY <1>1, <1>2, <1>3, <2>1 DEF JobInv, Marked, Target
<1>6. LoopInv'
  BY <1>0, <1>1, <1>3, StateFields DEF LoopInv
<1>7. PassedInv'
  <2>1. \A m : Settled(m)' = Settled(m) /\ Marked(m)' = Marked(m)
    BY <1>1 DEF Settled, Marked
  <2>. QED
    BY <1>0, <1>1, <1>3, <2>1 DEF PassedInv
<1>8. \A m \in Id : Open(m) => loop'.upto = 0 \/ loop'.next <= m
  BY <1>0, <1>1, <1>3 DEF OpenInv
<1>. QED
  BY <1>1, <1>4, <1>5, <1>6, <1>7, <1>8, LoopMoves

\* The cursor passes what the loop has gone through.
LEMMA SaveCursorKeeps ==
  ASSUME WeixinInv, SaveCursor
  PROVE  WeixinInv'
<1>0. TypeOK /\ LoopInv /\ PassedInv /\ MarkedIsSettled /\ OpenInv
  BY DEF WeixinInv
<1>1. /\ UNCHANGED <<msg, sent, pi, running, ran>>
      /\ UNCHANGED <<answered, ignored, dropped, excused, bounds>> /\ loop.pc = "cursor"
  BY DEF SaveCursor, outside, server, history
<1>2. store.auth /\ store.pending.tag # "Dispatching" /\ loop.next > loop.upto
  BY <1>0, <1>1, StateFields DEF LoopInv
<1>3. CASE loop' = [Off EXCEPT !.pc = "fetch"] /\ UNCHANGED store
  <2>1. TypeOK'
    BY <1>0, <1>1, <1>3, InitialRecords DEF TypeOK
  <2>. QED
    BY <1>1, <1>2, <1>3, <2>1, Restarts
<1>4. CASE /\ loop.upto # 0 /\ store' = [store EXCEPT !.cursor = loop.upto]
           /\ loop' = [Off EXCEPT !.pc = "begin"]
  <2>1. /\ store' \in Store /\ store'.auth = store.auth /\ store'.default = store.default
        /\ store'.cursor = loop.upto /\ store'.processed = store.processed
        /\ store'.pending = store.pending
    BY <1>0, <1>4, StateFields DEF TypeOK, Store
  <2>2. loop' \in Loop /\ loop'.pc = "begin" /\ loop'.next = 1 /\ loop'.upto = 0
    BY <1>4, InitialRecords
  <2>3. /\ store.cursor <= store'.cursor /\ store'.cursor \in 1 .. Messages
        /\ 1 .. store'.cursor \subseteq 1 .. loop.next - 1
    BY <1>0, <1>2, <1>4, <2>1, StateFields DEF LoopInv
  <2>4. TypeOK'
    BY <1>0, <1>1, <2>1, <2>2 DEF TypeOK
  <2>5. \A m : Marked(m)' = Marked(m) /\ Settled(m)' = Settled(m)
    BY <1>1, <2>1 DEF Marked, Settled
  <2>6. JobInv'
    BY <2>2 DEF JobInv
  <2>7. LoopInv'
    BY <1>0, <1>2, <2>1, <2>2 DEF LoopInv
  <2>8. PassedInv'
    <3>1. 1 .. loop'.next - 1 = {} /\ loop'.next .. loop'.upto = {}
      BY <2>2
    <3>2. store'.cursor + 1 .. loop'.next - 1 = {}
      BY <2>2, <2>3
    <3>. QED
      BY <3>1, <3>2 DEF PassedInv
  <2>9. MarkedIsSettled'
    <3>1. \A m \in 1 .. store'.cursor : Settled(m)' \/ m \in dropped'
      BY <1>0, <1>1, <2>3, <2>5 DEF PassedInv
    <3>. QED
      BY <1>0, <2>1, <2>5, <3>1 DEF MarkedIsSettled
  <2>10. /\ RanInv' /\ ExecutedOnce'
         /\ \A m \in Id : Open(m)' =>
              /\ Open(m)
              /\ \A i \in store'.cursor + 1 .. m - 1 : msg[i].type = "image" => Marked(i)'
    BY <1>1, <2>1, <2>3, <2>4, <2>5, KeepsRan
  <2>11. OpenInv'
    <3>1. \A m \in Id : Open(m)' => store'.pending.tag # "Collecting"
      BY <1>0, <2>1, <2>10 DEF OpenInv
    <3>. QED
      BY <1>1, <2>2, <2>10, <3>1 DEF OpenInv
  <2>12. BatchInv'
    BY <1>1, <2>1, <2>3, <2>4, <2>5, KeepsBatch
  <2>. QED
    BY <2>4, <2>6, <2>7, <2>8, <2>9, <2>10, <2>11, <2>12 DEF WeixinInv
<1>. QED
  BY <1>3, <1>4 DEF SaveCursor

\* A dispatch goes on to its next stage; before its mark the reply has been sent.
LEMMA StageMoves ==
  ASSUME WeixinInv, loop.pc = "dispatch", NEW s \in {"wait", "reply", "mark"}, To(s),
         UNCHANGED <<msg, store, ignored, dropped, excused>>, answered \subseteq answered',
         s = "mark" => Range(loop.job.req.ids) \subseteq answered'
  PROVE  /\ loop' \in Loop /\ loop'.next = loop.next /\ loop'.upto = loop.upto
         /\ JobInv' /\ LoopInv' /\ PassedInv'
<1>0. TypeOK /\ JobInv /\ LoopInv /\ PassedInv
  BY DEF WeixinInv
<1>1. /\ loop' \in Loop /\ loop'.pc = "dispatch" /\ loop'.next = loop.next /\ loop'.upto = loop.upto
      /\ loop'.default = loop.default /\ loop'.job.req = loop.job.req
      /\ loop'.job.session = loop.job.session /\ loop'.job.back = loop.job.back
      /\ loop'.job.stage = s
  BY <1>0, StageFields
<1>2. LoopInv'
  BY <1>0, <1>1 DEF LoopInv
<1>3. PassedInv'
  <2>1. \A m : (Settled(m) => Settled(m)') /\ Marked(m)' = Marked(m)
    BY <1>1 DEF Settled, Marked
  <2>. QED
    BY <1>0, <1>1, <2>1 DEF PassedInv
<1>4. JobInv'
  BY <1>0, <1>1 DEF JobInv, Marked, Target
<1>. QED
  BY <1>1, <1>2, <1>3, <1>4

\* The same, for steps that execute nothing.
LEMMA StageKeeps ==
  ASSUME WeixinInv, loop.pc = "dispatch", NEW s \in {"wait", "reply", "mark"}, To(s),
         UNCHANGED <<msg, sent, store, pi, running, ran, ignored, dropped, excused>>,
         answered \subseteq answered', answered' \subseteq Id,
         s = "mark" => Range(loop.job.req.ids) \subseteq answered',
         bounds' \in [failures : 0 .. MaxFailures, logins : 0 .. MaxLogins,
                      switches : 0 .. MaxSwitches]
  PROVE  WeixinInv'
<1>0. TypeOK /\ OpenInv
  BY DEF WeixinInv
<1>1. /\ loop' \in Loop /\ loop'.next = loop.next /\ loop'.upto = loop.upto
      /\ JobInv' /\ LoopInv' /\ PassedInv'
  BY StageMoves
<1>2. TypeOK'
  BY <1>0, <1>1 DEF TypeOK
<1>3. \A m \in Id : Open(m) => loop'.upto = 0 \/ loop'.next <= m
  BY <1>0, <1>1 DEF OpenInv
<1>. QED
  BY <1>1, <1>2, <1>3, LoopMoves

\* A dispatch that cannot be asked, or was lost, is answered all the same.
LEMMA UnavailableKeeps ==
  ASSUME WeixinInv, Unavailable
  PROVE  WeixinInv'
<1>1. TypeOK
  BY DEF WeixinInv
<1>2. bounds' \in [failures : 0 .. MaxFailures, logins : 0 .. MaxLogins,
                   switches : 0 .. MaxSwitches]
  <2>1. /\ bounds \in [failures : 0 .. MaxFailures, logins : 0 .. MaxLogins,
                       switches : 0 .. MaxSwitches]
        /\ bounds.failures < MaxFailures /\ bounds' = [bounds EXCEPT !.failures = @ + 1]
    BY <1>1 DEF TypeOK, Unavailable
  <2>2. bounds.failures + 1 \in 0 .. MaxFailures
    BY <2>1
  <2>. QED
    BY <2>1, <2>2
<1>. QED
  BY <1>1, <1>2, StageKeeps DEF Unavailable, Stage, outside, server, history, TypeOK

\* The end of a prompt leads to a reply or to a new iteration.
LEMMA HeardKeeps ==
  ASSUME WeixinInv, Heard
  PROVE  WeixinInv'
<1>0. TypeOK /\ LoopInv
  BY DEF WeixinInv
<1>1. /\ UNCHANGED <<msg, sent, store, pi, running, ran>>
      /\ UNCHANGED <<answered, ignored, dropped, excused, bounds>> /\ loop.pc = "dispatch"
      /\ To("reply") \/ loop' = [Off EXCEPT !.pc = "begin"]
  BY DEF Heard, Stage, outside, server, history
<1>2. CASE To("reply")
  BY <1>0, <1>1, <1>2, StageKeeps DEF TypeOK
<1>3. CASE loop' = [Off EXCEPT !.pc = "begin"]
  <2>1. TypeOK'
    BY <1>0, <1>1, <1>3, InitialRecords DEF TypeOK
  <2>2. store.auth
    BY <1>0, <1>1, StateFields DEF LoopInv
  <2>. QED
    BY <1>1, <1>3, <2>1, <2>2, Restarts
<1>. QED
  BY <1>1, <1>2, <1>3

\* The reply answers every message of the dispatch, and the mark follows it.
LEMMA ReplyKeeps ==
  ASSUME WeixinInv, Reply
  PROVE  WeixinInv'
<1>0. TypeOK
  BY DEF WeixinInv
<1>1. Range(loop.job.req.ids) \subseteq Id
  <2>1. loop.job.req.ids \in Seq(Id) /\ 1 \in Id
    BY <1>0, StateFields DEF Id
  <2>. QED
    BY <2>1, Elements
<1>. QED
  BY <1>0, <1>1, StageKeeps DEF Reply, Stage, outside, server, TypeOK

\* A request that Pi executes has no entry in the ledger of its session.
LEMMA BeginsNew ==
  ASSUME WeixinInv, Decide({r \in pi : r.rt = loop.job.session}, loop.job.req, loop.job.req) = "begin"
  PROVE  ~\E x \in ran : x.req = loop.job.req /\ x.session = loop.job.session
<1>. SUFFICES ASSUME NEW x \in ran, x.req = loop.job.req, x.session = loop.job.session
              PROVE  FALSE
  OBVIOUS
<1>1. PICK r \in pi : r.req = x.req /\ r.rt = x.session
  BY DEF WeixinInv, RanInv
<1>2. {q \in {q \in pi : q.rt = loop.job.session} : q.req = loop.job.req} # {}
  BY <1>1
<1>. QED
  BY <1>2 DEF Decide

\* Pi executes a request: what it has of it was not executed before.
LEMMA BeginsKeeps ==
  ASSUME WeixinInv, Stage("ask"), To("wait"),
         NEW rec, rec = [req |-> loop.job.req, pay |-> loop.job.req, rt |-> loop.job.session,
                         done |-> FALSE],
         Decide({r \in pi : r.rt = loop.job.session}, loop.job.req, loop.job.req) = "begin",
         pi' = pi \cup {rec}, running' = running \cup {rec},
         ran' = ran \cup {[req |-> loop.job.req, session |-> loop.job.session,
                           again |-> \E x \in ran : x.req = loop.job.req
                                                    /\ x.session = loop.job.session]},
         UNCHANGED <<outside, store, history, bounds>>
  PROVE  WeixinInv'
<1>0. /\ TypeOK /\ JobInv /\ LoopInv /\ PassedInv /\ MarkedIsSettled
      /\ RanInv /\ OpenInv /\ BatchInv /\ ExecutedOnce
  BY DEF WeixinInv
<1>1. /\ UNCHANGED <<msg, sent, store, answered, ignored, dropped, excused, bounds>>
      /\ loop.pc = "dispatch"
  BY DEF Stage, outside, history
<1>2. /\ loop' \in Loop /\ loop'.next = loop.next /\ loop'.upto = loop.upto
      /\ JobInv' /\ LoopInv' /\ PassedInv'
  BY <1>1, StageMoves
<1>3. ~\E x \in ran : x.req = loop.job.req /\ x.session = loop.job.session
  BY BeginsNew
<1>. DEFINE y == [req |-> loop.job.req, session |-> loop.job.session, again |-> FALSE]
<1>4. ran' = ran \cup {y} /\ rec \in pi' /\ pi \subseteq pi'
  BY <1>3
<1>5. /\ y.req = loop.job.req /\ y.session = loop.job.session /\ ~y.again
      /\ rec.req = loop.job.req /\ rec.rt = loop.job.session
      /\ y \in [req : Request, session : Sessions, again : BOOLEAN] /\ rec \in Record
  BY <1>0, StateFields DEF Record
<1>. HIDE DEF y
<1>6. TypeOK'
  BY <1>0, <1>1, <1>2, <1>4, <1>5 DEF TypeOK
<1>7. \A m : /\ Marked(m)' = Marked(m) /\ Settled(m)' = Settled(m)
             /\ StoreTarget(m)' = StoreTarget(m)
  BY <1>1 DEF Marked, Settled, StoreTarget
<1>8. MarkedIsSettled'
  BY <1>0, <1>1, <1>7 DEF MarkedIsSettled
\* The request is the batch of the file, or a text on its own that goes where it would go again.
<1>9. \/ /\ store.pending.tag = "Dispatching" /\ y.session = store.pending.session
         /\ y.req = [type |-> "batch", ids |-> store.pending.ids] /\ y.req.type = "batch"
      \/ \E n \in Id :
           /\ n = loop.next /\ y.req = One(n) /\ msg[n].type = "text" /\ ~Marked(n)
           /\ store.pending.tag = "none" /\ loop.upto # 0 /\ n > store.cursor
           /\ n \in excused \/ y.session = StoreTarget(n)
  <2>1. loop.job.req \in Request /\ loop.job.req.type \in {"one", "batch"}
    BY <1>0, StateFields
  <2>2. loop.job.req = [type |-> loop.job.req.type, ids |-> loop.job.req.ids]
    BY <2>1 DEF Request
  <2>3. CASE loop.job.req.type = "batch"
    BY <1>0, <1>1, <1>5, <2>2, <2>3 DEF JobInv
  <2>4. CASE loop.job.req.type = "one"
    <3>1. /\ loop.job.req.ids = <<loop.next>> /\ loop.job.back = "next"
          /\ msg[loop.next].type = "text" /\ ~Marked(loop.next)
          /\ store.pending.tag = "none" /\ loop.job.session = Target(loop.next)
          /\ loop.next <= loop.upto
      BY <1>0, <1>1, <2>4 DEF JobInv
    <3>2. /\ loop.next \in Id /\ loop.upto # 0 /\ loop.next > store.cursor
          /\ loop.next \in loop.next .. loop.upto
      BY <1>0, <3>1, StateFields DEF LoopInv, Id
    <3>3. loop.next \in excused \/ loop.job.session = StoreTarget(loop.next)
      BY <1>0, <3>1, <3>2 DEF PassedInv, Target, StoreTarget
    <3>4. loop.job.req = One(loop.next)
      BY <2>2, <2>4, <3>1 DEF One
    <3>. QED
      BY <1>5, <3>1, <3>2, <3>3, <3>4
  <2>. QED
    BY <2>1, <2>3, <2>4
<1>10. RanInv'
  <2>1. ASSUME NEW x \in ran'
        PROVE  ~x.again /\ \E r \in pi' : r.req = x.req /\ r.rt = x.session
    BY <1>0, <1>4, <1>5 DEF RanInv
  <2>2. ASSUME NEW x \in ran', x.req.type = "one"
        PROVE  \E m \in Id : x.req = One(m) /\ msg[m].type = "text"
    BY <1>0, <1>4, <1>9, <2>2 DEF RanInv
  <2>3. ASSUME NEW x \in ran', NEW m \in Range(x.req.ids)
        PROVE  \/ m \in excused \/ Marked(m) \/ m <= store.cursor
               \/ x.req = One(m) /\ x.session = StoreTarget(m)
    <3>1. CASE x \in ran
      BY <1>0, <3>1 DEF RanInv
    <3>2. CASE x = y
      <4>1. CASE y.req = [type |-> "batch", ids |-> store.pending.ids]
        BY <1>0, <3>2, <4>1 DEF BatchInv
      <4>2. ASSUME NEW n \in Id, y.req = One(n), n \in excused \/ y.session = StoreTarget(n)
            PROVE  m = n /\ (n \in excused \/ (x.req = One(n) /\ x.session = StoreTarget(n)))
        BY <3>2, <4>2, Singles DEF One
      <4>. QED
        BY <1>9, <4>1, <4>2
    <3>. QED
      BY <1>4, <3>1, <3>2
  <2>4. \A x \in ran' : \A m \in Range(x.req.ids) :
          \/ m \in excused' \/ Marked(m)' \/ m <= store'.cursor
          \/ x.req = One(m) /\ x.session = StoreTarget(m)'
    BY <1>1, <1>7, <2>3
  <2>5. \A x \in ran' : x.req.type = "one" => \E m \in Id : x.req = One(m) /\ msg'[m].type = "text"
    BY <1>1, <2>2
  <2>. QED
    BY <2>1, <2>4, <2>5 DEF RanInv, One
<1>11. ExecutedOnce'
  <2>1. ASSUME NEW x \in ran
        PROVE  Range(x.req.ids) \cap Range(y.req.ids) \subseteq excused
    <3>1. CASE /\ store.pending.tag = "Dispatching" /\ y.session = store.pending.session
               /\ y.req = [type |-> "batch", ids |-> store.pending.ids]
      BY <1>0, <1>3, <1>5, <3>1 DEF BatchInv, Apart
    <3>2. ASSUME NEW n \in Id, n = loop.next, y.req = One(n), ~Marked(n), n > store.cursor,
                 n \in excused \/ y.session = StoreTarget(n)
          PROVE  Range(x.req.ids) \cap Range(y.req.ids) \subseteq excused
      <4>1. Range(y.req.ids) = {n}
        BY <3>2, Singles DEF One
      <4>. SUFFICES ASSUME n \in Range(x.req.ids), n \notin excused PROVE FALSE
        BY <4>1
      <4>2. ~(n <= store.cursor)
        BY <1>0, <3>2, StateFields DEF Id
      <4>3. x.req = One(n) /\ x.session = StoreTarget(n)
        BY <1>0, <3>2, <4>2 DEF RanInv
      <4>. QED
        BY <1>3, <1>5, <3>2, <4>3
    <3>. QED
      BY <1>9, <3>1, <3>2
  <2>. QED
    BY <1>0, <1>1, <1>4, <2>1 DEF ExecutedOnce
<1>12. OpenInv'
  <2>1. ASSUME NEW m \in Id, Open(m)'
        PROVE  /\ store.pending.tag # "Collecting"
               /\ \A i \in store.cursor + 1 .. m - 1 : msg[i].type = "image" => Marked(i)
               /\ loop.upto # 0 => loop.next <= m
    <3>1. /\ m \notin excused /\ ~Marked(m) /\ m > store.cursor
          /\ \E x \in ran \cup {y} : x.req = One(m)
      BY <1>1, <1>4, <1>7, <2>1 DEF Open, One
    <3>2. CASE \E x \in ran : x.req = One(m)
      BY <1>0, <3>1, <3>2 DEF Open, OpenInv
    <3>3. CASE y.req = One(m)
      <4>1. One(m).type = "one"
        BY DEF One
      <4>2. PICK n \in Id : n = loop.next /\ y.req = One(n) /\ store.pending.tag = "none"
        BY <1>9, <3>3, <4>1
      <4>3. m = n
        BY <3>3, <4>2, Singles DEF One
      <4>4. ASSUME NEW i \in store.cursor + 1 .. m - 1, msg[i].type = "image"
            PROVE  Marked(i)
        <5>1. i \in store.cursor + 1 .. loop.next - 1 /\ m \in i .. Messages
          BY <1>0, <4>2, <4>3, StateFields DEF Id
        <5>. QED
          BY <1>0, <3>1, <4>4, <5>1 DEF PassedInv
      <4>. QED
        BY <4>2, <4>3, <4>4 DEF Id
    <3>. QED
      BY <3>1, <3>2, <3>3
  <2>. QED
    BY <1>1, <1>2, <1>7, <2>1 DEF OpenInv
<1>13. BatchInv'
  <2>1. ASSUME NEW m \in Range(store.pending.ids)
        PROVE  m \in excused \/ Marked(m) \/ m <= store.cursor
    BY <1>0 DEF BatchInv
  <2>2. ASSUME NEW x \in ran'
        PROVE  \/ Apart(store.pending.ids, x)
               \/ /\ store.pending.tag = "Dispatching" /\ x.session = store.pending.session
                  /\ x.req = [type |-> "batch", ids |-> store.pending.ids]
    <3>1. CASE x \in ran
      BY <1>0, <3>1 DEF BatchInv
    <3>2. CASE x = y
      <4>1. CASE store.pending.tag = "none"
        BY <1>0, <4>1, Singles DEF LoopInv, Apart
      <4>. QED
        BY <1>9, <3>2, <4>1
    <3>. QED
      BY <1>4, <3>1, <3>2
  <2>. QED
    BY <1>1, <1>7, <2>1, <2>2 DEF BatchInv, Apart
<1>. QED
  BY <1>2, <1>6, <1>8, <1>10, <1>11, <1>12, <1>13 DEF WeixinInv

\* A request that runs, is known or is begun.
LEMMA AskKeeps ==
  ASSUME WeixinInv, Ask
  PROVE  WeixinInv'
<1>. DEFINE rec == [req |-> loop.job.req, pay |-> loop.job.req, rt |-> loop.job.session, done |-> FALSE]
<1>1. TypeOK
  BY DEF WeixinInv
<1>2. CASE (To("wait") \/ To("reply")) /\ UNCHANGED server
  BY <1>1, <1>2, StageKeeps DEF Ask, Stage, outside, server, history, TypeOK
<1>3. CASE /\ To("wait")
           /\ Decide({r \in pi : r.rt = loop.job.session}, loop.job.req, loop.job.req) = "begin"
           /\ pi' = pi \cup {rec} /\ running' = running \cup {rec}
           /\ ran' = ran \cup {[req |-> loop.job.req, session |-> loop.job.session,
                                again |-> \E x \in ran : x.req = loop.job.req
                                                         /\ x.session = loop.job.session]}
  <2>1. Stage("ask") /\ UNCHANGED <<outside, store, history, bounds>>
    BY DEF Ask
  <2>. QED
    BY <1>3, <2>1, BeginsKeeps
<1>. QED
  BY <1>2, <1>3 DEF Ask

\* Where the loop goes on after a dispatch.
LEMMA ConcludedFields ==
  ASSUME WeixinInv, Conclude
  PROVE  /\ loop' \in Loop /\ loop'.upto = loop.upto /\ loop'.default = loop.default
         /\ loop'.pc \in {"message", "cursor"}
         /\ \/ loop.job.back # "next" /\ loop'.next = loop.next /\ loop'.pc = loop.job.back
            \/ /\ loop.job.back = "next" /\ loop'.next = loop.next + 1 /\ loop'.pc = "message"
               /\ loop.next <= loop.upto /\ loop.next \in Id
<1>0. TypeOK /\ JobInv /\ loop.pc = "dispatch"
  BY DEF WeixinInv, Conclude, Stage
<1>1. CASE loop.job.back = "next"
  <2>1. loop' = Advanced /\ loop.next <= loop.upto
    BY <1>0, <1>1 DEF Conclude, JobInv
  <2>. QED
    BY <1>0, <1>1, <2>1, AdvancedFields
<1>2. CASE loop.job.back # "next"
  <2>1. /\ loop' = [loop EXCEPT !.pc = loop.job.back, !.job = NoJob] /\ loop \in Loop
        /\ loop.job.back \in {"message", "cursor"}
    BY <1>0, <1>2, StateFields DEF Conclude, TypeOK
  <2>. QED
    BY <1>2, <2>1, InitialRecords DEF Loop
<1>. QED
  BY <1>1, <1>2

\* The batch that was dispatched and answered is gone.
LEMMA CompleteKeeps ==
  ASSUME WeixinInv, Conclude, loop.job.req.type = "batch"
  PROVE  WeixinInv'
<1>0. /\ TypeOK /\ JobInv /\ LoopInv /\ PassedInv /\ MarkedIsSettled /\ OpenInv
  BY DEF WeixinInv
<1>1. /\ UNCHANGED <<msg, sent, pi, running, ran, answered, ignored, dropped, excused, bounds>>
      /\ loop.pc = "dispatch" /\ loop.job.stage = "mark"
  BY DEF Conclude, Stage, outside, server
<1>2. /\ store.pending.tag = "Dispatching" /\ store.pending.ids = loop.job.req.ids
      /\ Range(store.pending.ids) \subseteq answered
      /\ loop.job.back = "next" =>
           /\ loop.next \in Range(store.pending.ids) /\ msg[loop.next].type # "image"
           /\ Marked(loop.next)
      /\ loop.job.back = "cursor" => loop.next > loop.upto
  BY <1>0, <1>1 DEF JobInv
<1>3. store' = [store EXCEPT !.pending = NoBatch]
  BY <1>2 DEF Conclude
<1>4. /\ store' \in Store /\ store'.auth = store.auth /\ store'.default = store.default
      /\ store'.cursor = store.cursor /\ store'.processed = store.processed
      /\ store'.pending = NoBatch
  BY <1>0, <1>3, InitialRecords DEF TypeOK, Store
<1>5. /\ loop' \in Loop /\ loop'.upto = loop.upto /\ loop'.default = loop.default
      /\ loop'.pc \in {"message", "cursor"}
      /\ \/ loop.job.back # "next" /\ loop'.next = loop.next /\ loop'.pc = loop.job.back
         \/ /\ loop.job.back = "next" /\ loop'.next = loop.next + 1 /\ loop'.pc = "message"
            /\ loop.next <= loop.upto /\ loop.next \in Id
  BY ConcludedFields
<1>6. TypeOK'
  BY <1>0, <1>1, <1>4, <1>5 DEF TypeOK
<1>7. \A m : Marked(m)' = Marked(m) /\ (Settled(m) => Settled(m)')
  BY <1>1, <1>2, <1>4 DEF Marked, Settled
<1>8. JobInv'
  BY <1>5 DEF JobInv
<1>9. LoopInv'
  <2>1. store.auth
    BY <1>0, <1>1, StateFields DEF LoopInv
  <2>. QED
    BY <1>0, <1>2, <1>4, <1>5, <2>1, InitialRecords, StateFields DEF LoopInv
<1>10. PassedInv'
  <2>1. PICK n \in 1 .. Messages + 1 : n = loop.next
    BY <1>0, StateFields
  <2>2. loop.job.back = "next" => Settled(n)' /\ msg[n].type # "image"
    BY <1>1, <1>2, <2>1 DEF Settled
  <2>. QED
    BY <1>1, <1>4, <1>5, <1>6, <1>7, <2>1, <2>2, KeepsPassed
<1>11. MarkedIsSettled'
  BY <1>0, <1>1, <1>4, <1>7 DEF MarkedIsSettled
<1>12. /\ RanInv' /\ ExecutedOnce'
       /\ \A m \in Id : Open(m)' =>
            /\ Open(m)
            /\ \A i \in store'.cursor + 1 .. m - 1 : msg[i].type = "image" => Marked(i)'
  <2>1. store.cursor <= store'.cursor
    BY <1>0, <1>4, StateFields
  <2>. QED
    BY <1>1, <1>4, <1>6, <1>7, <2>1, KeepsRan
<1>13. OpenInv'
  <2>1. ASSUME NEW m \in Id, Open(m)', loop'.upto # 0
        PROVE  loop'.next <= m
    <3>1. Open(m) /\ loop.next <= m
      BY <1>0, <1>5, <1>12, <2>1 DEF OpenInv
    <3>2. loop.job.back = "next" => m # loop.next
      BY <1>2, <3>1 DEF Open
    <3>. QED
      BY <1>0, <1>5, <3>1, <3>2, StateFields DEF Id
  <2>2. store'.pending.tag # "Collecting"
    BY <1>4, InitialRecords
  <2>. QED
    BY <1>1, <1>12, <2>1, <2>2 DEF OpenInv
<1>14. BatchInv'
  <2>1. Range(store'.pending.ids) = {}
    BY <1>4, InitialRecords, Singles
  <2>. QED
    BY <2>1 DEF BatchInv, Apart
<1>. QED
  BY <1>6, <1>8, <1>9, <1>10, <1>11, <1>12, <1>13, <1>14 DEF WeixinInv

\* The text that was dispatched and answered is marked.
LEMMA MarkProcessedKeeps ==
  ASSUME WeixinInv, Conclude, loop.job.req.type # "batch"
  PROVE  WeixinInv'
<1>0. TypeOK /\ JobInv /\ LoopInv /\ OpenInv
  BY DEF WeixinInv
<1>1. /\ UNCHANGED <<msg, sent, pi, running, ran, answered, ignored, dropped, bounds>>
      /\ loop.pc = "dispatch" /\ loop.job.stage = "mark" /\ loop.job.req.type = "one"
  BY <1>0, StateFields DEF Conclude, Stage, outside, server
<1>2. /\ loop.job.req.ids = <<loop.next>> /\ loop.job.back = "next"
      /\ store.pending.tag = "none" /\ loop.next <= loop.upto /\ loop.next \in answered
  BY <1>0, <1>1, Singles DEF JobInv
<1>3. /\ loop' \in Loop /\ loop'.upto = loop.upto /\ loop'.default = loop.default
      /\ loop'.next = loop.next + 1 /\ loop'.pc = "message" /\ loop.next \in Id
  BY <1>2, ConcludedFields
<1>4. PICK n \in Id : n = loop.next
  BY <1>3
<1>5. store' = WithProcessed(store, n) /\ Excuse(n)
  <2>1. loop.job.req.ids[1] = n
    BY <1>2, <1>4, Singles
  <2>. QED
    BY <2>1 DEF Conclude
<1>6. /\ store' \in Store /\ Len(store'.processed) <= ProcessedLimit
      /\ store'.auth = store.auth /\ store'.default = store.default
      /\ store'.cursor = store.cursor /\ store'.pending = store.pending
      /\ store'.processed = WithProcessed(store, n).processed
  BY <1>0, <1>5, WithProcessedFields
<1>7. TypeOK'
  <2>1. excused' \subseteq Id
    BY <1>0, <1>5, ExcuseTyped
  <2>. QED
    BY <1>0, <1>1, <1>3, <1>6, <2>1 DEF TypeOK
<1>8. JobInv'
  BY <1>3 DEF JobInv
<1>9. LoopInv'
  BY <1>0, <1>1, <1>2, <1>3, <1>6, StateFields DEF LoopInv
<1>10. Settled(n)'
  BY <1>1, <1>2, <1>4 DEF Settled
<1>11. /\ RanInv' /\ ExecutedOnce' /\ PassedInv' /\ MarkedIsSettled'
       /\ \A m \in Id : Open(m)' =>
            /\ Open(m) /\ loop'.next <= m
            /\ \A i \in store'.cursor + 1 .. m - 1 : msg[i].type = "image" => Marked(i)'
  BY <1>1, <1>2, <1>3, <1>4, <1>5, <1>6, <1>7, <1>10, MarksNext
<1>12. OpenInv'
  BY <1>1, <1>2, <1>6, <1>11 DEF OpenInv
<1>13. BatchInv'
  <2>1. /\ excused \subseteq excused'
        /\ \A i \in Id : Marked(i) => Marked(i)' \/ i <= store'.cursor \/ i .. Messages \subseteq excused'
    BY <1>0, <1>5, <1>6, MarkKeeps
  <2>2. store.cursor <= store'.cursor
    BY <1>0, <1>6, StateFields
  <2>. QED
    BY <1>1, <1>6, <1>7, <2>1, <2>2, KeepsBatch
<1>. QED
  BY <1>7, <1>8, <1>9, <1>11, <1>12, <1>13 DEF WeixinInv

\* A file without cursor, ids and batch.
LEMMA ForgottenFields ==
  ASSUME TypeOK, NEW auth \in BOOLEAN
  PROVE  LET s == Forgotten(store, auth) IN
         /\ s \in Store /\ s.auth = auth /\ s.default = store.default /\ s.cursor = 0
         /\ s.processed = <<>> /\ s.pending = NoBatch
<1>1. store \in Store /\ 0 \in 0 .. Messages /\ <<>> \in Seq(Id) /\ NoBatch \in Batch
  BY InitialRecords, Singles DEF TypeOK
<1>. QED
  BY <1>1 DEF Forgotten, Store

\* With the login all marks are lost, and whatever was executed is excused.
LEMMA ExpireKeeps ==
  ASSUME WeixinInv, Expire
  PROVE  WeixinInv'
<1>0. TypeOK /\ RanInv /\ ExecutedOnce
  BY DEF WeixinInv
<1>1. /\ UNCHANGED <<msg, sent, pi, running, ran, answered, ignored, dropped>>
      /\ loop' = Off /\ store' = Forgotten(store, FALSE)
      /\ excused' = excused \cup Range(store.processed) \cup UNION {Range(x.req.ids) : x \in ran}
  BY DEF Expire, outside, server
<1>2. /\ store' \in Store /\ ~store'.auth /\ store'.cursor = 0 /\ store'.processed = <<>>
      /\ store'.pending = NoBatch
  BY <1>0, <1>1, ForgottenFields
<1>3. /\ loop' \in Loop /\ loop'.pc = "off" /\ loop'.next = 1 /\ loop'.upto = 0
  BY <1>1, InitialRecords
<1>4. excused' \subseteq Id
  <2>1. 1 \in Id /\ store.processed \in Seq(Id) /\ \A x \in ran : x.req.ids \in Seq(Id)
    BY <1>0, StateFields DEF TypeOK, Request, Id
  <2>2. Range(store.processed) \subseteq Id /\ \A x \in ran : Range(x.req.ids) \subseteq Id
    BY <2>1, Elements
  <2>. QED
    BY <1>0, <1>1, <2>2 DEF TypeOK
<1>5. TypeOK'
  <2>1. bounds' \in [failures : 0 .. MaxFailures, logins : 0 .. MaxLogins,
                     switches : 0 .. MaxSwitches]
    BY <1>0, BoundedTyped DEF Expire
  <2>2. Len(store'.processed) <= ProcessedLimit
    BY <1>2, EmptySeq
  <2>. QED
    BY <1>0, <1>1, <1>2, <1>3, <1>4, <2>1, <2>2 DEF TypeOK
<1>6. \A x \in ran : Range(x.req.ids) \subseteq excused'
  BY <1>1
<1>7. JobInv' /\ LoopInv'
  BY <1>2, <1>3, InitialRecords DEF JobInv, LoopInv
<1>8. PassedInv' /\ MarkedIsSettled'
  BY <1>2, <1>3, Singles DEF PassedInv, MarkedIsSettled
<1>9. RanInv'
  BY <1>0, <1>1, <1>6 DEF RanInv, One
<1>10. ExecutedOnce'
  BY <1>0, <1>1 DEF ExecutedOnce
<1>11. OpenInv'
  <2>1. ASSUME NEW m \in Id, Open(m)'
        PROVE  FALSE
    <3>1. PICK x \in ran : x.req = One(m)
      BY <1>1, <2>1 DEF Open, One
    <3>2. m \in Range(x.req.ids) /\ m \notin excused'
      BY <2>1, <3>1, Singles DEF Open, One
    <3>. QED
      BY <1>6, <3>2
  <2>. QED
    BY <2>1 DEF OpenInv
<1>12. BatchInv'
  <2>1. Range(store'.pending.ids) = {}
    BY <1>2, InitialRecords, Singles
  <2>. QED
    BY <2>1 DEF BatchInv, Apart
<1>. QED
  BY <1>5, <1>7, <1>8, <1>9, <1>10, <1>11, <1>12 DEF WeixinInv

\* The new credentials come to a file that is empty already.
LEMMA LoginKeeps ==
  ASSUME WeixinInv, Login
  PROVE  WeixinInv'
<1>0. /\ TypeOK /\ LoopInv /\ RanInv /\ OpenInv /\ BatchInv /\ ExecutedOnce
      /\ PassedInv /\ MarkedIsSettled
  BY DEF WeixinInv
<1>1. /\ UNCHANGED <<msg, sent, loop, pi, running, ran, answered, ignored, dropped, excused, bounds>>
      /\ store' = Forgotten(store, TRUE) /\ ~store.auth
  BY DEF Login, outside, server, history
<1>2. /\ loop.pc = "off" /\ store.cursor = 0 /\ store.processed = <<>> /\ store.pending = NoBatch
  BY <1>0, <1>1 DEF LoopInv
<1>3. /\ store' \in Store /\ store'.auth /\ store'.default = store.default
      /\ store'.cursor = store.cursor /\ store'.processed = store.processed
      /\ store'.pending = store.pending
  BY <1>0, <1>1, <1>2, ForgottenFields
<1>4. TypeOK'
  BY <1>0, <1>1, <1>3 DEF TypeOK
<1>5. /\ \A m : Marked(m)' = Marked(m) /\ Settled(m)' = Settled(m)
      /\ store.cursor <= store'.cursor
  <2>1. store.cursor <= store'.cursor
    BY <1>0, <1>3, StateFields
  <2>. QED
    BY <1>1, <1>3, <2>1 DEF Marked, Settled
<1>6. JobInv' /\ LoopInv'
  BY <1>0, <1>1, <1>2, <1>3 DEF JobInv, LoopInv
<1>7. PassedInv' /\ MarkedIsSettled'
  BY <1>0, <1>1, <1>3, <1>5 DEF PassedInv, MarkedIsSettled
<1>8. /\ RanInv' /\ ExecutedOnce'
      /\ \A m \in Id : Open(m)' =>
           /\ Open(m)
           /\ \A i \in store'.cursor + 1 .. m - 1 : msg[i].type = "image" => Marked(i)'
  BY <1>1, <1>3, <1>4, <1>5, KeepsRan
<1>9. OpenInv'
  BY <1>0, <1>1, <1>3, <1>8 DEF OpenInv
<1>10. BatchInv'
  BY <1>1, <1>3, <1>4, <1>5, KeepsBatch
<1>. QED
  BY <1>4, <1>6, <1>7, <1>8, <1>9, <1>10 DEF WeixinInv

\* A new default session excuses the batch at hand and what is executed but not marked.
LEMMA SetDefaultKeeps ==
  ASSUME WeixinInv, SetDefault
  PROVE  WeixinInv'
<1>0. /\ TypeOK /\ JobInv /\ LoopInv /\ RanInv /\ OpenInv /\ BatchInv /\ ExecutedOnce
      /\ PassedInv /\ MarkedIsSettled
  BY DEF WeixinInv
<1>1. PICK s \in Sessions : store' = [store EXCEPT !.default = s]
  BY DEF SetDefault
<1>2. /\ UNCHANGED <<msg, sent, loop, pi, running, ran, answered, ignored, dropped>>
      /\ excused' = excused \cup loop.next .. loop.upto
           \cup {m \in Id \ Range(store.processed) : \E x \in ran : m \in Range(x.req.ids)}
  BY DEF SetDefault, outside, server
<1>3. /\ store' \in Store /\ store'.auth = store.auth /\ store'.cursor = store.cursor
      /\ store'.processed = store.processed /\ store'.pending = store.pending
  BY <1>0, <1>1 DEF TypeOK, Store
<1>4. TypeOK'
  <2>1. bounds' \in [failures : 0 .. MaxFailures, logins : 0 .. MaxLogins,
                     switches : 0 .. MaxSwitches]
    BY <1>0, BoundedTyped DEF SetDefault
  <2>2. excused' \subseteq Id
    <3>1. excused \subseteq Id
      BY <1>0 DEF TypeOK
    <3>2. loop.next .. loop.upto \subseteq Id
      BY <1>0, StateFields DEF Id
    <3>. QED
      BY <1>2, <3>1, <3>2
  <2>. QED
    BY <1>0, <1>2, <1>3, <2>1, <2>2 DEF TypeOK
<1>5. /\ \A m : Marked(m)' = Marked(m) /\ Settled(m)' = Settled(m) /\ Target(m)' = Target(m)
      /\ loop.next .. loop.upto \subseteq excused' /\ excused \subseteq excused'
  BY <1>2, <1>3 DEF Marked, Settled, Target
<1>6. JobInv'
  BY <1>0, <1>2, <1>3 DEF JobInv, Marked, Target
<1>7. LoopInv'
  BY <1>0, <1>2, <1>3 DEF LoopInv
<1>8. PassedInv'
  BY <1>0, <1>2, <1>3, <1>5 DEF PassedInv
<1>9. MarkedIsSettled'
  BY <1>0, <1>2, <1>3, <1>5 DEF MarkedIsSettled
<1>10. \A x \in ran : \A m \in Range(x.req.ids) : m \in excused' \/ Marked(m)
  <2>. TAKE x \in ran
  <2>. TAKE m \in Range(x.req.ids)
  <2>1. m \in Id
    <3>1. 1 \in Id /\ x.req.ids \in Seq(Id)
      BY <1>0, StateFields DEF TypeOK, Request, Id
    <3>. QED
      BY <3>1, Elements
  <2>. QED
    BY <1>2, <2>1 DEF Marked
<1>11. RanInv'
  <2>1. \A x \in ran : \A m \in Range(x.req.ids) : m \in excused' \/ Marked(m)'
    BY <1>5, <1>10
  <2>. QED
    BY <1>0, <1>2, <2>1 DEF RanInv, One
<1>12. ExecutedOnce'
  BY <1>0, <1>2, <1>5 DEF ExecutedOnce
<1>13. OpenInv'
  <2>1. ASSUME NEW m \in Id, Open(m)'
        PROVE  FALSE
    <3>1. PICK x \in ran : x.req = One(m)
      BY <1>2, <2>1 DEF Open, One
    <3>2. m \in Range(x.req.ids) /\ m \notin excused' /\ ~Marked(m)'
      BY <2>1, <3>1, Singles DEF Open, One
    <3>. QED
      BY <1>5, <1>10, <3>2
  <2>. QED
    BY <2>1 DEF OpenInv
<1>14. BatchInv'
  <2>1. store.cursor <= store'.cursor
    BY <1>0, <1>3, StateFields
  <2>. QED
    BY <1>2, <1>3, <1>4, <1>5, <2>1, KeepsBatch
<1>. QED
  BY <1>4, <1>6, <1>7, <1>8, <1>9, <1>11, <1>12, <1>13, <1>14 DEF WeixinInv

\* Messages that are sent and prompts that end change neither the file nor the loop; a record
\* keeps its request and session.
LEMMA OutsideKeeps ==
  ASSUME WeixinInv, Send \/ PiEnds
  PROVE  WeixinInv'
<1>0. /\ TypeOK /\ JobInv /\ LoopInv /\ RanInv /\ OpenInv /\ BatchInv /\ ExecutedOnce
      /\ PassedInv /\ MarkedIsSettled
  BY DEF WeixinInv
<1>1. UNCHANGED <<msg, store, loop, ran, answered, ignored, dropped, excused>>
  BY DEF Send, PiEnds, outside, server, history
<1>2. /\ sent' \in 0 .. Messages /\ pi' \subseteq Record /\ running' \subseteq pi'
      /\ bounds' \in [failures : 0 .. MaxFailures, logins : 0 .. MaxLogins,
                      switches : 0 .. MaxSwitches]
      /\ \A r \in pi : \E q \in pi' : q.req = r.req /\ q.rt = r.rt
  <2>1. CASE Send
    BY <1>0, <2>1 DEF Send, TypeOK, server
  <2>2. CASE PiEnds
    <3>1. PICK r \in running :
            /\ running' = running \ {r}
            /\ \/ /\ pi' = (pi \ {r}) \cup {[r EXCEPT !.done = TRUE]}
                  /\ UNCHANGED bounds
               \/ /\ UNCHANGED pi /\ Bounded("failures", MaxFailures)
            /\ UNCHANGED <<outside, store, loop, ran, history>>
      BY <2>2 DEF PiEnds
    <3>2. bounds' \in [failures : 0 .. MaxFailures, logins : 0 .. MaxLogins,
                       switches : 0 .. MaxSwitches]
      BY <1>0, <3>1, BoundedTyped
    <3>. DEFINE d == [r EXCEPT !.done = TRUE]
    <3>3. r \in Record
      BY <1>0, <3>1 DEF TypeOK
    <3>4. d \in Record /\ d.req = r.req /\ d.rt = r.rt
      BY <3>3 DEF Record
    <3>. HIDE DEF d
    <3>5. pi' = (pi \ {r}) \cup {d} \/ pi' = pi
      BY <3>1 DEF d
    <3>. QED
      BY <1>0, <3>1, <3>2, <3>4, <3>5 DEF TypeOK, outside
  <2>. QED
    BY <2>1, <2>2
<1>3. TypeOK'
  BY <1>0, <1>1, <1>2 DEF TypeOK
<1>4. \A m : /\ Marked(m)' = Marked(m) /\ Settled(m)' = Settled(m) /\ Open(m)' = Open(m)
             /\ Target(m)' = Target(m)
  BY <1>1 DEF Marked, Settled, Open, One, Target
<1>5. JobInv' /\ LoopInv'
  BY <1>0, <1>1 DEF JobInv, LoopInv, Marked, Target
<1>6. PassedInv' /\ MarkedIsSettled' /\ OpenInv'
  BY <1>0, <1>1, <1>4 DEF PassedInv, MarkedIsSettled, OpenInv
<1>7. store.cursor <= store'.cursor
  BY <1>0, <1>1, StateFields
<1>8. RanInv' /\ ExecutedOnce'
  BY <1>1, <1>2, <1>3, <1>4, <1>7, KeepsRan
<1>9. BatchInv'
  BY <1>1, <1>3, <1>4, <1>7, KeepsBatch
<1>. QED
  BY <1>3, <1>5, <1>6, <1>8, <1>9 DEF WeixinInv

\* A batch whose deadline passes.
LEMMA ElapseKeeps ==
  ASSUME WeixinInv, Elapse
  PROVE  WeixinInv'
<1>0. /\ TypeOK /\ JobInv /\ LoopInv /\ RanInv /\ OpenInv /\ BatchInv /\ ExecutedOnce
      /\ PassedInv /\ MarkedIsSettled
  BY DEF WeixinInv
<1>1. /\ UNCHANGED <<msg, sent, loop, pi, running, ran, answered, ignored, dropped, excused, bounds>>
      /\ store.pending.tag = "Collecting" /\ store' = [store EXCEPT !.pending.due = TRUE]
  BY DEF Elapse, outside, server, history
<1>2. /\ store' \in Store /\ store'.auth = store.auth /\ store'.default = store.default
      /\ store'.cursor = store.cursor /\ store'.processed = store.processed
      /\ store'.pending.tag = store.pending.tag /\ store'.pending.ids = store.pending.ids
      /\ store'.pending.session = store.pending.session
  <2>. DEFINE b == [store.pending EXCEPT !.due = TRUE]
  <2>1. store \in Store /\ store.pending \in Batch
    BY <1>0, StateFields DEF TypeOK
  <2>2. /\ b \in Batch /\ b.tag = store.pending.tag /\ b.ids = store.pending.ids
        /\ b.session = store.pending.session
    BY <2>1 DEF Batch
  <2>3. store' = [store EXCEPT !.pending = b]
    BY <1>1, <2>1
  <2>. HIDE DEF b
  <2>. QED
    BY <2>1, <2>2, <2>3 DEF Store
<1>3. TypeOK'
  BY <1>0, <1>1, <1>2 DEF TypeOK
<1>4. \A m : /\ Marked(m)' = Marked(m) /\ Settled(m)' = Settled(m) /\ Open(m)' = Open(m)
  BY <1>1, <1>2 DEF Marked, Settled, Open, One
<1>5. loop.pc # "dispatch"
  BY <1>0, <1>1, StateFields DEF JobInv
<1>6. store.auth
  BY <1>0, <1>1, InitialRecords DEF LoopInv
<1>7. JobInv' /\ LoopInv'
  BY <1>0, <1>1, <1>2, <1>5, <1>6 DEF JobInv, LoopInv
<1>8. PassedInv' /\ MarkedIsSettled' /\ OpenInv'
  BY <1>0, <1>1, <1>2, <1>4 DEF PassedInv, MarkedIsSettled, OpenInv
<1>9. store.cursor <= store'.cursor
  BY <1>0, <1>2, StateFields
<1>10. RanInv' /\ ExecutedOnce'
  BY <1>1, <1>2, <1>3, <1>4, <1>9, KeepsRan
<1>11. BatchInv'
  BY <1>1, <1>2, <1>3, <1>4, <1>9, KeepsBatch
<1>. QED
  BY <1>3, <1>7, <1>8, <1>10, <1>11 DEF WeixinInv

-----------------------------------------------------------------------------
(* The specification *)

\* Nothing has been sent, marked or executed at first.
LEMMA InitKeeps ==
  ASSUME Init
  PROVE  WeixinInv
<1>1. store \in Store /\ loop = Off /\ loop \in Loop
  BY InitialRecords, Singles DEF Init, Store
<1>2. TypeOK
  BY <1>1, EmptySeq DEF Init, TypeOK
<1>3. /\ store.auth /\ store.cursor = 0 /\ store.processed = <<>> /\ store.pending = NoBatch
      /\ loop.pc = "off" /\ loop.next = 1 /\ loop.upto = 0
  BY <1>1, InitialRecords DEF Init
<1>4. JobInv /\ LoopInv
  BY <1>3, InitialRecords DEF JobInv, LoopInv
<1>5. PassedInv /\ MarkedIsSettled
  BY <1>3, Singles DEF PassedInv, MarkedIsSettled
<1>6. RanInv /\ OpenInv /\ ExecutedOnce
  BY DEF Init, RanInv, OpenInv, Open, ExecutedOnce
<1>7. BatchInv
  BY <1>3, InitialRecords, Singles DEF BatchInv, Init
<1>. QED
  BY <1>2, <1>4, <1>5, <1>6, <1>7 DEF WeixinInv

\* One case for every action.
LEMMA NextKeeps ==
  ASSUME WeixinInv, [Next]_vars
  PROVE  WeixinInv'
<1>1. CASE Iterate
  <2>1. CASE \E m \in Id : Handle(m)
    <3>1. PICK n \in Id : Handle(n)
      BY <2>1
    <3>. QED
      BY <3>1, IgnoreKeeps, NotifyKeeps, CollectKeeps, DispatchImagesKeeps, DispatchTextKeeps
         DEF Handle
  <2>2. CASE Start \/ Begin \/ Fetch \/ Skip \/ Finish \/ SaveCursor
    BY <2>2, StartKeeps, BeginFinishKeeps, FetchKeeps, SkipKeeps, SaveCursorKeeps
  <2>3. CASE Ask \/ Heard \/ Reply \/ Conclude
    BY <2>3, AskKeeps, HeardKeeps, ReplyKeeps, CompleteKeeps, MarkProcessedKeeps
  <2>. QED
    BY <1>1, <2>1, <2>2, <2>3 DEF Iterate
<1>2. CASE Unavailable \/ Fail \/ Stop \/ Expire \/ Login \/ SetDefault
  BY <1>2, UnavailableKeeps, FailKeeps, ExpireKeeps, LoginKeeps, SetDefaultKeeps
<1>3. CASE Send \/ Elapse \/ PiEnds
  BY <1>3, OutsideKeeps, ElapseKeeps
<1>4. CASE UNCHANGED vars
  <2>1. UNCHANGED <<msg, sent, store, loop, pi, running, ran, answered, ignored, dropped,
                    excused, bounds>>
    BY <1>4 DEF vars
  <2>2. TypeOK' /\ LoopInv' /\ MarkedIsSettled'
    BY <2>1 DEF WeixinInv, TypeOK, LoopInv, MarkedIsSettled, Settled
  <2>3. JobInv' /\ PassedInv'
    BY <2>1 DEF WeixinInv, JobInv, PassedInv, Settled, Marked, Target
  <2>4. RanInv' /\ ExecutedOnce'
    BY <2>1 DEF WeixinInv, RanInv, ExecutedOnce, Marked, StoreTarget, One
  <2>5. OpenInv' /\ BatchInv'
    BY <2>1 DEF WeixinInv, OpenInv, Open, BatchInv, Apart, Marked, One
  <2>. QED
    BY <2>2, <2>3, <2>4, <2>5 DEF WeixinInv
<1>. QED
  BY <1>1, <1>2, <1>3, <1>4 DEF Next

\* The inductive invariant holds in every state.
LEMMA Invariance == Spec => []WeixinInv
<1>1. Init => WeixinInv
  BY InitKeeps
<1>2. WeixinInv /\ [Next]_vars => WeixinInv'
  BY NextKeeps
<1>. QED
  BY <1>1, <1>2, PTL DEF Spec

\* The file, the loop, the ledgers and the histories stay in their types, the list of ids
\* within its limit.
THEOREM TypeCorrect == Spec => []TypeOK
<1>1. WeixinInv => TypeOK
  BY DEF WeixinInv
<1>. QED
  BY <1>1, Invariance, PTL

\* What is marked, and what the cursor has passed, was answered, is nobody's, waits for a
\* dispatch, or is a text that was left behind: whatever fails between reply, mark and cursor.
THEOREM MarkedStaysSettled == Spec => []MarkedIsSettled
<1>1. WeixinInv => MarkedIsSettled
  BY DEF WeixinInv
<1>. QED
  BY <1>1, Invariance, PTL

\* Pi executes no message twice, unless a login, a new default session or an overflow of the
\* ids before the cursor forces it.
THEOREM ExecutesOnce == Spec => []ExecutedOnce
<1>1. WeixinInv => ExecutedOnce
  BY DEF WeixinInv
<1>. QED
  BY <1>1, Invariance, PTL

=============================================================================
