------------------------ MODULE SessionRuntimeProofs ------------------------
(***************************************************************************)
(* Proofs about SessionRuntime, for any calls, requests and inputs, and    *)
(* any number of runtimes and ends of the server.                          *)
(***************************************************************************)
EXTENDS SessionRuntime, TLAPS

\* A runtime that is on its way into the table, and one that has read the file.
Coming(e) == phase[e] \in {"creating", "loaded"}
HasLoaded(e) == phase[e] = "loaded" \/ phase[e] \in Opened

\* y is what a record x has become.
Extends(x, y) == y.req = x.req /\ y.pay = x.pay /\ y.rt = x.rt /\ (x.done => y.done)

\* Runtimes start one after the other, and the table is true.
TableInv ==
  /\ \A d, e \in Runtimes : d < e /\ phase[e] # "unused" => phase[d] # "unused"
  /\ \A d, e \in Runtimes : Coming(d) /\ Coming(e) => d = e
  /\ TableIsLive

\* A prompt in execution has its record, which is not completed; only a
\* runtime that was opened writes records, and of no request that it saw in
\* the file when it loaded; what it saw there is still there.
LedgerInv ==
  /\ \A e \in Runtimes : op[e].stage \in Live =>
       /\ phase[e] \in {"open", "draining", "disposing"}
       /\ \E r \in ledger : r.rt = e /\ r.req = op[e].req /\ ~r.done
  /\ \A r \in ledger : phase[r.rt] \in Opened
  /\ \A r \in ledger : \A s \in seen[r.rt] : s.req # r.req
  /\ \A e \in Runtimes : \A s \in seen[e] : \E r \in ledger : Extends(s, r)

\* What was executed is recorded; a runtime that was not still running when
\* another loaded runs no more, and the other saw everything it executed.
RanInv ==
  /\ \A q \in Requests, e \in Runtimes :
       <<q, e>> \in ran => \E r \in ledger : r.req = q /\ r.rt = e
  /\ \A d, e \in Runtimes :
       d < e /\ HasLoaded(e) /\ d \notin overlap[e] =>
         /\ phase[d] \in {"closed", "failed"}
         /\ \A q \in Requests : <<q, d>> \in ran => \E s \in seen[e] : s.req = q

\* The runtime of a call that holds one was opened, and a call that was
\* admitted finds its request there, with its own input and no other.
Backed(r) ==
  /\ r.req \in Requests
  /\ \E x \in View(r.rt) : x.req = r.req
  /\ \A x \in View(r.rt) : x.req = r.req => x.pay = r.pay

ToldTrue(r) ==
  r.pc = "done" =>
    /\ r.ans = "completed" => \E x \in ledger : x.req = r.req /\ x.pay = r.pay /\ x.done
    /\ r.ans \in {"accepted", "inDoubt"} => \E x \in ledger : x.req = r.req /\ x.pay = r.pay
    /\ r.ans = "mismatch" => \E x \in ledger : x.req = r.req /\ x.pay # r.pay

CallOK(r) ==
  /\ r.pc = "join" => r.rt \in Runtimes
  /\ r.pc \in {"wait", "attaching"} => r.on \in Runtimes
  /\ r.pc \in {"held", "accept", "attach", "attaching", "follow", "closing"} =>
       r.rt \in Runtimes /\ phase[r.rt] \in Opened
  /\ r.pc \in {"accept", "attach", "attaching", "follow"} => Backed(r)
  /\ ToldTrue(r)

CallInv == \A c \in Calls : \A r \in {call[c]} : CallOK(r)

SessionInv == TypeOK /\ TableInv /\ LedgerInv /\ RanInv /\ CallInv

-----------------------------------------------------------------------------
(* How a call goes on *)

\* There are inputs, so a call that has not been made is a call.
LEMMA UnmadeType == Unmade \in Call
<1>. DEFINE p == CHOOSE x \in Payloads : TRUE
<1>1. p \in Payloads
  BY PayloadsAssumption
<1>. HIDE DEF p
<1>2. [pc |-> "idle", kind |-> "restart", req |-> NoRequest, pay |-> p, rt |-> 0, on |-> 0,
       ans |-> "none"] \in Call
  BY <1>1, BoundsAssumption DEF Call, Answers
<1>. QED
  BY <1>2 DEF Unmade, p

\* An ended call keeps its request only together with what it was told of it.
LEMMA EndFields ==
  ASSUME NEW r \in Call, NEW ans \in Answers
  PROVE  /\ End(r, ans) \in Call
         /\ End(r, ans).pc = "done" /\ End(r, ans).ans = ans
         /\ ans \in {"accepted", "completed", "inDoubt", "mismatch"} =>
              End(r, ans).req = r.req /\ End(r, ans).pay = r.pay
<1>. DEFINE u == Unmade
            told == ans \in {"accepted", "completed", "inDoubt", "mismatch"}
            q == IF told THEN r.req ELSE u.req
            p == IF told THEN r.pay ELSE u.pay
<1>1. u \in Call
  BY UnmadeType
<1>2. q \in Requests \cup {NoRequest} /\ p \in Payloads
  BY <1>1 DEF Call
<1>3. End(r, ans) = [u EXCEPT !.pc = "done", !.ans = ans, !.req = q, !.pay = p]
  BY DEF End
<1>. HIDE DEF u, q, p
<1>4. /\ [u EXCEPT !.pc = "done", !.ans = ans, !.req = q, !.pay = p] \in Call
      /\ [u EXCEPT !.pc = "done", !.ans = ans, !.req = q, !.pay = p].pc = "done"
      /\ [u EXCEPT !.pc = "done", !.ans = ans, !.req = q, !.pay = p].ans = ans
      /\ [u EXCEPT !.pc = "done", !.ans = ans, !.req = q, !.pay = p].req = q
      /\ [u EXCEPT !.pc = "done", !.ans = ans, !.req = q, !.pay = p].pay = p
  BY <1>1, <1>2 DEF Call
<1>. QED
  BY <1>3, <1>4 DEF q, p

\* A call may end with any answer that is true of its request.
LEMMA EndOK ==
  ASSUME NEW r \in Call, NEW ans \in Answers,
         ans = "completed" => \E x \in ledger : x.req = r.req /\ x.pay = r.pay /\ x.done,
         ans \in {"accepted", "inDoubt"} => \E x \in ledger : x.req = r.req /\ x.pay = r.pay,
         ans = "mismatch" => \E x \in ledger : x.req = r.req /\ x.pay # r.pay
  PROVE  End(r, ans) \in Call /\ CallOK(End(r, ans))
BY EndFields DEF CallOK, ToldTrue

\* Whoever looks the slot up finds an open runtime, one that is on its way,
\* or none.
LEMMA ActiveOK ==
  ASSUME SessionInv, NEW r \in Call
  PROVE  Active(r) \in Call /\ CallOK(Active(r))
<1>1. CASE slot.tag = "active"
  <2>1. slot.rt \in Runtimes /\ phase[slot.rt] = "open"
    BY <1>1 DEF SessionInv, TypeOK, TableInv, TableIsLive, Slot
  <2>. DEFINE e == slot.rt
  <2>2. e \in Runtimes /\ e \in 0 .. MaxRuntimes
    BY <2>1 DEF Runtimes
  <2>. HIDE DEF e
  <2>3. /\ [r EXCEPT !.pc = "held", !.rt = e] \in Call
        /\ [r EXCEPT !.pc = "held", !.rt = e].pc = "held"
        /\ [r EXCEPT !.pc = "held", !.rt = e].rt = e
    BY <2>2 DEF Call
  <2>. QED
    BY <1>1, <2>1, <2>3 DEF Active, CallOK, ToldTrue, Opened, e
<1>2. CASE slot.tag = "starting"
  <2>1. slot.rt \in Runtimes
    BY <1>2 DEF SessionInv, TypeOK, Slot
  <2>. DEFINE e == slot.rt
  <2>2. e \in Runtimes /\ e \in 0 .. MaxRuntimes
    BY <2>1 DEF Runtimes
  <2>. HIDE DEF e
  <2>3. /\ [r EXCEPT !.pc = "join", !.rt = e] \in Call
        /\ [r EXCEPT !.pc = "join", !.rt = e].pc = "join"
        /\ [r EXCEPT !.pc = "join", !.rt = e].rt = e
    BY <2>2 DEF Call
  <2>. QED
    BY <1>2, <2>1, <2>3 DEF Active, CallOK, ToldTrue, e
<1>3. CASE slot.tag \notin {"active", "starting"}
  BY <1>3, EndOK DEF Active, Answers
<1>. QED
  BY <1>1, <1>2, <1>3

\* A call that starts a runtime is in order.
LEMMA StartedOK ==
  ASSUME SessionInv, NEW r \in Call
  PROVE  Started(r) \in Call /\ CallOK(Started(r))
BY ActiveOK, EndOK DEF Started, Answers

\* A call that is admitted has the record of its request to return to.
LEMMA AdmittedOK ==
  ASSUME NEW r \in Call, Backed(r), r.rt \in Runtimes, phase[r.rt] \in Opened,
         \E x \in ledger : x.req = r.req /\ x.pay = r.pay
  PROVE  Admitted(r) \in Call /\ CallOK(Admitted(r))
<1>1. CASE r.kind = "prompt"
  BY <1>1, EndOK DEF Admitted, Answers
<1>2. CASE r.kind # "prompt"
  <2>. DEFINE s == [r EXCEPT !.pc = "attach"]
  <2>1. /\ s \in Call /\ s.pc = "attach" /\ s.rt = r.rt /\ s.req = r.req /\ s.pay = r.pay
    BY DEF Call
  <2>. HIDE DEF s
  <2>2. CallOK(s)
    BY <2>1 DEF CallOK, ToldTrue, Backed
  <2>. QED
    BY <1>2, <2>1, <2>2 DEF Admitted, s
<1>. QED
  BY <1>1, <1>2

\* What a runtime knows of a request is in the file.
LEMMA ViewInLedger ==
  ASSUME SessionInv, NEW e \in Runtimes, NEW x \in View(e)
  PROVE  /\ x \in Record
         /\ \E y \in ledger : Extends(x, y)
BY DEF SessionInv, TypeOK, LedgerInv, View, Extends

-----------------------------------------------------------------------------
(* What the other steps keep of a call *)

\* Runtimes that were opened stay so; records are only completed; and a
\* runtime learns of no record of a request that it knows of already.
Grows ==
  /\ \A e \in Runtimes : phase[e] \in Opened => phase'[e] \in Opened
  /\ \A x \in ledger : \E y \in ledger' : Extends(x, y)
  /\ \A e \in Runtimes : phase[e] \in Opened =>
       /\ \A x \in View(e) : \E y \in View(e)' : y.req = x.req
       /\ \A y \in View(e)' :
            \/ \E x \in View(e) : x.req = y.req /\ x.pay = y.pay
            \/ \A x \in View(e) : x.req # y.req

\* A call that is in order stays so while runtimes and the ledger only move forward.
LEMMA CallOKStable ==
  ASSUME Grows, NEW r, CallOK(r)
  PROVE  CallOK(r)'
<1>1. ToldTrue(r)'
  <2>1. \A x \in ledger : \E y \in ledger' : Extends(x, y)
    BY DEF Grows
  <2>2. ToldTrue(r)
    BY DEF CallOK
  <2>. QED
    BY <2>1, <2>2 DEF ToldTrue, Extends
<1>2. ASSUME r.rt \in Runtimes, phase[r.rt] \in Opened, Backed(r)
      PROVE  Backed(r)'
  <2>. DEFINE e == r.rt
  <2>1. /\ \A x \in View(e) : \E y \in View(e)' : y.req = x.req
        /\ \A y \in View(e)' :
             \/ \E x \in View(e) : x.req = y.req /\ x.pay = y.pay
             \/ \A x \in View(e) : x.req # y.req
    BY <1>2 DEF Grows
  <2>2. /\ r.req \in Requests
        /\ \E x \in View(e) : x.req = r.req
        /\ \A x \in View(e) : x.req = r.req => x.pay = r.pay
    BY <1>2 DEF Backed
  <2>3. \E y \in View(e)' : y.req = r.req
    BY <2>1, <2>2
  <2>4. \A y \in View(e)' : y.req = r.req => y.pay = r.pay
    BY <2>1, <2>2
  <2>. QED
    BY <2>2, <2>3, <2>4 DEF Backed
<1>3. r.rt \in Runtimes /\ phase[r.rt] \in Opened => phase'[r.rt] \in Opened
  BY DEF Grows
<1>. QED
  BY <1>1, <1>2, <1>3 DEF CallOK

\* Runtimes and a ledger that do not change move forward.
LEMMA SameRuntimesGrow == UNCHANGED <<phase, seen, ledger>> => Grows
BY DEF Grows, View, Extends

\* A step of the runtimes that touches one call, or none.
LEMMA CallChanges ==
  ASSUME SessionInv, Grows, NEW c \in Calls, NEW r \in Call, CallOK(r)',
         call' = [call EXCEPT ![c] = r]
  PROVE  CallInv'
<1>. SUFFICES ASSUME NEW d \in Calls, NEW s, s = call'[d] PROVE CallOK(s)'
  BY DEF CallInv
<1>1. CASE d = c
  BY <1>1 DEF SessionInv, TypeOK
<1>2. CASE d # c
  BY <1>2, CallOKStable DEF SessionInv, TypeOK, CallInv
<1>. QED
  BY <1>1, <1>2

\* So all calls stay in order when none of them moves.
LEMMA CallsStable ==
  ASSUME SessionInv, Grows, UNCHANGED call
  PROVE  CallInv'
BY CallOKStable DEF SessionInv, CallInv

\* A step of one call that touches nothing else.
LEMMA CallStep ==
  ASSUME SessionInv, NEW c \in Calls, NEW r \in Call, CallOK(r),
         call' = [call EXCEPT ![c] = r], UNCHANGED <<accepting, slot, runtimes, crashes>>
  PROVE  SessionInv'
<1>. USE DEF runtimes
<1>1. TypeOK'
  BY DEF SessionInv, TypeOK
<1>2. TableInv'
  BY DEF SessionInv, TableInv, TableIsLive, Coming
<1>3. LedgerInv'
  BY DEF SessionInv, LedgerInv
<1>4. RanInv'
  BY DEF SessionInv, RanInv, HasLoaded
<1>5. CallInv'
  BY SameRuntimesGrow, CallOKStable, CallChanges
<1>. QED
  BY <1>1, <1>2, <1>3, <1>4, <1>5 DEF SessionInv

\* What is known of a call in a state of the invariant.
LEMMA CallFacts ==
  ASSUME SessionInv, NEW c \in Calls
  PROVE  call[c] \in Call /\ CallOK(call[c])
BY DEF SessionInv, TypeOK, CallInv

\* 0 stands for a runtime that was not started.
LEMMA NoRuntimeYet == 0 \in 0 .. MaxRuntimes
BY BoundsAssumption

-----------------------------------------------------------------------------
(* Steps of a call alone *)

\* A call arrives: whatever it asks for, it looks the slot up or goes on to start.
LEMMA ArriveKeeps ==
  ASSUME SessionInv, NEW c \in Calls, Arrive(c)
  PROVE  SessionInv'
<1>1. PICK k \in Kinds, q \in Requests \cup {NoRequest}, p \in Payloads :
        call' = [call EXCEPT ![c] =
          IF k = "restart" \/ slot.tag = "active"
          THEN Active([call[c] EXCEPT !.kind = k, !.req = q, !.pay = p])
          ELSE [[call[c] EXCEPT !.kind = k, !.req = q, !.pay = p] EXCEPT !.pc = "start"]]
  BY DEF Arrive
<1>. DEFINE r == [call[c] EXCEPT !.kind = k, !.req = q, !.pay = p]
            s == [r EXCEPT !.pc = "start"]
<1>2. r \in Call
  BY CallFacts DEF Call
<1>. HIDE DEF r
<1>3. s \in Call /\ s.pc = "start"
  BY <1>2 DEF Call
<1>4. CallOK(s)
  BY <1>3 DEF CallOK, ToldTrue
<1>5. Active(r) \in Call /\ CallOK(Active(r))
  BY <1>2, ActiveOK
<1>6. UNCHANGED <<accepting, slot, runtimes, crashes>>
  BY DEF Arrive
<1>. HIDE DEF s
<1>7. CASE k = "restart" \/ slot.tag = "active"
  <2>1. call' = [call EXCEPT ![c] = Active(r)]
    BY <1>1, <1>7 DEF r
  <2>. QED
    BY <1>5, <1>6, <2>1, CallStep
<1>8. CASE ~(k = "restart" \/ slot.tag = "active")
  <2>1. call' = [call EXCEPT ![c] = s]
    BY <1>1, <1>8 DEF r, s
  <2>. QED
    BY <1>3, <1>4, <1>6, <2>1, CallStep
<1>. QED
  BY <1>7, <1>8

\* The Deferred of a start is settled.
LEMMA ResumeKeeps ==
  ASSUME SessionInv, NEW c \in Calls, Resume(c)
  PROVE  SessionInv'
<1>. DEFINE r == [call[c] EXCEPT !.on = 0]
<1>1. r \in Call
  BY CallFacts, NoRuntimeYet DEF Call
<1>. HIDE DEF r
<1>2. Started(r) \in Call /\ CallOK(Started(r))
  BY <1>1, StartedOK
<1>3. End(call[c], "failed") \in Call /\ CallOK(End(call[c], "failed"))
  BY CallFacts, EndOK DEF Answers
<1>4. \/ call' = [call EXCEPT ![c] = Started(r)]
      \/ call' = [call EXCEPT ![c] = End(call[c], "failed")]
  BY DEF Resume, r
<1>5. UNCHANGED <<accepting, slot, runtimes, crashes>>
  BY DEF Resume
<1>. QED
  BY <1>2, <1>3, <1>4, <1>5, CallStep

\* A caller of active gets the handle of a start that succeeded.
LEMMA JoinKeeps ==
  ASSUME SessionInv, NEW c \in Calls, Join(c)
  PROVE  SessionInv'
<1>. DEFINE r == [call[c] EXCEPT !.pc = "held"]
<1>1. r \in Call /\ r.pc = "held" /\ r.rt = call[c].rt
  BY CallFacts DEF Call
<1>2. End(call[c], "failed") \in Call /\ CallOK(End(call[c], "failed"))
  BY CallFacts, EndOK DEF Answers
<1>3. UNCHANGED <<accepting, slot, runtimes, crashes>>
  BY DEF Join
<1>4. CASE phase[call[c].rt] \in Opened /\ call' = [call EXCEPT ![c].pc = "held"]
  <2>1. call[c].rt \in Runtimes
    BY CallFacts DEF CallOK, Join
  <2>2. CallOK(r)
    BY <1>1, <1>4, <2>1 DEF CallOK, ToldTrue
  <2>3. call' = [call EXCEPT ![c] = r]
    BY <1>4
  <2>. HIDE DEF r
  <2>. QED
    BY <1>1, <1>3, <2>2, <2>3, CallStep
<1>5. CASE call' = [call EXCEPT ![c] = End(call[c], "failed")]
  BY <1>2, <1>3, <1>5, CallStep
<1>. QED
  BY <1>4, <1>5 DEF Join

\* The prompt that a call began has been accepted, or will never be.
LEMMA AcceptedKeeps ==
  ASSUME SessionInv, NEW c \in Calls, Accepted(c)
  PROVE  SessionInv'
<1>. DEFINE r == call[c]
<1>1. /\ r \in Call /\ r.pc = "accept" /\ Backed(r)
      /\ r.rt \in Runtimes /\ phase[r.rt] \in Opened
  BY CallFacts DEF Accepted, CallOK
<1>2. \E x \in ledger : x.req = r.req /\ x.pay = r.pay
  BY <1>1, ViewInLedger DEF Backed, Extends
<1>3. UNCHANGED <<accepting, slot, runtimes, crashes>>
  BY DEF Accepted
<1>4. Admitted(r) \in Call /\ CallOK(Admitted(r))
  BY <1>1, <1>2, AdmittedOK
<1>5. End(r, "failed") \in Call /\ CallOK(End(r, "failed"))
  BY <1>1, EndOK DEF Answers
<1>6. call' = [call EXCEPT ![c] = Admitted(r)] \/ call' = [call EXCEPT ![c] = End(r, "failed")]
  BY DEF Accepted
<1>. HIDE DEF r
<1>. QED
  BY <1>3, <1>4, <1>5, <1>6, CallStep

\* promptProgress looks the slot up once more; it keeps the runtime that
\* admitted it.
LEMMA AttachKeeps ==
  ASSUME SessionInv, NEW c \in Calls, Attach(c)
  PROVE  SessionInv'
<1>. DEFINE r == call[c]
<1>1. /\ r \in Call /\ r.pc = "attach" /\ Backed(r)
      /\ r.rt \in Runtimes /\ phase[r.rt] \in Opened
  BY CallFacts DEF Attach, CallOK
<1>2. UNCHANGED <<accepting, slot, runtimes, crashes>>
  BY DEF Attach
<1>3. CASE slot.tag = "active"
  <2>. DEFINE s == [r EXCEPT !.pc = "follow"]
  <2>1. call' = [call EXCEPT ![c] = s]
    BY <1>3 DEF Attach
  <2>. HIDE DEF r
  <2>2. s \in Call /\ s.pc = "follow" /\ s.rt = r.rt /\ s.req = r.req /\ s.pay = r.pay
    BY <1>1 DEF Call
  <2>. HIDE DEF s
  <2>3. CallOK(s)
    BY <1>1, <2>2 DEF CallOK, ToldTrue, Backed
  <2>. QED
    BY <1>2, <2>1, <2>2, <2>3, CallStep
<1>4. CASE slot.tag = "starting"
  <2>. DEFINE e == slot.rt
              s == [r EXCEPT !.pc = "attaching", !.on = e]
  <2>0. e \in Runtimes /\ e \in 0 .. MaxRuntimes
    BY <1>4 DEF SessionInv, TypeOK, Slot, Runtimes
  <2>1. call' = [call EXCEPT ![c] = s]
    BY <1>4 DEF Attach
  <2>. HIDE DEF r, e
  <2>2. /\ s \in Call /\ s.pc = "attaching" /\ s.rt = r.rt /\ s.req = r.req /\ s.pay = r.pay
        /\ s.on = e
    BY <1>1, <2>0 DEF Call
  <2>. HIDE DEF s
  <2>3. CallOK(s)
    BY <1>1, <2>0, <2>2 DEF CallOK, ToldTrue, Backed
  <2>. QED
    BY <1>2, <2>1, <2>2, <2>3, CallStep
<1>5. CASE slot.tag \notin {"active", "starting"}
  <2>1. call' = [call EXCEPT ![c] = End(r, "missing")]
    BY <1>5 DEF Attach
  <2>. HIDE DEF r
  <2>2. End(r, "missing") \in Call /\ CallOK(End(r, "missing"))
    BY <1>1, EndOK DEF Answers
  <2>. QED
    BY <1>2, <2>1, <2>2, CallStep
<1>. QED
  BY <1>3, <1>4, <1>5

\* A call that comes back from the attachment of its session.
LEMMA AttachedKeeps ==
  ASSUME SessionInv, NEW c \in Calls, Attached(c)
  PROVE  SessionInv'
<1>. DEFINE r == call[c]
            s == [r EXCEPT !.pc = "follow", !.on = 0]
<1>1. /\ r \in Call /\ r.pc = "attaching" /\ Backed(r)
      /\ r.rt \in Runtimes /\ phase[r.rt] \in Opened
  BY CallFacts DEF Attached, CallOK
<1>2. UNCHANGED <<accepting, slot, runtimes, crashes>>
  BY DEF Attached
<1>3. call' = [call EXCEPT ![c] = s] \/ call' = [call EXCEPT ![c] = End(r, "failed")]
  BY DEF Attached
<1>. HIDE DEF r
<1>4. s \in Call /\ s.pc = "follow" /\ s.rt = r.rt /\ s.req = r.req /\ s.pay = r.pay
  BY <1>1, NoRuntimeYet DEF Call
<1>. HIDE DEF s
<1>5. CallOK(s)
  BY <1>1, <1>4 DEF CallOK, ToldTrue, Backed
<1>6. End(r, "failed") \in Call /\ CallOK(End(r, "failed"))
  BY <1>1, EndOK DEF Answers
<1>. QED
  BY <1>2, <1>3, <1>4, <1>5, <1>6, CallStep

\* A completion that the runtime knows of is that of the call's own input.
LEMMA FollowKeeps ==
  ASSUME SessionInv, NEW c \in Calls, Follow(c)
  PROVE  SessionInv'
<1>. DEFINE r == call[c]
            done == \E x \in View(r.rt) : x.req = r.req /\ x.done
<1>1. /\ r \in Call /\ r.pc = "follow" /\ Backed(r)
      /\ r.rt \in Runtimes /\ phase[r.rt] \in Opened
  BY CallFacts DEF Follow, CallOK
<1>2. UNCHANGED <<accepting, slot, runtimes, crashes>>
  BY DEF Follow
<1>3. call' = [call EXCEPT ![c] = End(r, IF done THEN "completed" ELSE "failed")]
  BY DEF Follow
<1>. HIDE DEF r
<1>4. ASSUME done
      PROVE  \E x \in ledger : x.req = r.req /\ x.pay = r.pay /\ x.done
  <2>1. PICK x \in View(r.rt) : x.req = r.req /\ x.done
    BY <1>4
  <2>2. x.pay = r.pay
    BY <1>1, <2>1 DEF Backed
  <2>. QED
    BY <1>1, <2>1, <2>2, ViewInLedger DEF Extends
<1>5. CASE done
  BY <1>1, <1>2, <1>3, <1>4, <1>5, EndOK, CallStep DEF Answers
<1>6. CASE ~done
  BY <1>1, <1>2, <1>3, <1>6, EndOK, CallStep DEF Answers
<1>. QED
  BY <1>5, <1>6

\* A caller that stops waiting.
LEMMA AbandonKeeps ==
  ASSUME SessionInv, NEW c \in Calls, Abandon(c)
  PROVE  SessionInv'
<1>1. End(call[c], "gone") \in Call /\ CallOK(End(call[c], "gone"))
  BY CallFacts, EndOK DEF Answers
<1>. QED
  BY <1>1, CallStep DEF Abandon

\* A restart that goes on when the old runtime is closed.
LEMMA ClosedKeeps ==
  ASSUME SessionInv, NEW c \in Calls, Closed(c)
  PROVE  SessionInv'
<1>. DEFINE r == [call[c] EXCEPT !.pc = "start", !.rt = 0]
<1>1. r \in Call /\ r.pc = "start"
  BY CallFacts, NoRuntimeYet DEF Call
<1>2. call' = [call EXCEPT ![c] = r]
  BY DEF Closed
<1>. HIDE DEF r
<1>3. CallOK(r)
  BY <1>1 DEF CallOK, ToldTrue
<1>. QED
  BY <1>1, <1>2, <1>3, CallStep DEF Closed

-----------------------------------------------------------------------------
(* Steps of a runtime *)

\* The phases a runtime goes through short of its end.
Moves ==
  \A e \in Runtimes :
    \/ phase'[e] = phase[e]
    \/ phase[e] = "unused" /\ phase'[e] = "creating"
    \/ Coming(e) /\ phase'[e] = "failed"
    \/ phase[e] = "loaded" /\ phase'[e] = "open"
    \/ phase[e] = "open" /\ phase'[e] = "draining"
    \/ phase[e] = "draining" /\ phase'[e] = "disposing"

\* A step that only moves phases keeps what the runtimes know and ran.
LEMMA PhaseStep ==
  ASSUME SessionInv, Moves, UNCHANGED <<op, seen, ledger, ran, overlap>>
  PROVE  LedgerInv' /\ RanInv' /\ Grows
<1>1. \A e \in Runtimes : phase[e] \in Opened => phase'[e] \in Opened
  BY DEF Moves, Coming, Opened
<1>2. \A e \in Runtimes : HasLoaded(e)' => HasLoaded(e)
  BY DEF Moves, Coming, HasLoaded, Opened
<1>3. \A e \in Runtimes : /\ phase[e] = "closed" => phase'[e] = "closed"
                          /\ phase[e] = "failed" => phase'[e] = "failed"
  BY DEF Moves, Coming
<1>4. LedgerInv'
  <2>1. \A e \in Runtimes : phase[e] \in {"open", "draining", "disposing"}
                            => phase'[e] \in {"open", "draining", "disposing"}
    BY DEF Moves, Coming
  <2>2. \A r \in ledger : r.rt \in Runtimes
    BY DEF SessionInv, TypeOK, Record
  <2>. QED
    BY <1>1, <2>1, <2>2 DEF SessionInv, LedgerInv
<1>5. RanInv'
  <2>1. \A d, e \in Runtimes : d < e /\ HasLoaded(e)' /\ d \notin overlap[e] =>
         /\ phase'[d] \in {"closed", "failed"}
         /\ \A q \in Requests : <<q, d>> \in ran => \E s \in seen[e] : s.req = q
    BY <1>2, <1>3 DEF SessionInv, RanInv
  <2>. QED
    BY <2>1 DEF SessionInv, RanInv
<1>6. Grows
  BY <1>1 DEF Grows, View, Extends
<1>. QED
  BY <1>4, <1>5, <1>6

\* A call that takes the place of its session for a new runtime.
LEMMA StartKeeps ==
  ASSUME SessionInv, NEW c \in Calls, Start(c)
  PROVE  SessionInv'
<1>. DEFINE r == call[c]
<1>0. r \in Call /\ UNCHANGED <<accepting, op, seen, ledger, ran, overlap, crashes>>
  BY CallFacts DEF Start
<1>1. CASE call' = [call EXCEPT ![c] = End(r, "rejected")] /\ UNCHANGED <<slot, phase>>
  BY <1>0, <1>1, EndOK, CallStep DEF Answers, runtimes
<1>2. CASE call' = [call EXCEPT ![c] = Started(r)] /\ UNCHANGED <<slot, phase>>
  BY <1>0, <1>2, StartedOK, CallStep DEF runtimes
<1>3. CASE /\ slot.tag = "starting" /\ UNCHANGED <<slot, phase>>
           /\ call' = [call EXCEPT ![c].pc = "wait", ![c].on = slot.rt]
  <2>. DEFINE e == slot.rt
              s == [r EXCEPT !.pc = "wait", !.on = e]
  <2>0. e \in Runtimes /\ e \in 0 .. MaxRuntimes
    BY <1>3 DEF SessionInv, TypeOK, Slot, Runtimes
  <2>1. call' = [call EXCEPT ![c] = s]
    BY <1>3
  <2>. HIDE DEF r, e
  <2>2. s \in Call /\ s.pc = "wait" /\ s.on = e
    BY <1>0, <2>0 DEF Call
  <2>. HIDE DEF s
  <2>3. CallOK(s)
    BY <2>0, <2>2 DEF CallOK, ToldTrue
  <2>. QED
    BY <1>0, <1>3, <2>1, <2>2, <2>3, CallStep DEF runtimes
<1>4. ASSUME NEW e \in Runtimes, accepting, slot.tag = "none",
             phase[e] = "unused", \A d \in 1 .. e - 1 : phase[d] # "unused",
             slot' = [tag |-> "starting", rt |-> e],
             phase' = [phase EXCEPT ![e] = "creating"],
             call' = [call EXCEPT ![c].pc = "wait", ![c].on = e]
      PROVE  SessionInv'
  <2>0. e \in 0 .. MaxRuntimes
    BY DEF Runtimes
  <2>1. \E s \in Call : s.pc = "wait" /\ s.on = e /\ call' = [call EXCEPT ![c] = s]
    <3>. DEFINE s == [r EXCEPT !.pc = "wait", !.on = e]
    <3>1. call' = [call EXCEPT ![c] = s]
      BY <1>4
    <3>. HIDE DEF r
    <3>2. s \in Call /\ s.pc = "wait" /\ s.on = e
      BY <1>0, <2>0 DEF Call
    <3>. HIDE DEF s
    <3>. QED
      BY <3>1, <3>2
  <2>2. PICK s \in Call : s.pc = "wait" /\ s.on = e /\ call' = [call EXCEPT ![c] = s]
    BY <2>1
  <2>3. CallOK(s)'
    BY <1>4, <2>2 DEF CallOK, ToldTrue
  <2>4. phase' \in [Runtimes -> Phases] /\ Moves
    BY <1>4 DEF SessionInv, TypeOK, Phases, Moves
  <2>5. LedgerInv' /\ RanInv' /\ Grows
    BY <1>0, <2>4, PhaseStep
  <2>6. CallInv'
    BY <2>2, <2>3, <2>5, CallChanges
  <2>7. TypeOK'
    <3>1. slot' \in Slot
      BY <1>4 DEF Slot
    <3>2. call' \in [Calls -> Call]
      BY <2>2 DEF SessionInv, TypeOK
    <3>. QED
      BY <1>0, <2>4, <3>1, <3>2 DEF SessionInv, TypeOK
  <2>8. TableInv'
    <3>1. /\ phase'[e] = "creating"
          /\ \A d \in Runtimes : d # e => phase'[d] = phase[d]
      BY <1>4 DEF SessionInv, TypeOK
    <3>2. \A d \in Runtimes : ~Coming(d)
      BY <1>4 DEF SessionInv, TypeOK, TableInv, TableIsLive, Coming
    <3>3. \A d \in Runtimes : phase[d] # "open"
      BY <1>4 DEF SessionInv, TypeOK, TableInv, TableIsLive
    <3>4. \A d \in Runtimes : d < e => phase[d] # "unused"
      BY <1>4 DEF Runtimes
    <3>5. \A d, f \in Runtimes : d < f /\ phase'[f] # "unused" => phase'[d] # "unused"
      BY <3>1, <3>4 DEF SessionInv, TableInv
    <3>6. \A d, f \in Runtimes : Coming(d)' /\ Coming(f)' => d = f
      BY <3>1, <3>2 DEF Coming
    <3>7. TableIsLive'
      BY <1>0, <1>4, <3>1, <3>2, <3>3 DEF TableIsLive, Coming
    <3>. QED
      BY <3>5, <3>6, <3>7 DEF TableInv
  <2>. QED
    BY <2>5, <2>6, <2>7, <2>8 DEF SessionInv
<1>. QED
  BY <1>1, <1>2, <1>3, <1>4 DEF Start

\* A runtime reads the file: what is recorded of it later, it will know, and
\* what was executed before by a runtime that no longer runs, it sees.
LEMMA LoadKeeps ==
  ASSUME SessionInv, NEW e \in Runtimes, Load(e)
  PROVE  SessionInv'
<1>0. /\ phase[e] = "creating" /\ phase' = [phase EXCEPT ![e] = "loaded"]
      /\ seen' = [seen EXCEPT ![e] = ledger]
      /\ overlap' = [overlap EXCEPT ![e] =
           {d \in Runtimes : phase[d] \in {"open", "draining", "disposing"}}]
      /\ UNCHANGED <<accepting, slot, op, ledger, call, ran, crashes>>
  BY DEF Load
<1>1. /\ phase'[e] = "loaded" /\ \A d \in Runtimes : d # e => phase'[d] = phase[d]
      /\ seen'[e] = ledger /\ \A d \in Runtimes : d # e => seen'[d] = seen[d]
      /\ overlap'[e] = {d \in Runtimes : phase[d] \in {"open", "draining", "disposing"}}
      /\ \A d \in Runtimes : d # e => overlap'[d] = overlap[d]
  BY <1>0 DEF SessionInv, TypeOK
<1>2. \A r \in ledger : r \in Record /\ r.rt \in Runtimes /\ r.rt # e
  BY <1>0 DEF SessionInv, TypeOK, LedgerInv, Record, Opened
<1>3. TypeOK'
  BY <1>0, <1>2 DEF SessionInv, TypeOK, Phases
<1>4. TableInv'
  BY <1>0, <1>1 DEF SessionInv, TableInv, TableIsLive, Coming
<1>5. LedgerInv'
  <2>1. \A d \in Runtimes : op[d].stage \in Live => d # e
    BY <1>0 DEF SessionInv, LedgerInv
  <2>2. \A d \in Runtimes : op[d].stage \in Live =>
          /\ phase'[d] \in {"open", "draining", "disposing"}
          /\ \E r \in ledger : r.rt = d /\ r.req = op[d].req /\ ~r.done
    BY <1>1, <2>1 DEF SessionInv, LedgerInv
  <2>3. \A r \in ledger : phase'[r.rt] \in Opened /\ \A s \in seen'[r.rt] : s.req # r.req
    BY <1>1, <1>2 DEF SessionInv, LedgerInv
  <2>4. \A d \in Runtimes : \A s \in seen'[d] : \E r \in ledger : Extends(s, r)
    BY <1>1 DEF SessionInv, LedgerInv, Extends
  <2>. QED
    BY <1>0, <2>2, <2>3, <2>4 DEF LedgerInv
<1>6. RanInv'
  <2>1. \A q \in Requests, d \in Runtimes : <<q, d>> \in ran => \E r \in ledger : r.req = q /\ r.rt = d
    BY DEF SessionInv, RanInv
  <2>. SUFFICES ASSUME NEW d \in Runtimes, NEW f \in Runtimes,
                       d < f, HasLoaded(f)', d \notin overlap'[f]
                PROVE  /\ phase'[d] \in {"closed", "failed"}
                       /\ \A q \in Requests : <<q, d>> \in ran => \E s \in seen'[f] : s.req = q
    BY <1>0, <2>1 DEF RanInv
  <2>2. CASE f = e
    <3>1. d # e
      BY <2>2 DEF Runtimes
    <3>2. phase[d] \notin {"unused", "creating", "loaded", "open", "draining", "disposing"}
      BY <1>0, <1>1, <2>2, <3>1 DEF SessionInv, TableInv, Coming
    <3>3. phase[d] \in {"closed", "failed"}
      BY <3>2 DEF SessionInv, TypeOK, Phases
    <3>4. \A q \in Requests : <<q, d>> \in ran => \E s \in seen'[f] : s.req = q
      BY <1>1, <2>1, <2>2
    <3>. QED
      BY <1>1, <3>1, <3>3, <3>4
  <2>3. CASE f # e
    <3>1. HasLoaded(f) /\ d \notin overlap[f] /\ seen'[f] = seen[f]
      BY <1>1, <2>3 DEF HasLoaded
    <3>2. /\ phase[d] \in {"closed", "failed"}
          /\ \A q \in Requests : <<q, d>> \in ran => \E s \in seen[f] : s.req = q
      BY <3>1 DEF SessionInv, RanInv
    <3>3. d # e
      BY <1>0, <3>2
    <3>. QED
      BY <1>1, <3>1, <3>2, <3>3
  <2>. QED
    BY <2>2, <2>3
<1>7. Grows
  <2>1. \A d \in Runtimes : phase[d] \in Opened => d # e
    BY <1>0 DEF Opened
  <2>. QED
    BY <1>0, <1>1, <2>1 DEF Grows, View, Extends
<1>8. CallInv'
  BY <1>0, <1>7, CallsStable
<1>. QED
  BY <1>3, <1>4, <1>5, <1>6, <1>8 DEF SessionInv

\* A start that finds its reserved slot fills it.
LEMMA InstallKeeps ==
  ASSUME SessionInv, NEW e \in Runtimes, Install(e)
  PROVE  SessionInv'
<1>0. /\ phase[e] = "loaded" /\ accepting /\ slot = [tag |-> "starting", rt |-> e]
      /\ slot' = [tag |-> "active", rt |-> e]
      /\ phase' = [phase EXCEPT ![e] = "open"]
      /\ UNCHANGED <<accepting, op, seen, ledger, call, ran, overlap, crashes>>
  BY DEF Install, Installable
<1>1. phase'[e] = "open" /\ \A d \in Runtimes : d # e => phase'[d] = phase[d]
  BY <1>0 DEF SessionInv, TypeOK
<1>2. LedgerInv' /\ RanInv' /\ Grows
  BY <1>0, <1>1, PhaseStep DEF Moves
<1>3. TypeOK'
  <2>1. slot' \in Slot
    BY <1>0 DEF Slot
  <2>. QED
    BY <1>0, <2>1 DEF SessionInv, TypeOK, Phases
<1>4. TableInv'
  <2>1. \A d \in Runtimes : d # e => ~Coming(d)
    BY <1>0 DEF SessionInv, TableInv, Coming
  <2>2. \A d \in Runtimes : phase[d] # "open"
    BY <1>0 DEF SessionInv, TableInv, TableIsLive
  <2>3. TableIsLive'
    BY <1>0, <1>1, <2>1, <2>2 DEF TableIsLive, Coming
  <2>. QED
    BY <1>0, <1>1, <2>1, <2>3 DEF SessionInv, TableInv, Coming
<1>5. CallInv'
  BY <1>0, <1>2, CallsStable
<1>. QED
  BY <1>2, <1>3, <1>4, <1>5 DEF SessionInv

\* A start that fails gives the slot back that was reserved for it, if it
\* still is.
LEMMA StartFailsKeeps ==
  ASSUME SessionInv, NEW e \in Runtimes, StartFails(e)
  PROVE  SessionInv'
<1>0. /\ Coming(e) /\ phase' = [phase EXCEPT ![e] = "failed"]
      /\ slot' = IF slot = [tag |-> "starting", rt |-> e] THEN Free ELSE slot
      /\ UNCHANGED <<accepting, op, seen, ledger, call, ran, overlap, crashes>>
  BY DEF StartFails, Coming
<1>1. phase'[e] = "failed" /\ \A d \in Runtimes : d # e => phase'[d] = phase[d]
  BY <1>0 DEF SessionInv, TypeOK
<1>2. LedgerInv' /\ RanInv' /\ Grows
  BY <1>0, <1>1, PhaseStep DEF Moves
<1>3. TypeOK'
  <2>1. slot' \in Slot
    BY <1>0 DEF SessionInv, TypeOK, Slot, Free
  <2>. QED
    BY <1>0, <2>1 DEF SessionInv, TypeOK, Phases
<1>4. TableInv'
  <2>1. \A d \in Runtimes : d # e => ~Coming(d)
    BY <1>0 DEF SessionInv, TableInv
  <2>2. accepting => slot = [tag |-> "starting", rt |-> e]
    BY <1>0 DEF SessionInv, TableInv, TableIsLive, Coming
  <2>3. ~accepting => slot = Free
    BY DEF SessionInv, TableInv, TableIsLive
  <2>4. slot' = Free
    BY <1>0, <2>2, <2>3
  <2>5. \A d \in Runtimes : phase[d] # "open"
    BY <2>2, <2>3 DEF SessionInv, TableInv, TableIsLive, Free
  <2>6. TableIsLive'
    BY <1>0, <1>1, <2>1, <2>4, <2>5 DEF TableIsLive, Coming, Free
  <2>. QED
    BY <1>0, <1>1, <2>1, <2>6 DEF SessionInv, TableInv, Coming
<1>5. CallInv'
  BY <1>0, <1>2, CallsStable
<1>. QED
  BY <1>2, <1>3, <1>4, <1>5 DEF SessionInv

\* The first finalizer of a runtime frees the slot that names it.
LEMMA ClosingKeeps ==
  ASSUME SessionInv, NEW e \in Runtimes, phase[e] = "open",
         phase' = [phase EXCEPT ![e] = "draining"], slot' = Released(e),
         UNCHANGED <<accepting, op, seen, ledger, ran, overlap, crashes>>
  PROVE  /\ slot' \in Slot /\ phase' \in [Runtimes -> Phases]
         /\ TableInv' /\ LedgerInv' /\ RanInv' /\ Grows
<1>1. phase'[e] = "draining" /\ \A d \in Runtimes : d # e => phase'[d] = phase[d]
  BY DEF SessionInv, TypeOK
<1>2. LedgerInv' /\ RanInv' /\ Grows
  BY <1>1, PhaseStep DEF Moves
<1>3. slot = [tag |-> "active", rt |-> e] /\ slot' = Free /\ accepting
  BY DEF SessionInv, TableInv, TableIsLive, Released, Free
<1>4. slot' \in Slot /\ phase' \in [Runtimes -> Phases]
  BY <1>3 DEF Slot, Free, SessionInv, TypeOK, Phases
<1>5. TableInv'
  <2>1. \A d \in Runtimes : ~Coming(d) /\ (d # e => phase[d] # "open")
    BY <1>3 DEF SessionInv, TableInv, TableIsLive, Coming
  <2>2. TableIsLive'
    BY <1>1, <1>3, <2>1 DEF TableIsLive, Coming, Free
  <2>. QED
    BY <1>1, <2>1, <2>2 DEF SessionInv, TableInv, Coming
<1>. QED
  BY <1>2, <1>4, <1>5

\* A runtime that is closed: ten minutes without an event, changed packages, a fork or a
\* removal.
LEMMA CloseKeeps ==
  ASSUME SessionInv, NEW e \in Runtimes, Close(e)
  PROVE  SessionInv'
<1>1. /\ slot' \in Slot /\ phase' \in [Runtimes -> Phases]
      /\ TableInv' /\ LedgerInv' /\ RanInv' /\ Grows
  BY ClosingKeeps DEF Close
<1>2. UNCHANGED <<accepting, op, seen, ledger, call, ran, overlap, crashes>>
  BY DEF Close
<1>. QED
  BY <1>1, <1>2, CallsStable DEF SessionInv, TypeOK

\* A restart waits for the runtime that it closes itself.
LEMMA RestartKeeps ==
  ASSUME SessionInv, NEW c \in Calls, Restart(c)
  PROVE  SessionInv'
<1>. DEFINE r == call[c]
            e == r.rt
<1>0. /\ r \in Call /\ e \in Runtimes /\ phase[e] \in Opened
      /\ UNCHANGED <<accepting, op, seen, ledger, ran, overlap, crashes>>
  BY CallFacts DEF Restart, CallOK
<1>1. CASE /\ phase[e] = "open" /\ phase' = [phase EXCEPT ![e] = "draining"]
           /\ slot' = Released(e)
           /\ call' = [call EXCEPT ![c].pc = "closing"]
  <2>1. /\ slot' \in Slot /\ phase' \in [Runtimes -> Phases]
        /\ TableInv' /\ LedgerInv' /\ RanInv' /\ Grows
    BY <1>0, <1>1, ClosingKeeps
  <2>2. \E s \in Call : /\ s.pc = "closing" /\ s.rt = e
                        /\ call' = [call EXCEPT ![c] = s]
    <3>. DEFINE s == [r EXCEPT !.pc = "closing"]
    <3>1. call' = [call EXCEPT ![c] = s]
      BY <1>1
    <3>2. s \in Call /\ s.pc = "closing" /\ s.rt = e
      BY <1>0 DEF Call
    <3>. HIDE DEF s
    <3>. QED
      BY <3>1, <3>2
  <2>3. PICK s \in Call : s.pc = "closing" /\ s.rt = e /\ call' = [call EXCEPT ![c] = s]
    BY <2>2
  <2>4. s.rt \in Runtimes /\ phase'[s.rt] \in Opened
    BY <1>0, <2>1, <2>3 DEF Grows
  <2>5. CallOK(s)'
    BY <2>3, <2>4 DEF CallOK, ToldTrue
  <2>6. CallInv'
    BY <2>1, <2>3, <2>5, CallChanges
  <2>7. call' \in [Calls -> Call]
    BY <2>3 DEF SessionInv, TypeOK
  <2>. QED
    BY <1>0, <2>1, <2>6, <2>7 DEF SessionInv, TypeOK
<1>2. CASE /\ UNCHANGED <<phase, slot>>
           /\ call' = [call EXCEPT ![c].pc = "start", ![c].rt = 0]
  <2>. DEFINE s == [r EXCEPT !.pc = "start", !.rt = 0]
  <2>1. call' = [call EXCEPT ![c] = s]
    BY <1>2
  <2>2. s \in Call /\ s.pc = "start"
    BY <1>0, NoRuntimeYet DEF Call
  <2>. HIDE DEF s
  <2>3. CallOK(s)
    BY <2>2 DEF CallOK, ToldTrue
  <2>. QED
    BY <1>0, <1>2, <2>1, <2>2, <2>3, CallStep DEF runtimes
<1>. QED
  BY <1>1, <1>2 DEF Restart

\* The runtime has no operation any more: it goes on to close.
LEMMA DrainKeeps ==
  ASSUME SessionInv, NEW e \in Runtimes, Drain(e)
  PROVE  SessionInv'
<1>0. /\ phase[e] = "draining" /\ phase' = [phase EXCEPT ![e] = "disposing"]
      /\ UNCHANGED <<accepting, slot, op, seen, ledger, call, ran, overlap, crashes>>
  BY DEF Drain
<1>1. phase'[e] = "disposing" /\ \A d \in Runtimes : d # e => phase'[d] = phase[d]
  BY <1>0 DEF SessionInv, TypeOK
<1>2. LedgerInv' /\ RanInv' /\ Grows
  BY <1>0, <1>1, PhaseStep DEF Moves
<1>3. TypeOK'
  BY <1>0 DEF SessionInv, TypeOK, Phases
<1>4. TableInv'
  BY <1>0, <1>1 DEF SessionInv, TableInv, TableIsLive, Coming
<1>5. CallInv'
  BY <1>0, <1>2, CallsStable
<1>. QED
  BY <1>2, <1>3, <1>4, <1>5 DEF SessionInv

\* Once a runtime is closed nothing executes on it.
LEMMA DisposeKeeps ==
  ASSUME SessionInv, NEW e \in Runtimes, Dispose(e)
  PROVE  SessionInv'
<1>0. /\ phase[e] = "disposing" /\ phase' = [phase EXCEPT ![e] = "closed"]
      /\ op' = [op EXCEPT ![e] = Idle]
      /\ UNCHANGED <<accepting, slot, seen, ledger, call, ran, overlap, crashes>>
  BY DEF Dispose
<1>1. /\ phase'[e] = "closed" /\ \A d \in Runtimes : d # e => phase'[d] = phase[d]
      /\ op'[e] = Idle /\ \A d \in Runtimes : d # e => op'[d] = op[d]
  BY <1>0 DEF SessionInv, TypeOK
<1>2. TypeOK'
  BY <1>0 DEF SessionInv, TypeOK, Phases, Operation, Idle, Stages
<1>3. TableInv'
  BY <1>0, <1>1 DEF SessionInv, TableInv, TableIsLive, Coming
<1>4. LedgerInv'
  <2>1. \A r \in ledger : phase'[r.rt] \in Opened
    BY <1>0, <1>1 DEF SessionInv, TypeOK, Record, LedgerInv, Opened
  <2>. QED
    BY <1>0, <1>1, <2>1 DEF SessionInv, LedgerInv, Idle, Live
<1>5. RanInv'
  <2>1. \A d \in Runtimes : HasLoaded(d)' => HasLoaded(d)
    BY <1>0, <1>1 DEF HasLoaded, Opened
  <2>2. \A d \in Runtimes : phase[d] \in {"closed", "failed"} => phase'[d] \in {"closed", "failed"}
    BY <1>1
  <2>. QED
    BY <1>0, <2>1, <2>2 DEF SessionInv, RanInv
<1>6. Grows
  BY <1>0, <1>1 DEF Grows, View, Extends, Opened
<1>7. CallInv'
  BY <1>0, <1>6, CallsStable
<1>. QED
  BY <1>2, <1>3, <1>4, <1>5, <1>7 DEF SessionInv

-----------------------------------------------------------------------------
(* Operations *)

\* An operation that ends, or one that is no prompt, leaves the ledger alone.
LEMMA SlotStep ==
  ASSUME SessionInv, NEW e \in Runtimes, NEW o \in Operation, o.stage \notin Live,
         op' = [op EXCEPT ![e] = o],
         UNCHANGED <<accepting, slot, phase, seen, ledger, ran, overlap, crashes>>
  PROVE  op' \in [Runtimes -> Operation] /\ TableInv' /\ LedgerInv' /\ RanInv' /\ Grows
<1>1. op' \in [Runtimes -> Operation]
  BY DEF SessionInv, TypeOK
<1>2. TableInv'
  BY DEF SessionInv, TableInv, TableIsLive, Coming
<1>3. LedgerInv'
  <2>1. \A d \in Runtimes : op'[d] = IF d = e THEN o ELSE op[d]
    BY DEF SessionInv, TypeOK
  <2>. QED
    BY <2>1 DEF SessionInv, LedgerInv
<1>4. RanInv'
  BY DEF SessionInv, RanInv, HasLoaded
<1>. QED
  BY <1>1, <1>2, <1>3, <1>4, SameRuntimesGrow

\* Compaction or a shell command takes the operation slot if it is free.
LEMMA OperateKeeps ==
  ASSUME SessionInv, NEW c \in Calls, Operate(c)
  PROVE  SessionInv'
<1>. DEFINE e == call[c].rt
            o == [Idle EXCEPT !.stage = IF phase[e] = "closed" THEN "dead" ELSE "other"]
<1>0. /\ e \in Runtimes
      /\ UNCHANGED <<accepting, slot, phase, seen, ledger, ran, overlap, crashes>>
  BY CallFacts DEF Operate, CallOK
<1>1. CASE call' = [call EXCEPT ![c] = End(call[c], "busy")] /\ UNCHANGED op
  BY <1>0, <1>1, CallFacts, EndOK, CallStep DEF Answers, runtimes
<1>2. CASE op' = [op EXCEPT ![e] = o] /\ call' = [call EXCEPT ![c] = End(call[c], "ok")]
  <2>1. o \in Operation /\ o.stage \notin Live
    BY DEF Operation, Idle, Stages, Live
  <2>. HIDE DEF o
  <2>2. op' \in [Runtimes -> Operation] /\ TableInv' /\ LedgerInv' /\ RanInv' /\ Grows
    BY <1>0, <1>2, <2>1, SlotStep
  <2>3. \E s \in Call : CallOK(s) /\ call' = [call EXCEPT ![c] = s]
    BY <1>2, CallFacts, EndOK DEF Answers
  <2>4. PICK s \in Call : CallOK(s) /\ call' = [call EXCEPT ![c] = s]
    BY <2>3
  <2>5. CallInv'
    BY <2>2, <2>4, CallOKStable, CallChanges
  <2>6. call' \in [Calls -> Call]
    BY <2>4 DEF SessionInv, TypeOK
  <2>. QED
    BY <1>0, <2>2, <2>5, <2>6 DEF SessionInv, TypeOK
<1>. QED
  BY <1>1, <1>2 DEF Operate

\* An operation that ends.
LEMMA EndOperationKeeps ==
  ASSUME SessionInv, NEW e \in Runtimes, EndOperation(e)
  PROVE  SessionInv'
<1>1. Idle \in Operation /\ Idle.stage \notin Live
  BY DEF Idle, Operation, Stages, Live
<1>2. op' \in [Runtimes -> Operation] /\ TableInv' /\ LedgerInv' /\ RanInv' /\ Grows
  BY <1>1, SlotStep DEF EndOperation
<1>3. CallInv'
  BY <1>2, CallsStable DEF EndOperation
<1>. QED
  BY <1>2, <1>3 DEF EndOperation, SessionInv, TypeOK

\* A prompt that is accepted has its record, and its runtime still runs.
LEMMA AcceptKeeps ==
  ASSUME SessionInv, NEW e \in Runtimes, Accept(e)
  PROVE  SessionInv'
<1>. DEFINE o == [op[e] EXCEPT !.stage = "accepted"]
<1>0. /\ op[e].stage = "begun" /\ op' = [op EXCEPT ![e] = o]
      /\ ran' = ran \cup {<<op[e].req, e>>}
      /\ UNCHANGED <<accepting, slot, phase, seen, ledger, call, overlap, crashes>>
  BY DEF Accept
<1>1. /\ o \in Operation /\ o.req = op[e].req
      /\ \A d \in Runtimes : op'[d] = IF d = e THEN o ELSE op[d]
  BY <1>0 DEF SessionInv, TypeOK, Operation, Stages
<1>2. /\ phase[e] \in {"open", "draining", "disposing"}
      /\ \E r \in ledger : r.rt = e /\ r.req = op[e].req /\ ~r.done
  BY <1>0 DEF SessionInv, LedgerInv, Live
<1>3. op[e].req \in Requests
  BY <1>2 DEF SessionInv, TypeOK, Record
<1>4. TypeOK'
  BY <1>0, <1>1, <1>3 DEF SessionInv, TypeOK
<1>5. TableInv'
  BY <1>0 DEF SessionInv, TableInv, TableIsLive, Coming
<1>6. LedgerInv'
  <2>1. \A d \in Runtimes : op'[d].stage \in Live =>
          /\ phase[d] \in {"open", "draining", "disposing"}
          /\ \E r \in ledger : r.rt = d /\ r.req = op'[d].req /\ ~r.done
    <3>. TAKE d \in Runtimes
    <3>1. CASE d = e
      <4>1. op'[d].req = op[e].req
        BY <1>1, <3>1
      <4>. QED
        BY <1>2, <3>1, <4>1
    <3>2. CASE d # e
      <4>1. op'[d] = op[d]
        BY <1>1, <3>2
      <4>. QED
        BY <4>1 DEF SessionInv, LedgerInv
    <3>. QED
      BY <3>1, <3>2
  <2>. QED
    BY <1>0, <2>1 DEF SessionInv, LedgerInv
<1>7. RanInv'
  <2>1. \A q \in Requests, d \in Runtimes : <<q, d>> \in ran' => \E r \in ledger : r.req = q /\ r.rt = d
    BY <1>0, <1>2 DEF SessionInv, RanInv
  <2>2. \A d, f \in Runtimes :
          d < f /\ HasLoaded(f) /\ d \notin overlap[f] =>
            /\ phase[d] \in {"closed", "failed"}
            /\ \A q \in Requests : <<q, d>> \in ran' => \E s \in seen[f] : s.req = q
    <3>. SUFFICES ASSUME NEW d \in Runtimes, NEW f \in Runtimes,
                         d < f, HasLoaded(f), d \notin overlap[f]
                  PROVE  /\ phase[d] \in {"closed", "failed"}
                         /\ \A q \in Requests : <<q, d>> \in ran' => \E s \in seen[f] : s.req = q
      OBVIOUS
    <3>1. /\ phase[d] \in {"closed", "failed"}
          /\ \A q \in Requests : <<q, d>> \in ran => \E s \in seen[f] : s.req = q
      BY DEF SessionInv, RanInv
    <3>2. d # e
      BY <1>2, <3>1
    <3>. QED
      BY <1>0, <3>1, <3>2
  <2>. QED
    BY <1>0, <2>1, <2>2 DEF RanInv, HasLoaded
<1>8. Grows
  BY <1>0, SameRuntimesGrow
<1>9. CallInv'
  BY <1>0, <1>8, CallsStable
<1>. QED
  BY <1>4, <1>5, <1>6, <1>7, <1>9 DEF SessionInv

\* The Completed entry of a prompt changes its record and no other.
LEMMA CompleteKeeps ==
  ASSUME SessionInv, NEW e \in Runtimes, Complete(e)
  PROVE  SessionInv'
<1>. DEFINE Mine(x) == x.rt = e /\ x.req = op[e].req
            Done(x) == IF Mine(x) THEN [x EXCEPT !.done = TRUE] ELSE x
<1>0. /\ op[e].stage = "accepted" /\ op' = [op EXCEPT ![e] = Idle]
      /\ ledger' = {Done(x) : x \in ledger}
      /\ UNCHANGED <<accepting, slot, phase, seen, call, ran, overlap, crashes>>
  BY DEF Complete
<1>1. \A x \in ledger : /\ x \in Record /\ Done(x) \in Record
                        /\ Extends(x, Done(x)) /\ (~Mine(x) => Done(x) = x)
  <2>. TAKE x \in ledger
  <2>1. x \in Record
    BY DEF SessionInv, TypeOK
  <2>2. [x EXCEPT !.done = TRUE] \in Record /\ Extends(x, [x EXCEPT !.done = TRUE])
    BY <2>1 DEF Record, Extends
  <2>3. Extends(x, x)
    BY DEF Extends
  <2>. QED
    BY <2>1, <2>2, <2>3
<1>. HIDE DEF Done
<1>2. /\ \A x \in ledger : Done(x) \in ledger' /\ Extends(x, Done(x))
      /\ \A y \in ledger' : \E x \in ledger : y = Done(x) /\ Extends(x, y)
  BY <1>0, <1>1
<1>3. /\ op'[e] = Idle /\ \A d \in Runtimes : d # e => op'[d] = op[d]
      /\ op' \in [Runtimes -> Operation]
  BY <1>0 DEF SessionInv, TypeOK, Operation, Idle, Stages
<1>4. TypeOK'
  <2>1. ledger' \subseteq Record
    BY <1>0, <1>1
  <2>2. ASSUME NEW y \in ledger', NEW z \in ledger', y.req = z.req, y.rt = z.rt
        PROVE  y = z
    <3>1. PICK x \in ledger, w \in ledger : y = Done(x) /\ Extends(x, y) /\ z = Done(w) /\ Extends(w, z)
      BY <1>2
    <3>2. x.req = w.req /\ x.rt = w.rt
      BY <2>2, <3>1 DEF Extends
    <3>3. x = w
      BY <3>2 DEF SessionInv, TypeOK
    <3>. QED
      BY <3>1, <3>3
  <2>. QED
    BY <1>0, <1>3, <2>1, <2>2 DEF SessionInv, TypeOK
<1>5. TableInv'
  BY <1>0 DEF SessionInv, TableInv, TableIsLive, Coming
<1>6. LedgerInv'
  <2>1. ASSUME NEW d \in Runtimes, op'[d].stage \in Live
        PROVE  /\ phase[d] \in {"open", "draining", "disposing"}
               /\ \E r \in ledger' : r.rt = d /\ r.req = op'[d].req /\ ~r.done
    <3>1. d # e /\ op'[d] = op[d]
      BY <1>3, <2>1 DEF Idle, Live
    <3>2. PICK r \in ledger : r.rt = d /\ r.req = op[d].req /\ ~r.done
      BY <2>1, <3>1 DEF SessionInv, LedgerInv
    <3>3. ~Mine(r)
      BY <3>1, <3>2
    <3>4. Done(r) = r
      BY <1>1, <3>3
    <3>5. r \in ledger'
      BY <1>2, <3>4
    <3>6. phase[d] \in {"open", "draining", "disposing"}
      BY <2>1, <3>1 DEF SessionInv, LedgerInv
    <3>. QED
      BY <3>1, <3>2, <3>5, <3>6
  <2>2. \A y \in ledger' : phase[y.rt] \in Opened /\ \A s \in seen[y.rt] : s.req # y.req
    BY <1>2 DEF SessionInv, LedgerInv, Extends
  <2>3. \A d \in Runtimes : \A s \in seen[d] : \E y \in ledger' : Extends(s, y)
    <3>. TAKE d \in Runtimes
    <3>. TAKE s \in seen[d]
    <3>1. PICK x \in ledger : Extends(s, x)
      BY DEF SessionInv, LedgerInv
    <3>. QED
      BY <1>2, <3>1 DEF Extends
  <2>. QED
    BY <1>0, <2>1, <2>2, <2>3 DEF LedgerInv
<1>7. RanInv'
  <2>1. \A q \in Requests, d \in Runtimes : <<q, d>> \in ran => \E y \in ledger' : y.req = q /\ y.rt = d
    <3>. SUFFICES ASSUME NEW q \in Requests, NEW d \in Runtimes, <<q, d>> \in ran
                  PROVE  \E y \in ledger' : y.req = q /\ y.rt = d
      OBVIOUS
    <3>1. PICK x \in ledger : x.req = q /\ x.rt = d
      BY DEF SessionInv, RanInv
    <3>. QED
      BY <1>2, <3>1 DEF Extends
  <2>. QED
    BY <1>0, <2>1 DEF SessionInv, RanInv, HasLoaded
<1>8. Grows
  <2>1. \A x \in ledger : \E y \in ledger' : Extends(x, y)
    BY <1>2
  <2>2. ASSUME NEW d \in Runtimes, NEW x \in View(d)
        PROVE  \E y \in View(d)' : y.req = x.req
    BY <1>0, <1>2 DEF View, Extends
  <2>3. ASSUME NEW d \in Runtimes, NEW y \in View(d)'
        PROVE  \E x \in View(d) : x.req = y.req /\ x.pay = y.pay
    BY <1>0, <1>2 DEF View, Extends
  <2>. QED
    BY <1>0, <2>1, <2>2, <2>3 DEF Grows
<1>9. CallInv'
  BY <1>0, <1>8, CallsStable
<1>. QED
  BY <1>4, <1>5, <1>6, <1>7, <1>9 DEF SessionInv

\* What the decision about a request says of the records it was taken from.
LEMMA DecideFacts ==
  ASSUME NEW records, NEW req, NEW pay
  PROVE  LET verdict == Decide(records, req, pay)
         IN  /\ verdict \in {"begin", "completed", "inDoubt", "mismatch"}
             /\ verdict = "begin" => \A x \in records : x.req # req
             /\ verdict = "completed" => \E x \in records : x.req = req /\ x.pay = pay /\ x.done
             /\ verdict \in {"completed", "inDoubt"} =>
                  /\ \E x \in records : x.req = req /\ x.pay = pay
                  /\ \A x \in records : x.req = req => x.pay = pay
             /\ verdict = "mismatch" => \E x \in records : x.req = req /\ x.pay # pay
<1>. DEFINE started == {x \in records : x.req = req}
            single == Cardinality(started) = 1
<1>1. Decide(records, req, pay) =
        IF \E x \in started : x.pay # pay THEN "mismatch"
        ELSE IF started = {} THEN "begin"
        ELSE IF single /\ \E x \in started : x.done THEN "completed" ELSE "inDoubt"
  BY DEF Decide
<1>. HIDE DEF single
<1>. QED
  BY <1>1

\* A prompt that is answered without being begun.
LEMMA AdmitAnswers ==
  ASSUME SessionInv, NEW c \in Calls, Admit(c), UNCHANGED <<op, ledger>>
  PROVE  SessionInv'
<1>. DEFINE r == call[c]
            e == r.rt
            rec == [req |-> r.req, pay |-> r.pay, rt |-> e, done |-> FALSE]
            verdict == Decide(View(e), r.req, r.pay)
<1>0. /\ r \in Call /\ e \in Runtimes /\ phase[e] \in Opened /\ r.req \in Requests
      /\ UNCHANGED <<accepting, slot, phase, seen, ran, overlap, crashes>>
  BY CallFacts DEF Admit, CallOK, Call
<1>1. \A x \in View(e) : \E y \in ledger : Extends(x, y)
  BY <1>0, ViewInLedger
<1>2. \/ Executing(e, r.req) /\ rec \in ledger /\ call' = [call EXCEPT ![c] = Admitted(r)]
      \/ Executing(e, r.req) /\ rec \notin ledger /\ call' = [call EXCEPT ![c] = End(r, "mismatch")]
      \/ verdict = "completed" /\ call' = [call EXCEPT ![c] = Admitted(r)]
      \/ verdict = "mismatch" /\ call' = [call EXCEPT ![c] = End(r, "mismatch")]
      \/ verdict = "inDoubt" /\ call' = [call EXCEPT ![c] = End(r, "inDoubt")]
      \/ call' = [call EXCEPT ![c] = End(r, "busy")]
      \/ call' = [call EXCEPT ![c] = End(r, "failed")]
  <2>1. op' = [op EXCEPT ![e] =
             [req |-> r.req, stage |-> IF phase[e] = "closed" THEN "dead" ELSE "begun"]]
        => op[e].stage # "idle"
    BY <1>0 DEF SessionInv, TypeOK
  <2>. HIDE DEF rec, verdict
  <2>. QED
    BY <2>1 DEF Admit, rec, verdict
<1>3. CASE Executing(e, r.req) /\ rec \in ledger /\ call' = [call EXCEPT ![c] = Admitted(r)]
  <2>1. rec \in View(e) /\ rec.req = r.req /\ rec.pay = r.pay
    BY <1>3 DEF View
  <2>2. ASSUME NEW x \in View(e), x.req = r.req
        PROVE  x = rec
    <3>1. x \notin seen[e]
      BY <1>3, <2>2 DEF SessionInv, LedgerInv
    <3>2. x \in ledger /\ x.rt = e
      BY <3>1 DEF View
    <3>3. rec.rt = e
      OBVIOUS
    <3>. HIDE DEF rec
    <3>. QED
      BY <1>3, <2>1, <2>2, <3>2, <3>3 DEF SessionInv, TypeOK
  <2>3. Backed(r)
    BY <1>0, <2>1, <2>2 DEF Backed
  <2>4. \E x \in ledger : x.req = r.req /\ x.pay = r.pay
    BY <1>3, <2>1
  <2>. QED
    BY <1>0, <1>3, <2>3, <2>4, AdmittedOK, CallStep DEF runtimes
<1>4. CASE Executing(e, r.req) /\ rec \notin ledger /\ call' = [call EXCEPT ![c] = End(r, "mismatch")]
  <2>1. PICK x \in ledger : x.rt = e /\ x.req = r.req /\ ~x.done
    BY <1>0, <1>4 DEF SessionInv, LedgerInv, Executing
  <2>2. x \in Record
    BY DEF SessionInv, TypeOK
  <2>3. x.pay # r.pay
    <3>. SUFFICES ASSUME x.pay = r.pay PROVE x = rec
      BY <1>4
    <3>1. x.done = FALSE
      BY <2>1, <2>2 DEF Record
    <3>. QED
      BY <2>1, <2>2, <3>1 DEF Record
  <2>. QED
    BY <1>0, <1>4, <2>1, <2>3, EndOK, CallStep DEF runtimes, Answers
<1>5. CASE verdict = "completed" /\ call' = [call EXCEPT ![c] = Admitted(r)]
  <2>1. /\ \E x \in View(e) : x.req = r.req /\ x.pay = r.pay
        /\ \A x \in View(e) : x.req = r.req => x.pay = r.pay
    BY <1>5, DecideFacts
  <2>2. Backed(r)
    BY <1>0, <2>1 DEF Backed
  <2>3. \E x \in ledger : x.req = r.req /\ x.pay = r.pay
    BY <1>1, <2>1 DEF Extends
  <2>. QED
    BY <1>0, <1>5, <2>2, <2>3, AdmittedOK, CallStep DEF runtimes
<1>6. CASE verdict = "mismatch" /\ call' = [call EXCEPT ![c] = End(r, "mismatch")]
  <2>1. \E x \in View(e) : x.req = r.req /\ x.pay # r.pay
    BY <1>6, DecideFacts
  <2>2. \E x \in ledger : x.req = r.req /\ x.pay # r.pay
    BY <1>1, <2>1 DEF Extends
  <2>. QED
    BY <1>0, <1>6, <2>2, EndOK, CallStep DEF runtimes, Answers
<1>7. CASE verdict = "inDoubt" /\ call' = [call EXCEPT ![c] = End(r, "inDoubt")]
  <2>1. \E x \in View(e) : x.req = r.req /\ x.pay = r.pay
    BY <1>7, DecideFacts
  <2>2. \E x \in ledger : x.req = r.req /\ x.pay = r.pay
    BY <1>1, <2>1 DEF Extends
  <2>. QED
    BY <1>0, <1>7, <2>2, EndOK, CallStep DEF runtimes, Answers
<1>8. CASE \/ call' = [call EXCEPT ![c] = End(r, "busy")]
           \/ call' = [call EXCEPT ![c] = End(r, "failed")]
  BY <1>0, <1>8, EndOK, CallStep DEF runtimes, Answers
<1>. QED
  BY <1>2, <1>3, <1>4, <1>5, <1>6, <1>7, <1>8

\* A prompt that is begun writes the first record of its request that its
\* runtime knows of.
LEMMA AdmitBegins ==
  ASSUME SessionInv, NEW c \in Calls, NEW e \in Runtimes, e = call[c].rt,
         NEW q \in Requests, q = call[c].req, NEW rec,
         rec = [req |-> q, pay |-> call[c].pay, rt |-> e, done |-> FALSE],
         phase[e] \in Opened, \A x \in View(e) : x.req # q,
         ledger' = ledger \cup {rec},
         op' = [op EXCEPT ![e] =
           [req |-> q, stage |-> IF phase[e] = "closed" THEN "dead" ELSE "begun"]],
         call' = [call EXCEPT ![c].pc = "accept"],
         UNCHANGED <<accepting, slot, phase, seen, ran, overlap, crashes>>
  PROVE  SessionInv'
<1>. DEFINE o == [req |-> q, stage |-> IF phase[e] = "closed" THEN "dead" ELSE "begun"]
<1>0. /\ rec \in Record /\ rec.req = q /\ rec.rt = e /\ rec.pay = call[c].pay /\ ~rec.done
      /\ o \in Operation /\ o.req = q
      /\ o.stage \in Live => phase[e] \in {"open", "draining", "disposing"}
      /\ \A d \in Runtimes : op'[d] = IF d = e THEN o ELSE op[d]
      /\ op' \in [Runtimes -> Operation]
  <2>1. call[c].pay \in Payloads
    BY CallFacts DEF Call
  <2>2. rec \in Record /\ rec.req = q /\ rec.rt = e /\ rec.pay = call[c].pay /\ ~rec.done
    BY <2>1 DEF Record
  <2>3. /\ o \in Operation /\ o.req = q
        /\ o.stage \in Live => phase[e] \in {"open", "draining", "disposing"}
    BY DEF Operation, Stages, Live, Opened
  <2>. HIDE DEF o
  <2>4. /\ \A d \in Runtimes : op'[d] = IF d = e THEN o ELSE op[d]
        /\ op' \in [Runtimes -> Operation]
    BY <2>3 DEF SessionInv, TypeOK, o
  <2>. QED
    BY <2>2, <2>3, <2>4
<1>. HIDE DEF o
<1>1. \A x \in ledger : x.rt = e => x.req # q
  BY DEF View
<1>2. PICK s \in Call : /\ s.pc = "accept" /\ s.rt = e /\ s.req = q /\ s.pay = call[c].pay
                        /\ call' = [call EXCEPT ![c] = s]
  <2>. DEFINE r == call[c]
              s == [r EXCEPT !.pc = "accept"]
  <2>1. call' = [call EXCEPT ![c] = s]
    OBVIOUS
  <2>2. r \in Call /\ r.rt = e /\ r.req = q
    BY CallFacts
  <2>3. s \in Call /\ s.pc = "accept" /\ s.rt = e /\ s.req = q /\ s.pay = r.pay
    BY <2>2 DEF Call
  <2>. HIDE DEF s
  <2>. QED
    BY <2>1, <2>3
<1>3. TypeOK'
  <2>1. ledger' \subseteq Record
    BY <1>0 DEF SessionInv, TypeOK
  <2>2. \A x, y \in ledger' : x.req = y.req /\ x.rt = y.rt => x = y
    <3>. SUFFICES ASSUME NEW x \in ledger', NEW y \in ledger', x.req = y.req, x.rt = y.rt
                  PROVE  x = y
      OBVIOUS
    <3>1. CASE x \in ledger /\ y \in ledger
      BY <3>1 DEF SessionInv, TypeOK
    <3>2. CASE x = rec
      BY <1>0, <1>1, <3>2
    <3>3. CASE y = rec
      BY <1>0, <1>1, <3>3
    <3>. QED
      BY <3>1, <3>2, <3>3
  <2>3. call' \in [Calls -> Call]
    BY <1>2 DEF SessionInv, TypeOK
  <2>. QED
    BY <1>0, <2>1, <2>2, <2>3 DEF SessionInv, TypeOK
<1>4. TableInv'
  BY DEF SessionInv, TableInv, TableIsLive, Coming
<1>5. LedgerInv'
  <2>1. \A d \in Runtimes : op'[d].stage \in Live =>
          /\ phase[d] \in {"open", "draining", "disposing"}
          /\ \E x \in ledger' : x.rt = d /\ x.req = op'[d].req /\ ~x.done
    <3>. TAKE d \in Runtimes
    <3>1. CASE d = e
      BY <1>0, <3>1
    <3>2. CASE d # e
      <4>1. op'[d] = op[d]
        BY <1>0, <3>2
      <4>. QED
        BY <4>1 DEF SessionInv, LedgerInv
    <3>. QED
      BY <3>1, <3>2
  <2>2. \A x \in ledger' : phase[x.rt] \in Opened /\ \A s1 \in seen[x.rt] : s1.req # x.req
    BY <1>0 DEF SessionInv, LedgerInv, View
  <2>3. \A d \in Runtimes : \A s1 \in seen[d] : \E y \in ledger' : Extends(s1, y)
    BY DEF SessionInv, LedgerInv
  <2>. QED
    BY <2>1, <2>2, <2>3 DEF LedgerInv
<1>6. RanInv'
  BY DEF SessionInv, RanInv, HasLoaded
<1>7. Grows
  <2>1. \A x \in ledger : \E y \in ledger' : Extends(x, y)
    BY DEF Extends
  <2>2. \A d \in Runtimes : View(d)' = IF d = e THEN View(d) \cup {rec} ELSE View(d)
    BY <1>0 DEF View
  <2>3. \A d \in Runtimes : \A y \in View(d)' : y \in View(d) \/ \A x \in View(d) : x.req # y.req
    BY <1>0, <2>2
  <2>4. \A d \in Runtimes : \A x \in View(d) : x \in View(d)'
    BY <2>2
  <2>. QED
    BY <2>1, <2>3, <2>4 DEF Grows
<1>8. CallOK(s)'
  <2>1. rec \in View(e)'
    BY <1>0 DEF View
  <2>2. \A x \in View(e)' : x.req = q => x = rec
    BY DEF View
  <2>3. Backed(s)'
    BY <1>0, <1>2, <2>1, <2>2 DEF Backed
  <2>. QED
    BY <1>2, <2>3 DEF CallOK, ToldTrue
<1>9. CallInv'
  BY <1>2, <1>7, <1>8, CallChanges
<1>. QED
  BY <1>3, <1>4, <1>5, <1>6, <1>9 DEF SessionInv

\* A prompt that is admitted, or answered from the ledger.
LEMMA AdmitKeeps ==
  ASSUME SessionInv, NEW c \in Calls, Admit(c)
  PROVE  SessionInv'
<1>. DEFINE r == call[c]
            e == r.rt
            rec == [req |-> r.req, pay |-> r.pay, rt |-> e, done |-> FALSE]
            verdict == Decide(View(e), r.req, r.pay)
<1>0. /\ e \in Runtimes /\ phase[e] \in Opened /\ r.req \in Requests
      /\ UNCHANGED <<accepting, slot, phase, seen, ran, overlap, crashes>>
  BY CallFacts DEF Admit, CallOK, Call
<1>1. \/ UNCHANGED <<op, ledger>>
      \/ /\ verdict = "begin"
         /\ ledger' = ledger \cup {rec}
         /\ op' = [op EXCEPT ![e] =
              [req |-> r.req, stage |-> IF phase[e] = "closed" THEN "dead" ELSE "begun"]]
         /\ call' = [call EXCEPT ![c].pc = "accept"]
  <2>. HIDE DEF rec, verdict
  <2>. QED
    BY DEF Admit, rec, verdict
<1>2. CASE UNCHANGED <<op, ledger>>
  BY <1>2, AdmitAnswers
<1>3. CASE /\ verdict = "begin"
           /\ ledger' = ledger \cup {rec}
           /\ op' = [op EXCEPT ![e] =
                [req |-> r.req, stage |-> IF phase[e] = "closed" THEN "dead" ELSE "begun"]]
           /\ call' = [call EXCEPT ![c].pc = "accept"]
  <2>1. \A x \in View(e) : x.req # r.req
    BY <1>3, DecideFacts
  <2>. QED
    BY <1>0, <1>3, <2>1, AdmitBegins
<1>. QED
  BY <1>1, <1>2, <1>3

-----------------------------------------------------------------------------
(* The server *)

\* No start may install any more, and the open runtime drains.
LEMMA ShutdownKeeps ==
  ASSUME SessionInv, Shutdown
  PROVE  SessionInv'
<1>0. /\ accepting' = FALSE /\ slot' = Free
      /\ phase' = [e \in Runtimes |-> IF phase[e] = "open" THEN "draining" ELSE phase[e]]
      /\ UNCHANGED <<op, seen, ledger, call, ran, overlap, crashes>>
  BY DEF Shutdown
<1>1. LedgerInv' /\ RanInv' /\ Grows
  BY <1>0, PhaseStep DEF Moves
<1>2. TypeOK'
  <2>1. slot' \in Slot /\ phase' \in [Runtimes -> Phases]
    BY <1>0 DEF SessionInv, TypeOK, Slot, Free, Phases
  <2>. QED
    BY <1>0, <2>1 DEF SessionInv, TypeOK
<1>3. TableInv'
  <2>1. TableIsLive'
    BY <1>0 DEF TableIsLive, Free
  <2>2. \A d \in Runtimes : (Coming(d)' <=> Coming(d)) /\ (phase'[d] = "unused" <=> phase[d] = "unused")
    BY <1>0 DEF Coming
  <2>. QED
    BY <2>1, <2>2 DEF SessionInv, TableInv
<1>4. CallInv'
  BY <1>0, <1>1, CallsStable
<1>. QED
  BY <1>1, <1>2, <1>3, <1>4 DEF SessionInv

\* The process ends: every runtime is closed or failed, every call is gone,
\* the file stays.
LEMMA CrashKeeps ==
  ASSUME SessionInv, Crash
  PROVE  SessionInv'
<1>0. /\ crashes < MaxCrashes /\ crashes' = crashes + 1 /\ accepting' = TRUE /\ slot' = Free
      /\ phase' = [e \in Runtimes |-> IF phase[e] \in Opened THEN "closed"
                                      ELSE IF phase[e] = "unused" THEN "unused" ELSE "failed"]
      /\ op' = [e \in Runtimes |-> Idle]
      /\ call' = [c \in Calls |->
           IF call[c].pc \in {"idle", "done"} THEN call[c] ELSE End(call[c], "gone")]
      /\ UNCHANGED <<seen, ledger, ran, overlap>>
  BY DEF Crash
<1>1. \A e \in Runtimes :
        /\ phase[e] \in Opened => phase'[e] = "closed"
        /\ phase[e] = "unused" <=> phase'[e] = "unused"
        /\ HasLoaded(e)' => phase[e] \in Opened
        /\ phase'[e] \in {"closed", "failed", "unused"}
        /\ phase[e] \in {"closed", "failed"} => phase'[e] \in {"closed", "failed"}
  BY <1>0 DEF HasLoaded, Opened
<1>2. \A c \in Calls : call'[c] \in Call
  BY <1>0, EndFields, CallFacts DEF Answers
<1>3. TypeOK'
  <2>1. slot' \in Slot
    BY <1>0 DEF Slot, Free
  <2>2. phase' \in [Runtimes -> Phases]
    BY <1>0 DEF SessionInv, TypeOK, Phases
  <2>3. op' \in [Runtimes -> Operation]
    BY <1>0 DEF Operation, Idle, Stages
  <2>4. call' \in [Calls -> Call]
    <3>. DEFINE new(c) == IF call[c].pc \in {"idle", "done"} THEN call[c] ELSE End(call[c], "gone")
    <3>1. \A c \in Calls : new(c) \in Call
      BY EndFields, CallFacts DEF Answers
    <3>2. call' = [c \in Calls |-> new(c)]
      BY <1>0
    <3>. HIDE DEF new
    <3>. QED
      BY <3>1, <3>2
  <2>5. crashes' \in 0 .. MaxCrashes
    BY <1>0, BoundsAssumption DEF SessionInv, TypeOK
  <2>. QED
    BY <1>0, <2>1, <2>2, <2>3, <2>4, <2>5 DEF SessionInv, TypeOK
<1>4. TableInv'
  BY <1>0, <1>1 DEF SessionInv, TableInv, TableIsLive, Coming, Free
<1>5. LedgerInv'
  <2>1. \A r \in ledger : phase'[r.rt] \in Opened
    BY <1>1 DEF SessionInv, TypeOK, Record, LedgerInv, Opened
  <2>2. \A e \in Runtimes : op'[e].stage \notin Live
    BY <1>0 DEF Idle, Live
  <2>. QED
    BY <1>0, <2>1, <2>2 DEF SessionInv, LedgerInv
<1>6. RanInv'
  <2>1. \A e \in Runtimes : HasLoaded(e)' => HasLoaded(e)
    BY <1>1 DEF HasLoaded
  <2>. QED
    BY <1>0, <1>1, <2>1 DEF SessionInv, RanInv
<1>7. Grows
  BY <1>0, <1>1 DEF Grows, View, Extends, Opened
<1>8. CallInv'
  <2>. SUFFICES ASSUME NEW c \in Calls, NEW s, s = call'[c] PROVE CallOK(s)'
    BY DEF CallInv
  <2>1. CASE call[c].pc \in {"idle", "done"}
    BY <1>0, <1>7, <2>1, CallOKStable DEF SessionInv, CallInv
  <2>2. CASE call[c].pc \notin {"idle", "done"}
    <3>1. s = End(call[c], "gone")
      BY <1>0, <2>2
    <3>2. s.pc = "done" /\ s.ans = "gone"
      BY <3>1, EndFields, CallFacts DEF Answers
    <3>. QED
      BY <3>2 DEF CallOK, ToldTrue
  <2>. QED
    BY <2>1, <2>2
<1>. QED
  BY <1>3, <1>4, <1>5, <1>6, <1>8 DEF SessionInv

-----------------------------------------------------------------------------
(* The invariant *)

\* The invariant holds initially.
LEMMA InitialState == Init => SessionInv
<1>. SUFFICES ASSUME Init PROVE SessionInv
  OBVIOUS
<1>1. TypeOK
  <2>1. Free \in Slot /\ Idle \in Operation /\ 0 \in 0 .. MaxCrashes
    BY BoundsAssumption DEF Free, Slot, Idle, Operation, Stages
  <2>. QED
    BY <2>1, UnmadeType DEF Init, TypeOK, Phases
<1>2. TableInv
  BY DEF Init, TableInv, TableIsLive, Coming, Free
<1>3. LedgerInv
  BY DEF Init, LedgerInv, Idle, Live
<1>4. RanInv
  BY DEF Init, RanInv, HasLoaded, Opened
<1>5. CallInv
  <2>1. Unmade.pc = "idle"
    BY DEF Unmade
  <2>. QED
    BY <2>1 DEF Init, CallInv, CallOK, ToldTrue
<1>. QED
  BY <1>1, <1>2, <1>3, <1>4, <1>5 DEF SessionInv

\* Every step keeps it.
LEMMA NextKeeps == SessionInv /\ [Next]_vars => SessionInv'
<1>. SUFFICES ASSUME SessionInv, [Next]_vars
              PROVE  SessionInv'
  OBVIOUS
<1>1. ASSUME NEW c \in Calls, Goes(c)
      PROVE  SessionInv'
  BY <1>1, StartKeeps, ResumeKeeps, JoinKeeps, AdmitKeeps, OperateKeeps, AcceptedKeeps,
     AttachKeeps, AttachedKeeps, FollowKeeps, RestartKeeps, ClosedKeeps
  DEF Goes
<1>2. ASSUME NEW c \in Calls, Arrive(c) \/ Abandon(c)
      PROVE  SessionInv'
  BY <1>2, ArriveKeeps, AbandonKeeps
<1>3. ASSUME NEW e \in Runtimes, Runs(e)
      PROVE  SessionInv'
  BY <1>3, LoadKeeps, InstallKeeps, DrainKeeps, DisposeKeeps DEF Runs
<1>4. ASSUME NEW e \in Runtimes, Works(e)
      PROVE  SessionInv'
  BY <1>4, AcceptKeeps, CompleteKeeps, EndOperationKeeps DEF Works
<1>5. ASSUME NEW e \in Runtimes, StartFails(e) \/ Close(e)
      PROVE  SessionInv'
  BY <1>5, StartFailsKeeps, CloseKeeps
<1>6. CASE Shutdown \/ Crash
  BY <1>6, ShutdownKeeps, CrashKeeps
<1>7. CASE UNCHANGED vars
  <2>. USE <1>7 DEF vars
  <2>1. TypeOK'
    BY DEF SessionInv, TypeOK
  <2>2. TableInv'
    BY DEF SessionInv, TableInv, TableIsLive, Coming
  <2>3. LedgerInv' /\ RanInv'
    BY DEF SessionInv, LedgerInv, RanInv, HasLoaded
  <2>4. CallInv'
    BY SameRuntimesGrow, CallsStable
  <2>. QED
    BY <2>1, <2>2, <2>3, <2>4 DEF SessionInv
<1>. QED
  BY <1>1, <1>2, <1>3, <1>4, <1>5, <1>6, <1>7 DEF Next

\* So it holds always.
LEMMA SessionInvariant == Spec => []SessionInv
BY InitialState, NextKeeps, PTL DEF Spec

-----------------------------------------------------------------------------
(* What the registry and the ledger promise *)

\* Every variable keeps its type, the ledger holds one record per request
\* and runtime, whatever the calls are and however often the server ends.
THEOREM TypeCorrect == Spec => []TypeOK
<1>1. SessionInv => TypeOK
  BY DEF SessionInv
<1>. QED
  BY <1>1, SessionInvariant, PTL

\* The table names exactly the runtime that is open, or the one on its way
\* while the registry accepts sessions; after a shutdown it names none.
THEOREM TableStaysLive == Spec => []TableIsLive
<1>1. SessionInv => TableIsLive
  BY DEF SessionInv, TableInv
<1>. QED
  BY <1>1, SessionInvariant, PTL

\* A prompt request is executed by two runtimes only if the earlier one was
\* still draining when the later one read the file: never again after a
\* close that was waited for, a crash or a restart of the server.
THEOREM TwiceOnlyInOverlap == Spec => []RunsTwiceOnlyInOverlap
<1>1. SessionInv => RunsTwiceOnlyInOverlap
  <2>. SUFFICES ASSUME SessionInv, NEW q \in Requests, NEW d \in Runtimes, NEW e \in Runtimes,
                       d < e, <<q, d>> \in ran, <<q, e>> \in ran, d \notin overlap[e]
                PROVE  FALSE
    BY DEF RunsTwiceOnlyInOverlap
  <2>1. PICK r \in ledger : r.req = q /\ r.rt = e
    BY DEF SessionInv, RanInv
  <2>2. phase[e] \in Opened /\ \A s \in seen[e] : s.req # q
    BY <2>1 DEF SessionInv, LedgerInv
  <2>3. \E s \in seen[e] : s.req = q
    BY <2>2 DEF SessionInv, RanInv, HasLoaded
  <2>. QED
    BY <2>2, <2>3
<1>. QED
  BY <1>1, SessionInvariant, PTL

\* What an ended call was told of its request is true of its own input:
\* completed, accepted, in doubt, or begun with another input.
THEOREM AnswersStayTrue == Spec => []AnswersAreTrue
<1>1. SessionInv => AnswersAreTrue
  <2>. SUFFICES ASSUME SessionInv, NEW c \in Calls, call[c].pc = "done"
                PROVE  LET told(a) == call[c].ans = a
                           began == {r \in ledger : r.req = call[c].req}
                       IN  /\ told("completed") => \E r \in began : r.pay = call[c].pay /\ r.done
                           /\ told("accepted") => \E r \in began : r.pay = call[c].pay
                           /\ told("mismatch") => \E r \in began : r.pay # call[c].pay
                           /\ told("inDoubt") => \E r \in began : r.pay = call[c].pay
    BY DEF AnswersAreTrue
  <2>1. ToldTrue(call[c])
    BY CallFacts DEF CallOK
  <2>. QED
    BY <2>1 DEF ToldTrue
<1>. QED
  BY <1>1, SessionInvariant, PTL
=============================================================================
