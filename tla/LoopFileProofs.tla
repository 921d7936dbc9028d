---------------------------- MODULE LoopFileProofs ----------------------------
(***************************************************************************)
(* Proofs about the file, the memory of its owner and the occurrences of   *)
(* LoopRepository, for any sets of sessions, loops and tools, any schedule *)
(* distances and any failures.                                             *)
(*                                                                         *)
(* What the code promises for sessions that stop between operations is     *)
(* proved from GracefulStop; what an update with a stale copy breaks is    *)
(* proved for callers that do not update.                                  *)
(***************************************************************************)
EXTENDS LoopRepositoryProofs

-----------------------------------------------------------------------------
(* What an operation makes of the loops in memory *)

\* A loop is never set back behind the occurrences it has produced.
NoEarlier(a, b) == a.cursor >= b.cursor /\ a.manualCursor >= b.manualCursor

\* The occurrences a loop may produce next.
Upcoming(i, loop) == {Scheduled(i, loop), ManualRun(i, loop)}

\* The operation brings a loop that was not there.
Comes(st, i) == st.op = "add" /\ st.id = i

\* Only loops of the operation's retention change, only an add brings one, only
\* an update sets one back, and a loop is past each occurrence that is returned.
ResultIs(st, m, r) ==
  /\ \A i \in Ids :
       /\ r.next[i] # m[i] => (i \in ProjectIds <=> RetentionOf(st) = "project")
       /\ r.next[i] # NoLoop => m[i] # NoLoop \/ Comes(st, i)
       /\ r.next[i] # NoLoop /\ m[i] # NoLoop /\ st.op # "update" => NoEarlier(r.next[i], m[i])
  /\ \A o \in r.out :
       /\ o.id \in Ids /\ (o.id \in ProjectIds <=> RetentionOf(st) = "project")
       /\ m[o.id] # NoLoop /\ o \in Upcoming(o.id, m[o.id])
       /\ r.next[o.id] # NoLoop => Claimed(r.next[o.id], o)

\* tick moves the cursor of a loop that stays.
LEMMA SuccessorsAdvance ==
  ASSUME NEW loop \in Loop, NEW at \in Nat, NEW next \in Successors(loop, at),
         next # NoLoop
  PROVE  next.cursor = loop.cursor + 1 /\ next.manualCursor = loop.manualCursor
<1>1. \A step \in Steps :
        /\ [loop EXCEPT !.due = at + step, !.cursor = @ + 1].cursor = loop.cursor + 1
        /\ [loop EXCEPT !.due = at + step, !.cursor = @ + 1].manualCursor = loop.manualCursor
  BY DEF Loop
<1>2. /\ [loop EXCEPT !.waiting = FALSE, !.due = 0, !.cursor = @ + 1].cursor = loop.cursor + 1
      /\ [loop EXCEPT !.waiting = FALSE, !.due = 0, !.cursor = @ + 1].manualCursor
           = loop.manualCursor
  BY DEF Loop
<1>3. CASE loop.tag = "Once"
  BY <1>3 DEF Successors
<1>4. CASE loop.tag = "Manual"
  BY <1>2, <1>4 DEF Successors, Recurring
<1>5. CASE loop.tag \in Recurring
  <2>1. \E step \in Steps : next = [loop EXCEPT !.due = at + step, !.cursor = @ + 1]
    BY <1>5 DEF Successors, Recurring
  <2>. QED
    BY <1>1, <2>1
<1>6. loop.tag \in Tags
  BY DEF Loop
<1>. QED
  BY <1>3, <1>4, <1>5, <1>6 DEF Tags, Recurring

\* A claim of the due loops of one retention.
LEMMA ClaimsAre ==
  ASSUME NEW st \in FiberState, NEW m \in LoopMap, st.op = "due",
         NEW r \in Claims(m, st.ret, st.at)
  PROVE  ResultIs(st, m, r)
<1> DEFINE due == DueLoops(m, st.ret, st.at)
<1>1. st.ret \in {"session", "project"} /\ st.at \in Nat /\ RetentionOf(st) = st.ret
  BY DEF FiberState, RetentionOf, TwoPartOps
<1>2. \A i \in due : /\ i \in Ids /\ m[i] \in Loop /\ m[i] # NoLoop
                     /\ i \in ProjectIds <=> st.ret = "project"
  BY <1>1, IdsAssumption, NoLoopAssumption DEF DueLoops, Present, LoopMap, LoopOrNone, Ids
<1>3. PICK after \in [due -> UNION {Successors(m[i], st.at) : i \in due}] :
        /\ \A i \in due : after[i] \in Successors(m[i], st.at)
        /\ r = [next |-> [i \in Ids |-> IF i \in due THEN after[i] ELSE m[i]],
                out |-> {Scheduled(i, m[i]) : i \in due}]
  BY DEF Claims
<1>. HIDE DEF due
<1>4. /\ \A i \in Ids : r.next[i] = IF i \in due THEN after[i] ELSE m[i]
      /\ r.out = {Scheduled(i, m[i]) : i \in due}
  BY <1>3
<1>5. \A i \in due : r.next[i] # NoLoop =>
        r.next[i].cursor = m[i].cursor + 1 /\ r.next[i].manualCursor = m[i].manualCursor
  BY <1>1, <1>2, <1>3, <1>4, SuccessorsAdvance
<1>6. \A i \in Ids : m[i] # NoLoop => m[i].cursor \in Nat /\ m[i].manualCursor \in Nat
  BY DEF LoopMap, LoopOrNone, Loop
<1>7. ASSUME NEW i \in Ids, r.next[i] # NoLoop, m[i] # NoLoop
      PROVE  NoEarlier(r.next[i], m[i])
  BY <1>4, <1>5, <1>6, <1>7 DEF NoEarlier
<1>8. ASSUME NEW o \in r.out
      PROVE  /\ o.id \in Ids /\ (o.id \in ProjectIds <=> RetentionOf(st) = "project")
             /\ m[o.id] # NoLoop /\ o \in Upcoming(o.id, m[o.id])
             /\ r.next[o.id] # NoLoop => Claimed(r.next[o.id], o)
  <2>1. PICK i \in due : o = Scheduled(i, m[i])
    BY <1>4, <1>8
  <2>2. o.id = i /\ o.trigger = "scheduled" /\ o.cursor = m[i].cursor
    BY <2>1 DEF Scheduled
  <2>3. r.next[i] # NoLoop => r.next[i].cursor > m[i].cursor
    BY <1>2, <1>5, <1>6
  <2>. QED
    BY <1>1, <1>2, <2>1, <2>2, <2>3 DEF Upcoming, Claimed
<1>. QED
  BY <1>1, <1>2, <1>4, <1>7, <1>8 DEF ResultIs

\* An operation on the one loop it names that returns no occurrence.
LEMMA ChangeIs ==
  ASSUME NEW st \in FiberState, NEW m \in LoopMap, st.op \in IdOps \cup {"add"},
         NEW loop \in LoopOrNone,
         m[st.id] # NoLoop \/ st.op = "add",
         m[st.id] # NoLoop /\ loop # NoLoop /\ st.op # "update" => NoEarlier(loop, m[st.id])
  PROVE  ResultIs(st, m, Change(m, st.id, loop))
<1> DEFINE r == Change(m, st.id, loop)
<1>1. /\ st.id \in Ids /\ st.op \notin TwoPartOps
      /\ RetentionOf(st) = "project" <=> st.id \in ProjectIds
  BY DEF FiberState, IdOps, TwoPartOps, RetentionOf
<1>2. /\ r.out = {} /\ r.next[st.id] = loop
      /\ \A i \in Ids : i # st.id => r.next[i] = m[i]
  BY <1>1 DEF Change, LoopMap
<1>. HIDE DEF r
<1>3. \A i \in Ids : m[i] # NoLoop => NoEarlier(m[i], m[i])
  BY DEF LoopMap, LoopOrNone, Loop, NoEarlier
<1>. QED
  BY <1>1, <1>2, <1>3 DEF ResultIs, Comes, r

\* Every operation.
LEMMA ResultsAre ==
  ASSUME NEW st \in FiberState, NEW m \in LoopMap, NEW r \in Results(st, m)
  PROVE  ResultIs(st, m, r)
<1> DEFINE i == st.id
<1>1. CASE st.op = "due"
  BY <1>1, ClaimsAre DEF Results
<1>2. CASE st.op = "removeAll"
  <2>1. /\ r.out = {} /\ RetentionOf(st) = st.ret
        /\ \A j \in Ids :
             r.next[j] = IF (j \in ProjectIds) = (st.ret = "project") THEN NoLoop ELSE m[j]
    BY <1>2 DEF Results, Cleared, RetentionOf, TwoPartOps
  <2>2. \A j \in Ids : m[j] # NoLoop => NoEarlier(m[j], m[j])
    BY DEF LoopMap, LoopOrNone, Loop, NoEarlier
  <2>. QED
    BY <2>1, <2>2 DEF ResultIs
<1>3. CASE st.op = "add"
  <2>1. m[i] = NoLoop /\ r = Change(m, i, st.loop) /\ st.loop \in LoopOrNone
    BY <1>3 DEF Results, FiberState
  <2>. QED
    BY <1>3, <2>1, ChangeIs
<1>4. CASE st.op \in IdOps
  <2>1. i \in Ids /\ m[i] # NoLoop
    BY <1>4 DEF Results, IdOps, FiberState
  <2>2. m[i] \in Loop /\ NoLoop \in LoopOrNone /\ st.loop \in LoopOrNone /\ st.at \in Nat
    BY <2>1 DEF LoopMap, LoopOrNone, FiberState
  <2>3. CASE st.op = "remove"
    <3>1. r = Change(m, i, NoLoop)
      BY <2>1, <2>3 DEF Results, IdOps
    <3>. QED
      BY <1>4, <2>1, <2>2, <3>1, ChangeIs
  <2>4. CASE st.op = "update"
    <3>1. r = Change(m, i, st.loop)
      BY <2>1, <2>4 DEF Results, IdOps
    <3>. QED
      BY <1>4, <2>1, <2>2, <2>4, <3>1, ChangeIs
  <2>5. CASE st.op = "arm"
    <3>1. r = Change(m, i, Armed(m[i], st.at))
      BY <2>1, <2>5 DEF Results, IdOps
    <3>2. Armed(m[i], st.at) \in LoopOrNone
      BY <2>2 DEF Armed, Loop, LoopOrNone
    <3>3. /\ Armed(m[i], st.at).cursor = m[i].cursor
          /\ Armed(m[i], st.at).manualCursor = m[i].manualCursor
          /\ m[i].cursor \in Nat /\ m[i].manualCursor \in Nat
      BY <2>2 DEF Armed, Loop
    <3>4. NoEarlier(Armed(m[i], st.at), m[i])
      BY <3>3 DEF NoEarlier
    <3>. QED
      BY <1>4, <2>1, <3>1, <3>2, <3>4, ChangeIs
  <2>6. CASE st.op \in {"pause", "resume"}
    <3> DEFINE next == [m[i] EXCEPT !.enabled = (st.op = "resume")]
    <3>1. r = Change(m, i, next)
      BY <2>1, <2>6 DEF Results, IdOps
    <3>2. next \in LoopOrNone
      BY <2>2 DEF Loop, LoopOrNone
    <3>3. /\ next.cursor = m[i].cursor /\ next.manualCursor = m[i].manualCursor
          /\ m[i].cursor \in Nat /\ m[i].manualCursor \in Nat
      BY <2>2 DEF Loop
    <3>. HIDE DEF next
    <3>4. NoEarlier(next, m[i])
      BY <3>3 DEF NoEarlier
    <3>. QED
      BY <1>4, <2>1, <3>1, <3>2, <3>4, ChangeIs
  <2>7. CASE st.op = "runNow"
    <3> DEFINE next == [m[i] EXCEPT !.manualCursor = @ + 1]
    <3>1. r.next = [m EXCEPT ![i] = next] /\ r.out = {ManualRun(i, m[i])}
      BY <2>1, <2>7 DEF Results, IdOps
    <3>2. /\ next.cursor = m[i].cursor /\ next.manualCursor = m[i].manualCursor + 1
          /\ m[i].cursor \in Nat /\ m[i].manualCursor \in Nat
      BY <2>2 DEF Loop
    <3>. HIDE DEF next
    <3>3. NoEarlier(next, m[i])
      BY <3>2 DEF NoEarlier
    <3>4. /\ r.next[i] = next
          /\ \A j \in Ids : j # i => r.next[j] = m[j]
      BY <2>1, <3>1 DEF LoopMap
    <3>5. RetentionOf(st) = "project" <=> i \in ProjectIds
      BY <2>7 DEF RetentionOf, TwoPartOps
    <3>6. /\ ManualRun(i, m[i]).id = i /\ ManualRun(i, m[i]).trigger = "manual"
          /\ ManualRun(i, m[i]).cursor = m[i].manualCursor + 1
      BY DEF ManualRun
    <3>7. Claimed(next, ManualRun(i, m[i])) /\ ManualRun(i, m[i]) \in Upcoming(i, m[i])
      BY <3>2, <3>6 DEF Claimed, Upcoming
    <3>8. \A j \in Ids : m[j] # NoLoop => NoEarlier(m[j], m[j])
      BY DEF LoopMap, LoopOrNone, Loop, NoEarlier
    <3>. QED
      BY <2>1, <3>1, <3>3, <3>4, <3>5, <3>6, <3>7, <3>8 DEF ResultIs
  <2>. QED
    BY <1>4, <2>3, <2>4, <2>5, <2>6, <2>7 DEF IdOps
<1>5. CASE st.op \in {"none", "init"}
  BY <1>5 DEF Results, IdOps
<1>6. st.op \in Ops
  BY DEF FiberState
<1>. QED
  BY <1>1, <1>2, <1>3, <1>4, <1>5, <1>6 DEF Ops, TwoPartOps

-----------------------------------------------------------------------------
(* The steps of a mutation, by what they do to the loops *)

\* The stages of a mutation that has computed the next loops.
Writing == {"persist", "settle"}

\* An add that has not replaced the file yet.
Adding(st) ==
  st.op = "add" /\ st.pc \in {"lock", "probe", "acquire", "load", "denied", "persist"}

\* Only an owner replaces the file, and a session that is not the owner has no
\* project loop in memory.
OwnerInvOf(s) ==
  /\ \A f \in Fibers : fiber[s][f].pc \in Writing => tag[s] = "Owner"
  /\ tag[s] # "Owner" => ~HasProjectLoops(mem[s])

\* The same for all sessions.
OwnerInv == \A s \in Sessions : OwnerInvOf(s)

\* The loops an operation works on: the memory, or what it has just read.
Loops(s, f) == IF fiber[s][f].pc = "load" THEN Merged(s) ELSE mem[s]

\* No other fiber of the session is about to write.
NoOtherWriter(s, f) == \A g \in Fibers \ {f} : fiber[s][g].pc \notin Writing

\* The other sessions keep their memory and their fibers.
OthersRest(s) ==
  \A r \in Sessions \ {s} :
    mem'[r] = mem[r] /\ phase'[r] = phase[r] /\ tag'[r] = tag[r] /\ fiber'[r] = fiber[r]

\* The fiber goes on without replacing the file, with the same add if it adds.
Rests(s, f) ==
  \E new \in FiberState :
    /\ Become(s, f, new)
    /\ new.pc \notin {"persist", "settle", "orphan"}
    /\ Adding(new) => Adding(fiber[s][f]) /\ new.id = fiber[s][f].id
    /\ new.op = "update" => fiber[s][f].op = "update"
    /\ phase'[s] = "closed" =>
         \/ phase[s] = "closed"
         \/ phase[s] = "starting" /\ new.pc \in {"idle", "dead"}

\* The session does not become the owner.
StaysOwner(s) ==
  phase'[s] = "open" /\ tag'[s] = "Owner" => phase[s] = "open" /\ tag[s] = "Owner"

\* Nothing durable changes; the memory may become what has been read.
Plain(s, f) ==
  /\ Rests(s, f) /\ fiber[s][f].pc # "settle"
  /\ UNCHANGED <<file, journal, gone, history>>
  /\ phase'[s] \in Running => phase[s] \in Running
  /\ \/ mem'[s] = mem[s] /\ StaysOwner(s)
     \/ mem'[s] = Merged(s) /\ NoOtherWriter(s, f)

\* A change of project loops goes on to replace the file.
Persisting(s, f) ==
  /\ UNCHANGED <<file, journal, gone, history, lease, phase>>
  /\ NoOtherWriter(s, f) /\ mem'[s] = Loops(s, f) /\ tag'[s] = "Owner"
  /\ fiber[s][f].pc = "load" \/ (fiber[s][f].pc = "lock" /\ tag[s] = "Owner")
  /\ RetentionOf(fiber[s][f]) = "project"
  /\ \E r \in Results(fiber[s][f], Loops(s, f)) :
       Become(s, f, [fiber[s][f] EXCEPT !.pc = "persist", !.next = r.next, !.out = r.out])

\* The file is replaced.
Written(s, f) ==
  /\ fiber[s][f].pc = "persist" /\ Replace(fiber[s][f].next)
  /\ Become(s, f, [fiber[s][f] EXCEPT !.pc = "settle"])
  /\ UNCHANGED <<journal, lease, repo, history, phase>>

\* The memory follows the file, and the occurrences are returned.
Settled(s, f) ==
  /\ fiber[s][f].pc = "settle" /\ Rests(s, f)
  /\ mem'[s] = fiber[s][f].next /\ Produce(fiber[s][f].out)
  /\ UNCHANGED <<file, journal, gone, phase>>

\* A change of session loops is in the log and in memory at once.
Appended(s, f) ==
  /\ Rests(s, f) /\ NoOtherWriter(s, f) /\ fiber[s][f].pc \in {"lock", "load"}
  /\ ~Adding(fiber'[s][f])
  /\ UNCHANGED <<file, gone, phase>>
  /\ fiber[s][f].pc = "lock" => StaysOwner(s)
  /\ RetentionOf(fiber[s][f]) = "session"
  /\ \E r \in Results(fiber[s][f], Loops(s, f)) :
       /\ journal' = [journal EXCEPT ![Conversation[s]] = SessionPart(r.next)]
       /\ mem'[s] = r.next /\ Produce(r.out)

\* What a step of a mutation is: one of the five, and the other sessions rest.
Kind(s, f) ==
  /\ used' = used /\ OthersRest(s) /\ OwnerInvOf(s)'
  /\ Plain(s, f) \/ Persisting(s, f) \/ Written(s, f) \/ Settled(s, f) \/ Appended(s, f)

\* Inside the lock, or entering it, a fiber is the only one to write.
LEMMA AloneInTheLock ==
  ASSUME NEW s \in Sessions, NEW f \in Fibers, LeaseInvOf(s),
         fiber[s][f].pc \in Locked \/ LockFree(s)
  PROVE  NoOtherWriter(s, f)
BY DEF LeaseInvOf, LockFree, NoOtherWriter, Writing, Locked

\* What becomes of the other fibers and the other sessions.
LEMMA BecomeIs ==
  ASSUME TypeOK, NEW s \in Sessions, NEW f \in Fibers, NEW new, Become(s, f, new)
  PROVE  /\ fiber'[s][f] = new
         /\ \A g \in Fibers \ {f} : fiber'[s][g] = fiber[s][g]
         /\ \A r \in Sessions \ {s} : fiber'[r] = fiber[r]
BY DEF Become, TypeOK

\* The owner's invariant after one fiber has moved.
LEMMA OwnerAfter ==
  ASSUME TypeOK, NEW s \in Sessions, NEW f \in Fibers, OwnerInvOf(s), NEW new,
         Become(s, f, new),
         new.pc \in Writing => tag'[s] = "Owner",
         NoOtherWriter(s, f) \/ tag'[s] = tag[s],
         tag'[s] # "Owner" => ~HasProjectLoops(mem'[s])
  PROVE  OwnerInvOf(s)'
<1>1. \A g \in Fibers : fiber'[s][g] = IF g = f THEN new ELSE fiber[s][g]
  BY BecomeIs
<1>2. ASSUME NEW g \in Fibers, fiber'[s][g].pc \in Writing PROVE tag'[s] = "Owner"
  BY <1>1, <1>2 DEF OwnerInvOf, NoOtherWriter
<1>. QED
  BY <1>2 DEF OwnerInvOf

\* A fiber that rests keeps the owner's invariant.
LEMMA OwnerRests ==
  ASSUME TypeOK, NEW s \in Sessions, NEW f \in Fibers, OwnerInvOf(s), Rests(s, f),
         NoOtherWriter(s, f) \/ tag'[s] = tag[s],
         tag'[s] # "Owner" => ~HasProjectLoops(mem'[s])
  PROVE  OwnerInvOf(s)'
<1>1. PICK new : Become(s, f, new) /\ new.pc \notin {"persist", "settle", "orphan"}
  BY DEF Rests
<1>. QED
  BY <1>1, OwnerAfter DEF Writing

\* The end of the locked part of an operation.
LEMMA CompleteRests ==
  ASSUME TypeOK, NEW s \in Sessions, NEW f \in Fibers, fiber[s][f].op # "init",
         NEW out \in SUBSET Occurrence, Complete(s, f, out), phase' = phase
  PROVE  Rests(s, f) /\ ~Adding(fiber'[s][f])
<1> DEFINE st == fiber[s][f]
           sent == [st EXCEPT !.pc = "deliver", !.next = NoLoops, !.out = out]
<1>1. st \in FiberState
  BY DEF TypeOK
<1>2. sent \in FiberState /\ sent.pc = "deliver" /\ sent.op = st.op
  <2>1. "deliver" \in Pcs
    BY DEF Pcs
  <2>2. sent \in FiberState
    BY <1>1, <2>1, EditType, NoLoopsType
  <2>. QED
    BY <1>1, <2>2 DEF FiberState
<1>3. ASSUME NEW after \in Follow(st)
      PROVE  /\ after \in FiberState /\ after.pc \in {"idle", "lock", "sample"}
             /\ after.op # "add" /\ after.op # "update"
  <2> DEFINE again == [st EXCEPT !.pc = "lock", !.ret = "project", !.next = NoLoops,
                                 !.out = {}]
  <2>1. after \in FiberState /\ after.pc \in {"idle", "lock", "sample"}
    BY <1>1, FollowType, FollowIsQuiet
  <2>2. again.op = st.op
    BY <1>1 DEF FiberState
  <2>3. Idle.op = "none" /\ Drain.op = "due"
    BY DEF Idle, Drain
  <2>4. "add" \notin TwoPartOps /\ "update" \notin TwoPartOps
    BY DEF TwoPartOps
  <2>. HIDE DEF again
  <2>5. after \in {Idle, Drain} \/ (after = again /\ st.op \in TwoPartOps)
    BY DEF Follow, again
  <2>. QED
    BY <2>1, <2>2, <2>3, <2>4, <2>5
<1>. HIDE DEF sent
<1>4. PICK new : /\ Become(s, f, new)
                 /\ new \in Follow(st) \/ new = sent
  BY DEF Complete, sent
<1>5. new \in FiberState /\ new.pc \in {"idle", "lock", "sample", "deliver"}
  BY <1>2, <1>3, <1>4
<1>6. ~Adding(new) /\ fiber'[s][f] = new
  BY <1>2, <1>3, <1>4, BecomeIs DEF Adding
<1>7. new.op = "update" => st.op = "update"
  BY <1>2, <1>3, <1>4
<1>. QED
  BY <1>4, <1>5, <1>6, <1>7 DEF Rests

\* The end of an operation that fails.
LEMMA EndRests ==
  ASSUME TypeOK, NEW s \in Sessions, NEW f \in Fibers,
         Become(s, f, Dead) \/ Become(s, f, Idle),
         phase'[s] = "closed" => phase[s] \in {"starting", "closed"}
  PROVE  Rests(s, f)
<1>1. Dead.pc = "dead" /\ Dead.op = "none" /\ Idle.pc = "idle" /\ Idle.op = "none"
  BY DEF Dead, Idle
<1>2. \E new \in {Dead, Idle} : Become(s, f, new)
  OBVIOUS
<1>. QED
  BY <1>1, <1>2, IdleType DEF Rests, Adding

\* An operation that fails, with the memory it has found or has just read.
LEMMA AbortKind ==
  ASSUME TypeOK, NEW s \in Sessions, NEW f \in Fibers, LeaseInvOf(s), OwnerInvOf(s),
         NEW t, NEW m, Abort(s, f, t, m), UNCHANGED <<now, busy, used>>,
         fiber[s][f].pc \in Locked \/ LockFree(s), fiber[s][f].pc # "settle",
         \/ m = mem[s] /\ (t = "Owner" <=> tag[s] = "Owner")
         \/ m = Merged(s) /\ t = "Owner",
         fiber[s][f].op = "init" => m = mem[s]
  PROVE  Kind(s, f)
<1>1. /\ NoOtherWriter(s, f) /\ UNCHANGED <<file, journal, gone, history>>
      /\ Become(s, f, Dead) \/ Become(s, f, Idle)
  BY AloneInTheLock DEF Abort
<1>2. \/ phase' = phase /\ mem'[s] = m /\ (tag'[s] = t \/ ~HasProjectLoops(m))
         /\ (tag'[s] = "Owner" => t = "Owner")
      \/ phase[s] = "starting" /\ phase'[s] = "closed" /\ tag'[s] = t
         /\ mem'[s] = mem[s] /\ m = mem[s]
  <2>1. CASE fiber[s][f].op = "add"
    BY <2>1 DEF Abort, SetState, TypeOK
  <2>2. CASE fiber[s][f].op = "init"
    BY <2>2 DEF Abort, TypeOK, LeaseInvOf
  <2>3. CASE fiber[s][f].op \notin {"add", "init"}
    BY <2>3 DEF Abort, TypeOK
  <2>. QED
    BY <2>1, <2>2, <2>3
<1>3. OthersRest(s)
  <2>1. \A r \in Sessions \ {s} : mem'[r] = mem[r] /\ phase'[r] = phase[r] /\ tag'[r] = tag[r]
    BY DEF Abort, SetState, TypeOK
  <2>. QED
    BY <1>1, <2>1, BecomeIs DEF OthersRest
<1>4. Rests(s, f)
  BY <1>1, <1>2, EndRests
<1>5. tag'[s] # "Owner" => ~HasProjectLoops(mem'[s])
  BY <1>2 DEF OwnerInvOf
<1>6. OwnerInvOf(s)'
  BY <1>1, <1>4, <1>5, OwnerRests
<1>7. Plain(s, f)
  BY <1>1, <1>2, <1>4 DEF Plain, StaysOwner, Running
<1>. QED
  BY <1>3, <1>6, <1>7 DEF Kind

\* The loops an operation works on are loops.
LEMMA LoopsType ==
  ASSUME TypeOK, NEW s \in Sessions, NEW f \in Fibers
  PROVE  Loops(s, f) \in LoopMap
BY MergedType DEF TypeOK, Loops

\* A change of session loops leaves a memory without project loops as it is.
LEMMA SessionResults ==
  ASSUME NEW st \in FiberState, NEW m \in LoopMap, NEW r \in Results(st, m),
         RetentionOf(st) = "session", ~HasProjectLoops(m)
  PROVE  ~HasProjectLoops(r.next)
<1>1. /\ r.next \in LoopMap
      /\ \A i \in ProjectIds : i \in Ids /\ r.next[i] = m[i]
  BY ResultsType, ResultsAre DEF Result, ResultIs, Ids
<1>. QED
  BY <1>1 DEF HasProjectLoops, Present, LoopMap

\* commit and what leads to it.
LEMMA PerformKind ==
  ASSUME TypeOK, NEW s \in Sessions, NEW f \in Fibers, LeaseInvOf(s), OwnerInvOf(s),
         NEW t, Perform(s, f, t, Loops(s, f)), UNCHANGED <<now, busy, used>>,
         fiber[s][f].op # "init",
         \/ fiber[s][f].pc = "load" /\ t = "Owner"
         \/ fiber[s][f].pc = "lock" /\ LockFree(s) /\ t = tag[s]
  PROVE  Kind(s, f)
<1> DEFINE st == fiber[s][f]
           m == Loops(s, f)
<1>1. st \in FiberState /\ m \in LoopMap
  BY LoopsType DEF TypeOK
<1>2. /\ st.pc \in Locked \/ LockFree(s)
      /\ NoOtherWriter(s, f) /\ st.pc # "settle"
      /\ m = IF st.pc = "load" THEN Merged(s) ELSE mem[s]
  BY AloneInTheLock DEF Locked, Loops
<1>. HIDE DEF m
<1>3. CASE Abort(s, f, t, m)
  BY <1>2, <1>3, AbortKind
<1>4. ASSUME tag' = [tag EXCEPT ![s] = t], mem' = [mem EXCEPT ![s] = m],
             Complete(s, f, {}), UNCHANGED <<disk, history, phase>>
      PROVE  Kind(s, f)
  <2>1. tag'[s] = t /\ mem'[s] = m /\ Rests(s, f)
    BY <1>4, CompleteRests DEF TypeOK
  <2>2. OthersRest(s)
    BY <1>4, <2>1, BecomeIs DEF OthersRest, Rests, TypeOK
  <2>3. OwnerInvOf(s)'
    BY <1>2, <2>1, OwnerRests DEF OwnerInvOf
  <2>4. Plain(s, f)
    BY <1>2, <1>4, <2>1 DEF Plain, StaysOwner, disk
  <2>. QED
    BY <2>2, <2>3, <2>4 DEF Kind
<1>5. ASSUME NEW r \in Results(st, m), RetentionOf(st) = "project", t = "Owner",
             tag' = [tag EXCEPT ![s] = t], mem' = [mem EXCEPT ![s] = m],
             Become(s, f, [st EXCEPT !.pc = "persist", !.next = r.next, !.out = r.out]),
             UNCHANGED <<disk, history, phase>>
      PROVE  Kind(s, f)
  <2> DEFINE new == [st EXCEPT !.pc = "persist", !.next = r.next, !.out = r.out]
  <2>. HIDE DEF new
  <2>1. tag'[s] = "Owner" /\ mem'[s] = m
    BY <1>5 DEF TypeOK
  <2>2. OthersRest(s)
    BY <1>5, BecomeIs DEF OthersRest, TypeOK
  <2>3. Become(s, f, new)
    BY <1>5 DEF new
  <2>4. OwnerInvOf(s)'
    BY <2>1, <2>3, <1>2, OwnerAfter
  <2>5. Persisting(s, f)
    BY <1>2, <1>5, <2>1 DEF Persisting, disk, m
  <2>. QED
    BY <2>2, <2>4, <2>5 DEF Kind
<1>6. ASSUME NEW r \in Results(st, m), RetentionOf(st) = "session",
             journal' = [journal EXCEPT ![Conversation[s]] = SessionPart(r.next)],
             SetState(s, t, r.next), Produce(r.out), Complete(s, f, r.out),
             UNCHANGED <<file, gone, phase>>
      PROVE  Kind(s, f)
  <2>0. r.out \in SUBSET Occurrence
    BY <1>1, ResultsType DEF Result
  <2>1. Rests(s, f) /\ ~Adding(fiber'[s][f])
    BY <1>6, <2>0, CompleteRests
  <2>2. /\ mem'[s] = r.next
        /\ tag'[s] = IF t = "Owner" /\ ~HasProjectLoops(r.next) THEN "Inactive" ELSE t
    BY <1>6 DEF SetState, TypeOK
  <2>3. OthersRest(s)
    BY <1>6, <2>1, BecomeIs DEF OthersRest, Rests, SetState, TypeOK
  <2>4. t # "Owner" => ~HasProjectLoops(r.next)
    BY <1>1, <1>2, <1>6, SessionResults DEF OwnerInvOf
  <2>5. OwnerInvOf(s)'
    BY <1>2, <2>1, <2>2, <2>4, OwnerRests
  <2>6. Appended(s, f)
    BY <1>2, <1>6, <2>1, <2>2 DEF Appended, StaysOwner, m
  <2>. QED
    BY <2>3, <2>5, <2>6 DEF Kind
<1>7. RetentionOf(st) \in {"session", "project"}
  BY <1>1 DEF RetentionOf, FiberState
<1>. QED
  BY <1>3, <1>4, <1>5, <1>6, <1>7 DEF Perform, m

\* The repository that is ready.
LEMMA OpenKind ==
  ASSUME TypeOK, NEW s \in Sessions, NEW f \in Fibers, LeaseInvOf(s), OwnerInvOf(s),
         NEW t, NEW m, Open(s, f, t, m), UNCHANGED <<now, busy, used>>,
         fiber[s][f].op = "init",
         \/ m = mem[s] /\ t # "Owner" /\ tag[s] # "Owner"
         \/ m = Merged(s) /\ t = "Owner"
  PROVE  Kind(s, f)
<1>1. /\ tag'[s] = t /\ mem'[s] = m /\ phase'[s] = "open" /\ Become(s, f, Idle)
      /\ UNCHANGED <<file, journal, gone, history>>
  BY DEF Open, TypeOK, disk
<1>2. fiber[s][f].pc \in Locked /\ fiber[s][f].pc # "settle" /\ phase[s] = "starting"
  BY DEF LeaseInvOf, Waiting, Locked
<1>3. NoOtherWriter(s, f)
  BY <1>2, AloneInTheLock
<1>4. OthersRest(s)
  BY <1>1, BecomeIs DEF Open, OthersRest, TypeOK
<1>5. Rests(s, f)
  BY <1>1, EndRests
<1>6. OwnerInvOf(s)'
  BY <1>1, <1>3, <1>5, OwnerRests DEF OwnerInvOf
<1>7. Plain(s, f)
  BY <1>1, <1>2, <1>3, <1>5 DEF Plain, StaysOwner, Running
<1>. QED
  BY <1>4, <1>6, <1>7 DEF Kind, Open

\* A fiber that moves on in the lock and leaves the loops alone.
LEMMA MovesKind ==
  ASSUME TypeOK, NEW s \in Sessions, NEW f \in Fibers, LeaseInvOf(s), OwnerInvOf(s),
         NEW pc \in {"probe", "acquire", "load", "denied"},
         Become(s, f, [fiber[s][f] EXCEPT !.pc = pc]),
         fiber[s][f].pc \in {"lock", "probe", "acquire"},
         UNCHANGED <<file, journal, gone, history, phase, repo, used>>
  PROVE  Kind(s, f)
<1> DEFINE new == [fiber[s][f] EXCEPT !.pc = pc]
<1>1. /\ new \in FiberState /\ new.pc = pc
      /\ new.op = fiber[s][f].op /\ new.id = fiber[s][f].id
  <2>1. fiber[s][f] \in FiberState /\ pc \in Pcs
    BY DEF TypeOK, Pcs, Locked
  <2>2. new \in FiberState
    BY <2>1, EditType, NoLoopsType
  <2>. QED
    BY <2>1, <2>2 DEF FiberState
<1>2. Become(s, f, new)
  OBVIOUS
<1>. HIDE DEF new
<1>3. Rests(s, f)
  BY <1>1, <1>2 DEF Rests, Adding
<1>4. tag'[s] = tag[s] /\ mem'[s] = mem[s]
  BY DEF repo
<1>5. OthersRest(s)
  BY <1>2, BecomeIs DEF OthersRest, repo
<1>6. OwnerInvOf(s)'
  BY <1>3, <1>4, OwnerRests DEF OwnerInvOf
<1>7. Plain(s, f)
  BY <1>3, <1>4 DEF Plain, StaysOwner
<1>. QED
  BY <1>5, <1>6, <1>7 DEF Kind

\* A tick that finds nothing to do.
LEMMA NothingKind ==
  ASSUME TypeOK, NEW s \in Sessions, NEW f \in Fibers, LeaseInvOf(s), OwnerInvOf(s),
         NEW t, t # "Owner", tag[s] # "Owner", tag' = [tag EXCEPT ![s] = t],
         Complete(s, f, {}), UNCHANGED <<disk, mem, history, phase, used>>,
         fiber[s][f].pc \in Locked, fiber[s][f].pc # "settle", fiber[s][f].op # "init"
  PROVE  Kind(s, f)
<1>1. tag'[s] = t /\ mem'[s] = mem[s] /\ Rests(s, f) /\ NoOtherWriter(s, f)
  BY CompleteRests, AloneInTheLock DEF TypeOK
<1>2. OthersRest(s)
  BY <1>1, BecomeIs DEF OthersRest, Rests, TypeOK
<1>3. OwnerInvOf(s)'
  BY <1>1, OwnerRests DEF OwnerInvOf
<1>4. Plain(s, f)
  BY <1>1 DEF Plain, StaysOwner, disk
<1>. QED
  BY <1>2, <1>3, <1>4 DEF Kind

\* A step of a mutation is of one of the kinds.
LEMMA StepKind ==
  ASSUME TypeOK, NEW s \in Sessions, NEW f \in Fibers, LeaseInvOf(s), OwnerInvOf(s),
         Step(s, f)
  PROVE  Kind(s, f)
<1> DEFINE st == fiber[s][f]
<1>0. st \in FiberState /\ Waiting \subseteq Locked
  BY DEF TypeOK, Waiting, Locked
<1>1. CASE Enter(s, f)
  <2>1. st.pc = "lock" /\ LockFree(s) /\ st.op # "init" /\ UNCHANGED <<now, busy, used>>
    BY <1>1 DEF Enter, LeaseInvOf, Waiting
  <2>2. CASE Perform(s, f, tag[s], mem[s])
    <3>1. Loops(s, f) = mem[s]
      BY <2>1 DEF Loops
    <3>. QED
      BY <2>1, <2>2, <3>1, PerformKind
  <2>3. CASE ~Perform(s, f, tag[s], mem[s])
    <3>1. /\ \E pc \in {"probe", "acquire"} : Become(s, f, [st EXCEPT !.pc = pc])
          /\ UNCHANGED <<disk, repo, history, phase>>
      BY <1>1, <2>3 DEF Enter
    <3>. QED
      BY <2>1, <3>1, MovesKind DEF disk
  <2>. QED
    BY <2>2, <2>3
<1>2. CASE Probe(s, f)
  <2>1. /\ st.pc = "probe" /\ st.pc \in Locked /\ tag[s] # "Owner"
        /\ UNCHANGED <<now, busy, used>>
    BY <1>0, <1>2 DEF Probe, LeaseInvOf, Waiting
  <2>2. CASE Become(s, f, [st EXCEPT !.pc = "acquire"]) /\ UNCHANGED <<disk, repo, history, phase>>
    BY <2>1, <2>2, MovesKind DEF disk
  <2>3. CASE st.op = "init" /\ Open(s, f, tag[s], mem[s])
    BY <2>1, <2>3, OpenKind
  <2>4. CASE /\ st.op = "due" /\ tag' = [tag EXCEPT ![s] = "Inactive"]
             /\ Complete(s, f, {}) /\ UNCHANGED <<disk, mem, history, phase>>
    BY <2>1, <2>4, NothingKind
  <2>5. CASE Abort(s, f, tag[s], mem[s])
    BY <2>1, <2>5, AbortKind
  <2>. QED
    BY <1>2, <2>2, <2>3, <2>4, <2>5 DEF Probe
<1>3. CASE Acquire(s, f)
  <2>1. st.pc = "acquire" /\ st.pc \in Locked /\ UNCHANGED <<now, busy, used>>
    BY <1>0, <1>3 DEF Acquire, Waiting
  <2>2. CASE Abort(s, f, tag[s], mem[s])
    BY <2>1, <2>2, AbortKind
  <2>3. CASE ~Abort(s, f, tag[s], mem[s])
    <3>1. /\ \E pc \in {"load", "denied"} : Become(s, f, [st EXCEPT !.pc = pc])
          /\ UNCHANGED <<file, journal, gone, repo, history, phase>>
      BY <1>3, <2>3 DEF Acquire, disk
    <3>. QED
      BY <2>1, <3>1, MovesKind
  <2>. QED
    BY <2>2, <2>3
<1>4. CASE Load(s, f)
  <2>1. st.pc = "load" /\ UNCHANGED <<now, busy, used>> /\ Loops(s, f) = Merged(s)
    BY <1>4 DEF Load, Loops
  <2>2. CASE st.op = "init" /\ Open(s, f, "Owner", Merged(s))
    BY <2>1, <2>2, OpenKind
  <2>3. CASE st.op # "init" /\ Perform(s, f, "Owner", Merged(s))
    BY <2>1, <2>3, PerformKind
  <2>. QED
    BY <1>4, <2>2, <2>3 DEF Load
<1>5. CASE LoadFails(s, f)
  <2>1. /\ st.pc = "load" /\ st.pc \in Locked /\ tag' = tag /\ mem' = mem
        /\ UNCHANGED <<file, journal, gone, history, used>>
        /\ Become(s, f, Dead) \/ Become(s, f, Idle)
        /\ phase'[s] = IF phase[s] = "starting" THEN "closed" ELSE phase[s]
        /\ \A r \in Sessions \ {s} : phase'[r] = phase[r]
    BY <1>0, <1>5 DEF LoadFails, repo, TypeOK, Waiting
  <2>2. NoOtherWriter(s, f) /\ Rests(s, f)
    BY <2>1, AloneInTheLock, EndRests
  <2>3. OthersRest(s)
    BY <2>1, BecomeIs DEF OthersRest
  <2>4. OwnerInvOf(s)'
    BY <2>1, <2>2, OwnerRests DEF OwnerInvOf
  <2>5. Plain(s, f)
    BY <2>1, <2>2 DEF Plain, StaysOwner, Running
  <2>. QED
    BY <2>1, <2>3, <2>4, <2>5 DEF Kind
<1>6. CASE Denied(s, f)
  <2> DEFINE t == IF Present(file) # {} THEN "Follower" ELSE "Inactive"
  <2>0. t # "Owner"
    OBVIOUS
  <2>. HIDE DEF t
  <2>1. /\ st.pc = "denied" /\ st.pc \in Locked /\ tag[s] # "Owner"
        /\ UNCHANGED <<now, busy, used>>
    BY <1>0, <1>6 DEF Denied, LeaseInvOf, Waiting
  <2>2. CASE st.op = "init" /\ Open(s, f, t, mem[s])
    BY <2>0, <2>1, <2>2, OpenKind
  <2>3. CASE /\ st.op = "due" /\ tag' = [tag EXCEPT ![s] = t]
             /\ Complete(s, f, {}) /\ UNCHANGED <<disk, mem, history, phase>>
    BY <2>0, <2>1, <2>3, NothingKind
  <2>4. CASE Abort(s, f, t, mem[s]) \/ Abort(s, f, tag[s], mem[s])
    BY <2>0, <2>1, <2>4, AbortKind
  <2>. QED
    BY <1>6, <2>2, <2>3, <2>4 DEF Denied, t
<1>7. CASE Persist(s, f)
  <2>1. st.pc = "persist" /\ st.pc \in Locked /\ UNCHANGED <<now, busy, used>>
    BY <1>7 DEF Persist, Locked
  <2>2. CASE Abort(s, f, tag[s], mem[s])
    BY <2>1, <2>2, AbortKind
  <2>3. CASE /\ Replace(st.next) /\ Become(s, f, [st EXCEPT !.pc = "settle"])
             /\ UNCHANGED <<journal, lease, repo, history, phase>>
    <3> DEFINE new == [st EXCEPT !.pc = "settle"]
    <3>1. Become(s, f, new)
      BY <2>3
    <3>. HIDE DEF new
    <3>2. OthersRest(s) /\ NoOtherWriter(s, f)
      BY <2>1, <2>3, <3>1, BecomeIs, AloneInTheLock DEF OthersRest, repo
    <3>3. tag[s] = "Owner" /\ tag'[s] = "Owner"
      BY <2>1, <2>3 DEF OwnerInvOf, Writing, repo
    <3>4. OwnerInvOf(s)'
      BY <3>1, <3>2, <3>3, OwnerAfter
    <3>. QED
      BY <2>1, <2>3, <3>2, <3>4 DEF Kind, Written
  <2>. QED
    BY <1>7, <2>2, <2>3 DEF Persist
<1>8. CASE Settle(s, f)
  <2>1. /\ st.pc = "settle" /\ st.pc \in Locked /\ SetState(s, tag[s], st.next)
        /\ Produce(st.out) /\ Complete(s, f, st.out)
        /\ UNCHANGED <<file, journal, phase, used, gone>>
    BY <1>8 DEF Settle, Locked
  <2>2. st.op # "init" /\ tag[s] = "Owner" /\ st.out \in SUBSET Occurrence
    BY <1>0, <2>1 DEF LeaseInvOf, OwnerInvOf, Waiting, Writing, FiberState
  <2>3. Rests(s, f) /\ NoOtherWriter(s, f)
    BY <2>1, <2>2, CompleteRests, AloneInTheLock
  <2>4. mem'[s] = st.next /\ (tag'[s] # "Owner" => ~HasProjectLoops(st.next))
    BY <2>1, <2>2 DEF SetState, TypeOK
  <2>5. OthersRest(s)
    BY <2>1, <2>3, BecomeIs DEF OthersRest, Rests, SetState, TypeOK
  <2>6. OwnerInvOf(s)'
    BY <2>3, <2>4, OwnerRests
  <2>7. Settled(s, f)
    BY <2>1, <2>3, <2>4 DEF Settled
  <2>. QED
    BY <2>1, <2>5, <2>6, <2>7 DEF Kind
<1>9. CASE Deliver(s, f)
  <2>1. /\ st.pc = "deliver" /\ st.op # "init"
        /\ UNCHANGED <<disk, phase, repo, used, history>>
    BY <1>9 DEF Deliver, LeaseInvOf, Waiting
  <2>2. PICK o \in st.out :
          \/ \E after \in Follow(st) : Become(s, f, after)
          \/ Become(s, f, [st EXCEPT !.out = @ \ {o}])
    BY <1>9 DEF Deliver
  <2>3. Rests(s, f)
    <3> DEFINE rest == [st EXCEPT !.out = @ \ {o}]
    <3>1. rest \in FiberState /\ rest.op = st.op /\ rest.pc = "deliver"
      <4>1. st.out \ {o} \in SUBSET Occurrence /\ "idle" \in Pcs
        BY <1>0 DEF FiberState, Pcs
      <4>2. rest \in FiberState
        BY <1>0, <4>1, EditType, NoLoopsType
      <4>. QED
        BY <1>0, <2>1, <4>2 DEF FiberState
    <3>. HIDE DEF rest
    <3>2. CASE Become(s, f, rest)
      BY <2>1, <3>1, <3>2 DEF Rests, Adding
    <3>3. CASE \E after \in Follow(st) : Become(s, f, after)
      <4>1. Complete(s, f, {})
        BY <3>3 DEF Complete
      <4>. QED
        BY <2>1, <4>1, CompleteRests
    <3>. QED
      BY <2>2, <3>2, <3>3 DEF rest
  <2>4. tag'[s] = tag[s] /\ mem'[s] = mem[s]
    BY <2>1 DEF repo
  <2>5. OthersRest(s)
    BY <2>1, <2>3, BecomeIs DEF OthersRest, Rests, repo
  <2>6. OwnerInvOf(s)'
    BY <2>3, <2>4, OwnerRests DEF OwnerInvOf
  <2>7. Plain(s, f)
    BY <2>1, <2>3, <2>4 DEF Plain, StaysOwner, disk
  <2>. QED
    BY <2>1, <2>5, <2>6, <2>7 DEF Kind
<1>. QED
  BY <1>1, <1>2, <1>3, <1>4, <1>5, <1>6, <1>7, <1>8, <1>9 DEF Step

\* A call or a tick that begins changes one fiber; an add names a new id.
Begins(s, f) ==
  /\ UNCHANGED <<disk, repo, phase, history>>
  /\ fiber[s][f].pc \in {"idle", "sample"}
  /\ \E new \in FiberState :
       /\ Become(s, f, new) /\ new.pc \in {"idle", "lock"}
       /\ \/ new.op # "add" /\ used' = used
          \/ new.op = "add" /\ new.id \in Ids \ used /\ used' = used \cup {new.id}
       /\ new.op = "update" =>
            {"updatePrompt", "reschedule"} \cap ToolOps # {}
       /\ phase[s] = "closed" => new.pc = "idle" \/ fiber[s][f].pc = "sample"

\* Every call of a tool and every tick of the scheduler begins like this.
LEMMA CallBegins ==
  ASSUME TypeOK, TypeOK', NEW s \in Sessions, NEW f \in Fibers, Call(s, f) \/ Sample(s, f)
  PROVE  Begins(s, f)
<1>1. Idle.op = "none" /\ Idle.pc = "idle" /\ Idle \in FiberState
  BY IdleType DEF Idle
<1>2. ASSUME NEW op, NEW i, NEW loop, NEW at, Request(s, f, op, i, loop, at)
      PROVE  \E new \in FiberState :
               Become(s, f, new) /\ new.pc = "lock" /\ new.op = op /\ new.id = i
  <2> DEFINE new == [Idle EXCEPT !.op = op, !.pc = "lock", !.id = i, !.loop = loop, !.at = at]
  <2>1. new.op = op /\ new.pc = "lock" /\ new.id = i
    BY DEF Idle
  <2>2. Become(s, f, new)
    BY <1>2 DEF Request
  <2>. HIDE DEF new
  <2>3. fiber'[s][f] = new
    BY <2>2, BecomeIs
  <2>4. new \in FiberState
    BY <2>3 DEF TypeOK
  <2>. QED
    BY <2>1, <2>2, <2>4
<1>3. CASE CallAdd(s, f)
  <2>1. PICK i \in Ids \ used :
          (\E loop : Request(s, f, "add", i, loop, 0)) /\ used' = used \cup {i}
    BY <1>3 DEF CallAdd
  <2>2. PICK new \in FiberState :
          Become(s, f, new) /\ new.pc = "lock" /\ new.op = "add" /\ new.id = i
    BY <1>2, <2>1
  <2>3. UNCHANGED <<disk, repo, phase, history>> /\ fiber[s][f].pc = "idle" /\ phase[s] = "open"
    BY <1>3 DEF CallAdd, Ready
  <2>. QED
    BY <2>1, <2>2, <2>3 DEF Begins
<1>4. CASE Call(s, f) /\ ~CallAdd(s, f)
  <2>1. /\ UNCHANGED <<disk, repo, phase, history, used>>
        /\ fiber[s][f].pc = "idle" /\ phase[s] = "open"
    BY <1>4 DEF Call, CallUpdate, CallArm, CallChange, CallRemoveAll, CallRunNow, Ready
  <2>2. \E op, i, loop, at :
          /\ Request(s, f, op, i, loop, at) /\ op # "add"
          /\ op = "update" => {"updatePrompt", "reschedule"} \cap ToolOps # {}
    <3>1. CASE CallUpdate(s, f)
      BY <3>1 DEF CallUpdate
    <3>2. CASE ~CallUpdate(s, f)
      <4>1. \E op \in {"remove", "pause", "resume", "arm", "removeAll", "runNow"} :
              \E i, loop, at : Request(s, f, op, i, loop, at)
        BY <1>4, <3>2 DEF Call, CallArm, CallChange, CallRemoveAll, CallRunNow
      <4>. QED
        BY <4>1
    <3>. QED
      BY <3>1, <3>2
  <2>3. PICK new \in FiberState :
          /\ Become(s, f, new) /\ new.pc = "lock" /\ new.op # "add"
          /\ new.op = "update" => {"updatePrompt", "reschedule"} \cap ToolOps # {}
    BY <1>2, <2>2
  <2>. QED
    BY <2>1, <2>3 DEF Begins
<1>5. CASE Sample(s, f)
  <2> DEFINE tick == [Idle EXCEPT !.op = "due", !.pc = "lock", !.at = now]
  <2>1. tick.op = "due" /\ tick.pc = "lock" /\ tick \in FiberState
    BY IdleType DEF Idle, TypeOK
  <2>2. Become(s, f, Idle) \/ Become(s, f, tick)
    BY <1>5 DEF Sample
  <2>. HIDE DEF tick
  <2>3. \E new \in FiberState :
          Become(s, f, new) /\ new.pc \in {"idle", "lock"} /\ new.op \in {"none", "due"}
    BY <1>1, <2>1, <2>2
  <2>4. /\ UNCHANGED <<disk, repo, phase, history, used>>
        /\ \/ fiber[s][f].pc = "sample"
           \/ fiber[s][f].pc = "idle" /\ phase[s] = "open"
    BY <1>5 DEF Sample
  <2>. QED
    BY <2>3, <2>4 DEF Begins
<1>. QED
  BY <1>3, <1>4, <1>5

\* The owner's invariant survives the begin of an operation.
LEMMA BeginsOwner ==
  ASSUME TypeOK, NEW s \in Sessions, NEW f \in Fibers, OwnerInvOf(s), Begins(s, f)
  PROVE  OwnerInvOf(s)' /\ OthersRest(s)
<1>1. PICK new : Become(s, f, new) /\ new.pc \in {"idle", "lock"}
  BY DEF Begins
<1>2. tag' = tag /\ mem' = mem /\ phase' = phase
  BY DEF Begins, repo
<1>. QED
  BY <1>1, <1>2, OwnerAfter, BecomeIs DEF OthersRest, OwnerInvOf, Writing

\* It survives the start of a session, its end and the turns of its agent (startSession,
\* stopSession, the end of the process).
LEMMA SessionOwner ==
  ASSUME TypeOK, NEW s \in Sessions, LeaseInvOf(s), OwnerInvOf(s),
         Start(s) \/ Stop(s) \/ Orphan(s) \/ Exit(s) \/ SetBusy(s)
  PROVE  OwnerInvOf(s)' /\ OthersRest(s)
<1>0. Sched \in Fibers /\ "dead" \notin Writing
  BY DEF Fibers, Writing
<1>1. Dead.pc = "dead" /\ Dead.op = "none"
  BY DEF Dead, Idle
<1>2. CASE Start(s)
  <2> DEFINE new == [Idle EXCEPT !.op = "init", !.pc = "probe"]
             m == [i \in Ids |-> IF i \in SessionIds THEN journal[Conversation[s]][i] ELSE NoLoop]
  <2>1. new.pc = "probe"
    BY DEF Idle
  <2>2. /\ Become(s, Sched, new) /\ tag' = tag /\ mem' = [mem EXCEPT ![s] = m]
        /\ \A r \in Sessions \ {s} : phase'[r] = phase[r]
    BY <1>2 DEF Start, TypeOK
  <2>. HIDE DEF new
  <2>3. ~HasProjectLoops(m)
    BY IdsAssumption DEF HasProjectLoops, Present
  <2>. HIDE DEF m
  <2>4. mem'[s] = m /\ OthersRest(s)
    BY <1>0, <2>2, BecomeIs DEF TypeOK, OthersRest
  <2>. QED
    BY <1>0, <2>1, <2>2, <2>3, <2>4, OwnerAfter DEF Writing
<1>3. CASE Stop(s)
  <2>1. PICK new : Become(s, Sched, new) /\ new.pc \in {"dead", "orphan"}
    <3>1. [fiber[s][Sched] EXCEPT !.pc = "orphan"].pc = "orphan"
      BY <1>0 DEF TypeOK, FiberState
    <3>. QED
      BY <1>1, <1>3, <3>1 DEF Stop
  <2>2. tag' = tag /\ mem' = mem /\ \A r \in Sessions \ {s} : phase'[r] = phase[r]
    BY <1>3 DEF Stop, repo, TypeOK
  <2>. QED
    BY <1>0, <2>1, <2>2, OwnerAfter, BecomeIs DEF OthersRest, OwnerInvOf, Writing
<1>4. CASE Orphan(s)
  <2>1. Become(s, Sched, Dead) /\ tag' = tag /\ mem' = mem /\ phase' = phase
    BY <1>4 DEF Orphan, repo
  <2>. QED
    BY <1>0, <1>1, <2>1, OwnerAfter, BecomeIs DEF OthersRest, OwnerInvOf
<1>5. CASE Exit(s)
  <2>1. /\ mem'[s] = NoLoops /\ \A f \in Fibers : fiber'[s][f] = Dead
        /\ \A r \in Sessions \ {s} :
             mem'[r] = mem[r] /\ phase'[r] = phase[r] /\ tag'[r] = tag[r] /\ fiber'[r] = fiber[r]
    BY <1>5 DEF Exit, TypeOK
  <2>2. ~HasProjectLoops(NoLoops)
    BY DEF HasProjectLoops, NoLoops, Present
  <2>. QED
    BY <1>0, <1>1, <2>1, <2>2 DEF OwnerInvOf, OthersRest
<1>6. CASE SetBusy(s)
  <2>1. UNCHANGED <<tag, mem, phase, fiber>>
    BY <1>6 DEF SetBusy, repo
  <2>. QED
    BY <2>1 DEF OwnerInvOf, OthersRest
<1>. QED
  BY <1>2, <1>3, <1>4, <1>5, <1>6

\* The owner's invariant always holds.
LEMMA OwnerInvariance == Spec => []OwnerInv
<1>1. Init => OwnerInv
  <2>. SUFFICES ASSUME Init, NEW s \in Sessions PROVE OwnerInvOf(s)
    BY DEF OwnerInv
  <2>1. mem[s] = NoLoops /\ \A f \in Fibers : fiber[s][f].pc = "idle"
    BY DEF Init, Idle
  <2>2. ~HasProjectLoops(NoLoops)
    BY DEF HasProjectLoops, NoLoops, Present
  <2>. QED
    BY <2>1, <2>2 DEF OwnerInvOf, Writing
<1>2. TypeOK /\ TypeOK' /\ LeaseInv /\ OwnerInv /\ [Next]_vars => OwnerInv'
  <2>. SUFFICES ASSUME TypeOK, TypeOK', LeaseInv, OwnerInv, [Next]_vars PROVE OwnerInv'
    OBVIOUS
  <2>1. ASSUME NEW s \in Sessions, OwnerInvOf(s)', OthersRest(s) PROVE OwnerInv'
    <3>. SUFFICES ASSUME NEW r \in Sessions, r # s PROVE OwnerInvOf(r)'
      BY <2>1 DEF OwnerInv
    <3>. QED
      BY <2>1 DEF OwnerInv, OwnerInvOf, OthersRest
  <2>2. CASE Tick \/ UNCHANGED vars
    <3>1. UNCHANGED <<mem, tag, fiber>>
      BY <2>2 DEF Tick, vars, disk, repo
    <3>. QED
      BY <3>1 DEF OwnerInv, OwnerInvOf
  <2>3. ASSUME NEW s \in Sessions, NEW f \in Fibers, Step(s, f) PROVE OwnerInv'
    <3>1. Kind(s, f)
      BY <2>3, StepKind DEF LeaseInv, OwnerInv
    <3>. QED
      BY <2>1, <3>1 DEF Kind
  <2>4. ASSUME NEW s \in Sessions, NEW f \in Fibers, Call(s, f) \/ Sample(s, f) PROVE OwnerInv'
    BY <2>1, <2>4, CallBegins, BeginsOwner DEF OwnerInv
  <2>5. ASSUME NEW s \in Sessions,
               Start(s) \/ Stop(s) \/ Orphan(s) \/ Exit(s) \/ SetBusy(s)
        PROVE  OwnerInv'
    BY <2>1, <2>5, SessionOwner DEF LeaseInv, OwnerInv
  <2>. QED
    BY <2>2, <2>3, <2>4, <2>5 DEF Next
<1>. QED
  BY <1>1, <1>2, TypeCorrect, LeaseInvariance, PTL DEF Spec

\* For any sessions, stops, exits and failures: a session that is not the owner
\* has no project loop in memory, so that the merge with the file by the next
\* owner meets no duplicate (Inactive and Follower of the repository state).
THEOREM OthersHoldNothing == Spec => []OthersHoldNoProjectLoop
<1>1. OwnerInv => OthersHoldNoProjectLoop
  BY DEF OwnerInv, OwnerInvOf, OthersHoldNoProjectLoop
<1>. QED
  BY <1>1, OwnerInvariance, PTL

-----------------------------------------------------------------------------
(* The file, when sessions stop only between operations *)

\* A stopped session does nothing any more, and leaves no rename behind.
StopInvOf(s) ==
  \A f \in Fibers :
    /\ fiber[s][f].pc # "orphan"
    /\ phase[s] = "closed" => fiber[s][f].pc \in {"idle", "dead"}

\* The same for all sessions.
StopInv == \A s \in Sessions : StopInvOf(s)

\* The memory of the owner is the file, which is ahead between the replacement
\* and the update of the memory; what is about to replace the file brings back
\* no loop that is not in it.
MemoryInvOf(s) ==
  /\ phase[s] = "open" /\ tag[s] = "Owner" =>
       (\E f \in Fibers : fiber[s][f].pc = "settle") \/ ProjectPart(mem[s]) = file
  /\ \A f \in Fibers :
       /\ fiber[s][f].pc = "settle" => ProjectPart(fiber[s][f].next) = file
       /\ fiber[s][f].pc = "persist" =>
            \A i \in ProjectIds : fiber[s][f].next[i] # NoLoop =>
              file[i] # NoLoop \/ Comes(fiber[s][f], i)

\* The same for all sessions.
MemoryInv == \A s \in Sessions : MemoryInvOf(s)

\* Every add names an id of its own.
AddInv ==
  /\ \A s \in Sessions, f \in Fibers : Adding(fiber[s][f]) => fiber[s][f].id \in used
  /\ \A s, r \in Sessions, f, g \in Fibers :
       Adding(fiber[s][f]) /\ Adding(fiber[r][g]) /\ fiber[s][f].id = fiber[r][g].id =>
         s = r /\ f = g

\* The ids in the file, those deleted from it and those about to be added are
\* different ids.
GoneInv ==
  /\ gone \subseteq used
  /\ \A i \in ProjectIds : file[i] # NoLoop => i \in used /\ i \notin gone
  /\ \A s \in Sessions, f \in Fibers, i \in ProjectIds :
       Adding(fiber[s][f]) /\ fiber[s][f].id = i => file[i] = NoLoop /\ i \notin gone

\* The invariant of the file.
FileInv == StopInv /\ MemoryInv /\ AddInv /\ GoneInv

\* A fiber that takes a step of a mutation is in one.
LEMMA StepMoves ==
  ASSUME NEW s \in Sessions, NEW f \in Fibers, Step(s, f)
  PROVE  fiber[s][f].pc \notin {"idle", "dead"}
BY DEF Step, Enter, Probe, Acquire, Load, LoadFails, Denied, Persist, Settle, Deliver

\* An operation that is entered or writes belongs to an open session.
LEMMA InsideIsOpen ==
  ASSUME TypeOK, NEW s \in Sessions, NEW f \in Fibers, LeaseInvOf(s), StopInvOf(s),
         fiber[s][f].pc \in {"lock", "persist", "settle"}
  PROVE  phase[s] = "open"
BY DEF TypeOK, LeaseInvOf, StopInvOf, Fibers, Waiting

\* A writer holds the lease, so no other session writes or takes itself for the
\* owner.
LEMMA WriterHolds ==
  ASSUME TypeOK, LeaseInv, OwnerInv, StopInv, NEW s \in Sessions, NEW f \in Fibers,
         fiber[s][f].pc \in Writing
  PROVE  /\ phase[s] = "open" /\ tag[s] = "Owner" /\ lease = s
         /\ \A r \in Sessions \ {s} :
              /\ ~(phase[r] = "open" /\ tag[r] = "Owner")
              /\ \A g \in Fibers : fiber[r][g].pc \notin Writing
<1>1. \A r \in Sessions, g \in Fibers : fiber[r][g].pc \in Writing =>
        phase[r] = "open" /\ tag[r] = "Owner"
  BY InsideIsOpen DEF Writing, OwnerInv, OwnerInvOf, LeaseInv, StopInv
<1>2. \A r \in Sessions : phase[r] = "open" /\ tag[r] = "Owner" => lease = r
  BY DEF LeaseInv, LeaseInvOf
<1>. QED
  BY <1>1, <1>2

\* The kinds keep a stopped session quiet.
LEMMA KindStop ==
  ASSUME TypeOK, NEW s \in Sessions, NEW f \in Fibers, LeaseInvOf(s), StopInvOf(s),
         Kind(s, f), fiber[s][f].pc \notin {"idle", "dead"}
  PROVE  StopInvOf(s)'
<1>1. phase[s] # "closed"
  BY DEF StopInvOf
<1>2. CASE Rests(s, f)
  <2>1. PICK new : /\ Become(s, f, new) /\ new.pc \notin {"persist", "settle", "orphan"}
                   /\ phase'[s] = "closed" =>
                        phase[s] = "starting" /\ new.pc \in {"idle", "dead"}
    BY <1>1, <1>2 DEF Rests
  <2>2. \A g \in Fibers : fiber'[s][g] = IF g = f THEN new ELSE fiber[s][g]
    BY <2>1, BecomeIs
  <2>3. phase[s] = "starting" => f = Sched /\ \A g \in Fibers \ {f} : fiber[s][g].pc = "idle"
    BY DEF LeaseInvOf
  <2>. QED
    BY <2>1, <2>2, <2>3 DEF StopInvOf
<1>3. CASE Persisting(s, f) \/ Written(s, f)
  <2>1. phase'[s] # "closed"
    BY <1>1, <1>3 DEF Persisting, Written
  <2>2. PICK new : Become(s, f, new) /\ new.pc \in {"persist", "settle"}
    <3>1. fiber[s][f] \in FiberState
      BY DEF TypeOK
    <3>2. \A r : [fiber[s][f] EXCEPT !.pc = "persist", !.next = r.next, !.out = r.out].pc
                   = "persist"
      BY <3>1 DEF FiberState
    <3>3. [fiber[s][f] EXCEPT !.pc = "settle"].pc = "settle"
      BY <3>1 DEF FiberState
    <3>. QED
      BY <1>3, <3>2, <3>3 DEF Persisting, Written
  <2>3. \A g \in Fibers : fiber'[s][g] = IF g = f THEN new ELSE fiber[s][g]
    BY <2>2, BecomeIs
  <2>. QED
    BY <2>1, <2>2, <2>3 DEF StopInvOf
<1>. QED
  BY <1>2, <1>3 DEF Kind, Plain, Settled, Appended

\* The project part of what an operation works on is the file.
LEMMA LoopsAreFile ==
  ASSUME TypeOK, NEW s \in Sessions, NEW f \in Fibers, LeaseInvOf(s), StopInvOf(s),
         MemoryInvOf(s), NoOtherWriter(s, f),
         \/ fiber[s][f].pc = "load"
         \/ fiber[s][f].pc = "lock" /\ tag[s] = "Owner"
  PROVE  \A i \in ProjectIds : Loops(s, f)[i] = file[i]
<1>1. CASE fiber[s][f].pc = "load"
  BY <1>1 DEF Loops, Merged, Ids
<1>2. CASE fiber[s][f].pc = "lock" /\ tag[s] = "Owner"
  <2>1. phase[s] = "open" /\ \A g \in Fibers : fiber[s][g].pc # "settle"
    BY <1>2, InsideIsOpen DEF NoOtherWriter, Writing
  <2>2. ProjectPart(mem[s]) = file
    BY <1>2, <2>1 DEF MemoryInvOf
  <2>. QED
    BY <1>2, <2>2 DEF Loops, ProjectPart
<1>. QED
  BY <1>1, <1>2

\* A memory whose project loops are those of the file.
LEMMA PartIsFile ==
  ASSUME TypeOK, NEW m, \A i \in ProjectIds : m[i] = file[i]
  PROVE  ProjectPart(m) = file
BY DEF TypeOK, ProjectPart

\* A fiber that rests, in a session whose owner has the file in memory.
LEMMA MemoryRests ==
  ASSUME TypeOK, NEW s \in Sessions, NEW f \in Fibers, MemoryInvOf(s), Rests(s, f),
         file' = file,
         phase'[s] = "open" /\ tag'[s] = "Owner" =>
           (\E g \in Fibers \ {f} : fiber[s][g].pc = "settle") \/ ProjectPart(mem'[s]) = file
  PROVE  MemoryInvOf(s)'
<1>1. PICK new : Become(s, f, new) /\ new.pc \notin {"persist", "settle", "orphan"}
  BY DEF Rests
<1>2. \A g \in Fibers : fiber'[s][g] = IF g = f THEN new ELSE fiber[s][g]
  BY <1>1, BecomeIs
<1>. QED
  BY <1>1, <1>2 DEF MemoryInvOf

\* The kinds keep the memory of the owner in step with the file.
LEMMA KindMemory ==
  ASSUME TypeOK, NEW s \in Sessions, NEW f \in Fibers, LeaseInvOf(s), StopInvOf(s),
         MemoryInvOf(s), Kind(s, f)
  PROVE  MemoryInvOf(s)'
<1> DEFINE st == fiber[s][f]
<1>0. st \in FiberState
  BY DEF TypeOK
<1>1. CASE Plain(s, f)
  <2>1. mem'[s] = Merged(s) => ProjectPart(mem'[s]) = file
    BY PartIsFile DEF Merged, Ids
  <2>2. phase'[s] = "open" /\ tag'[s] = "Owner" =>
          (\E g \in Fibers \ {f} : fiber[s][g].pc = "settle") \/ ProjectPart(mem'[s]) = file
    BY <1>1, <2>1 DEF Plain, StaysOwner, MemoryInvOf
  <2>. QED
    BY <1>1, <2>2, MemoryRests DEF Plain
<1>2. CASE Persisting(s, f)
  <2>1. PICK r \in Results(st, Loops(s, f)) :
          Become(s, f, [st EXCEPT !.pc = "persist", !.next = r.next, !.out = r.out])
    BY <1>2 DEF Persisting
  <2> DEFINE new == [st EXCEPT !.pc = "persist", !.next = r.next, !.out = r.out]
  <2>2. /\ new.pc = "persist" /\ new.next = r.next
        /\ new.op = st.op /\ new.id = st.id
    BY <1>0 DEF FiberState
  <2>. HIDE DEF new
  <2>3. \A g \in Fibers : fiber'[s][g] = IF g = f THEN new ELSE fiber[s][g]
    BY <2>1, BecomeIs DEF new
  <2>4. \A i \in ProjectIds : Loops(s, f)[i] = file[i]
    BY <1>2, LoopsAreFile DEF Persisting
  <2>5. mem'[s] = Loops(s, f) /\ file' = file
    BY <1>2 DEF Persisting
  <2>6. ProjectPart(mem'[s]) = file
    BY <2>4, <2>5, PartIsFile
  <2>7. \A i \in ProjectIds : r.next[i] # NoLoop => file[i] # NoLoop \/ Comes(st, i)
    BY <1>0, <2>4, LoopsType, ResultsAre DEF ResultIs, Ids
  <2>8. \A i \in ProjectIds : new.next[i] # NoLoop => file[i] # NoLoop \/ Comes(new, i)
    BY <2>2, <2>7 DEF Comes
  <2>9. \A g \in Fibers \ {f} : fiber[s][g].pc \notin Writing
    BY <1>2 DEF Persisting, NoOtherWriter
  <2>. QED
    BY <2>2, <2>3, <2>5, <2>6, <2>8, <2>9 DEF MemoryInvOf, Writing
<1>3. CASE Written(s, f)
  <2> DEFINE new == [st EXCEPT !.pc = "settle"]
  <2>1. new.pc = "settle" /\ new.next = st.next
    BY <1>0 DEF FiberState
  <2>. HIDE DEF new
  <2>2. \A g \in Fibers : fiber'[s][g] = IF g = f THEN new ELSE fiber[s][g]
    BY <1>3, BecomeIs DEF Written, new
  <2>3. NoOtherWriter(s, f)
    BY <1>3, AloneInTheLock DEF Written, Locked
  <2>4. file' = ProjectPart(st.next)
    BY <1>3 DEF Written, Replace
  <2>. QED
    BY <2>1, <2>2, <2>3, <2>4 DEF MemoryInvOf, NoOtherWriter, Writing
<1>4. CASE Settled(s, f)
  <2>1. ProjectPart(mem'[s]) = file
    BY <1>4 DEF Settled, MemoryInvOf
  <2>. QED
    BY <1>4, <2>1, MemoryRests DEF Settled
<1>5. CASE Appended(s, f)
  <2>1. PICK r \in Results(st, Loops(s, f)) : mem'[s] = r.next
    BY <1>5 DEF Appended
  <2>2. \A i \in ProjectIds : r.next[i] = Loops(s, f)[i]
    BY <1>0, <1>5, LoopsType, ResultsAre DEF Appended, ResultIs, Ids
  <2>3. ASSUME phase'[s] = "open", tag'[s] = "Owner" PROVE ProjectPart(mem'[s]) = file
    <3>1. \/ st.pc = "load"
          \/ st.pc = "lock" /\ tag[s] = "Owner"
      BY <1>5, <2>3 DEF Appended, StaysOwner
    <3>2. \A i \in ProjectIds : Loops(s, f)[i] = file[i]
      BY <1>5, <3>1, LoopsAreFile DEF Appended
    <3>. QED
      BY <2>1, <2>2, <3>2, PartIsFile
  <2>. QED
    BY <1>5, <2>3, MemoryRests DEF Appended
<1>. QED
  BY <1>1, <1>2, <1>3, <1>4, <1>5 DEF Kind

\* No fiber adds another loop than before.
AddersStay ==
  \A s \in Sessions, f \in Fibers :
    Adding(fiber'[s][f]) => Adding(fiber[s][f]) /\ fiber'[s][f].id = fiber[s][f].id

\* Nor does one in the steps of a mutation.
LEMMA KindAdds ==
  ASSUME TypeOK, NEW s \in Sessions, NEW f \in Fibers, Kind(s, f)
  PROVE  AddersStay
<1> DEFINE st == fiber[s][f]
<1>0. st \in FiberState
  BY DEF TypeOK
<1>1. \E new : /\ Become(s, f, new)
               /\ Adding(new) => Adding(st) /\ new.id = st.id
  <2>1. CASE Rests(s, f)
    BY <2>1 DEF Rests
  <2>2. CASE Persisting(s, f)
    <3>1. PICK r : Become(s, f, [st EXCEPT !.pc = "persist", !.next = r.next, !.out = r.out])
      BY <2>2 DEF Persisting
    <3> DEFINE new == [st EXCEPT !.pc = "persist", !.next = r.next, !.out = r.out]
    <3>2. new.op = st.op /\ new.id = st.id
      BY <1>0 DEF FiberState
    <3>. HIDE DEF new
    <3>3. Adding(new) => Adding(st)
      BY <2>2, <3>2 DEF Adding, Persisting
    <3>. QED
      BY <3>1, <3>2, <3>3 DEF new
  <2>3. CASE Written(s, f)
    <3> DEFINE new == [st EXCEPT !.pc = "settle"]
    <3>1. new.pc = "settle"
      BY <1>0 DEF FiberState
    <3>. HIDE DEF new
    <3>2. ~Adding(new)
      BY <3>1 DEF Adding
    <3>. QED
      BY <2>3, <3>2 DEF Written, new
  <2>. QED
    BY <2>1, <2>2, <2>3 DEF Kind, Plain, Settled, Appended
<1>. QED
  BY <1>1, BecomeIs DEF AddersStay

\* The deleted ids, those in the file and those about to be added stay different
\* when the file is replaced.
LEMMA WrittenGone ==
  ASSUME TypeOK, NEW s \in Sessions, NEW f \in Fibers, MemoryInvOf(s), AddInv, GoneInv,
         Written(s, f), used' = used, AddersStay
  PROVE  GoneInv'
<1> DEFINE st == fiber[s][f]
<1>0. /\ st \in FiberState /\ st.pc = "persist" /\ gone \subseteq ProjectIds
      /\ file' = [i \in ProjectIds |-> st.next[i]]
      /\ gone' = gone \cup {i \in ProjectIds : file[i] # NoLoop /\ st.next[i] = NoLoop}
  BY DEF TypeOK, Written, Replace, ProjectPart
<1>1. \A i \in ProjectIds : st.next[i] # NoLoop => file[i] # NoLoop \/ Comes(st, i)
  BY <1>0 DEF MemoryInvOf
<1>2. ~Adding(fiber'[s][f])
  <2>1. fiber'[s][f].pc = "settle"
    BY <1>0, BecomeIs DEF Written, FiberState
  <2>. QED
    BY <2>1 DEF Adding
<1>3. \A i \in ProjectIds : Comes(st, i) =>
        Adding(st) /\ i \in used /\ i \notin gone /\ file[i] = NoLoop
  BY <1>0 DEF Comes, Adding, AddInv, GoneInv
<1>4. gone' \subseteq used'
  BY <1>0 DEF GoneInv
<1>5. \A i \in ProjectIds : file'[i] # NoLoop => i \in used' /\ i \notin gone'
  BY <1>0, <1>1, <1>3 DEF GoneInv
<1>6. ASSUME NEW r \in Sessions, NEW g \in Fibers, NEW i \in ProjectIds,
             Adding(fiber'[r][g]), fiber'[r][g].id = i
      PROVE  file'[i] = NoLoop /\ i \notin gone'
  <2>1. Adding(fiber[r][g]) /\ fiber[r][g].id = i
    BY <1>6 DEF AddersStay
  <2>2. file[i] = NoLoop /\ i \notin gone
    BY <2>1 DEF GoneInv
  <2>3. ~Comes(st, i)
    <3>. SUFFICES ASSUME Comes(st, i) PROVE FALSE
      OBVIOUS
    <3>1. Adding(st) /\ st.id = i
      BY <1>3 DEF Comes
    <3>2. r = s /\ g = f
      BY <2>1, <3>1 DEF AddInv
    <3>. QED
      BY <1>2, <1>6, <3>2
  <2>. QED
    BY <1>0, <1>1, <2>2, <2>3
<1>. QED
  BY <1>4, <1>5, <1>6 DEF GoneInv

\* While the file and the deleted ids stay, ids may be drawn.
LEMMA SameGone ==
  ASSUME TypeOK, AddInv, GoneInv, UNCHANGED <<file, gone, used>>, AddersStay
  PROVE  GoneInv'
<1>1. \A s \in Sessions, f \in Fibers, i \in ProjectIds :
        Adding(fiber'[s][f]) /\ fiber'[s][f].id = i =>
          Adding(fiber[s][f]) /\ fiber[s][f].id = i
  BY DEF AddersStay
<1>. QED
  BY <1>1 DEF GoneInv

\* Nor do the adds come to share an id.
LEMMA SameAdds ==
  ASSUME AddInv, used \subseteq used', AddersStay
  PROVE  AddInv'
BY DEF AddInv, AddersStay

\* A step of a mutation keeps the invariant of the file.
LEMMA StepFile ==
  ASSUME TypeOK, LeaseInv, OwnerInv, FileInv, NEW s \in Sessions, NEW f \in Fibers, Step(s, f)
  PROVE  FileInv'
<1>1. /\ Kind(s, f) /\ fiber[s][f].pc \notin {"idle", "dead"}
      /\ LeaseInvOf(s) /\ StopInvOf(s) /\ MemoryInvOf(s)
  BY StepKind, StepMoves DEF LeaseInv, OwnerInv, FileInv, StopInv, MemoryInv
<1>2. /\ used' = used /\ AddersStay
      /\ \A r \in Sessions \ {s} :
           mem'[r] = mem[r] /\ phase'[r] = phase[r] /\ tag'[r] = tag[r] /\ fiber'[r] = fiber[r]
  BY <1>1, KindAdds DEF Kind, OthersRest
<1>3. StopInv'
  <2>1. \A r \in Sessions \ {s} : StopInvOf(r)'
    BY <1>2 DEF FileInv, StopInv, StopInvOf
  <2>. QED
    BY <1>1, <2>1, KindStop DEF StopInv
<1>4. MemoryInv'
  <2>1. MemoryInvOf(s)'
    BY <1>1, KindMemory
  <2>2. ASSUME NEW r \in Sessions \ {s} PROVE MemoryInvOf(r)'
    <3>1. MemoryInvOf(r)
      BY DEF FileInv, MemoryInv
    <3>2. CASE file' = file
      BY <1>2, <3>1, <3>2 DEF MemoryInvOf
    <3>3. CASE Written(s, f)
      <4>1. /\ ~(phase[r] = "open" /\ tag[r] = "Owner")
            /\ \A g \in Fibers : fiber[r][g].pc \notin Writing
        BY <3>3, WriterHolds DEF Written, Writing, FileInv
      <4>. QED
        BY <1>2, <4>1 DEF MemoryInvOf, Writing
    <3>. QED
      BY <1>1, <3>2, <3>3 DEF Kind, Plain, Persisting, Settled, Appended
  <2>. QED
    BY <2>1, <2>2 DEF MemoryInv
<1>5. AddInv'
  BY <1>2, SameAdds DEF FileInv
<1>6. GoneInv'
  <2>1. CASE Written(s, f)
    BY <1>1, <1>2, <2>1, WrittenGone DEF FileInv
  <2>2. CASE UNCHANGED <<file, gone>>
    BY <1>2, <2>2, SameGone DEF FileInv
  <2>. QED
    BY <1>1, <2>1, <2>2 DEF Kind, Plain, Persisting, Settled, Appended
<1>. QED
  BY <1>3, <1>4, <1>5, <1>6 DEF FileInv

\* So does a call or a tick that begins: an add draws an id nobody has used.
LEMMA BeginsFile ==
  ASSUME TypeOK, FileInv, NEW s \in Sessions, NEW f \in Fibers, Begins(s, f)
  PROVE  FileInv'
<1>1. PICK new \in FiberState :
        /\ Become(s, f, new) /\ new.pc \in {"idle", "lock"}
        /\ \/ new.op # "add" /\ used' = used
           \/ new.op = "add" /\ new.id \in Ids \ used /\ used' = used \cup {new.id}
        /\ phase[s] = "closed" => new.pc = "idle" \/ fiber[s][f].pc = "sample"
  BY DEF Begins
<1>2. /\ fiber[s][f].pc \in {"idle", "sample"}
      /\ UNCHANGED <<mem, tag, phase, file, gone>>
  BY DEF Begins, disk, repo
<1>3. /\ fiber'[s][f] = new
      /\ \A g \in Fibers : g # f => fiber'[s][g] = fiber[s][g]
      /\ \A r \in Sessions : r # s => fiber'[r] = fiber[r]
  BY <1>1, BecomeIs
<1>4. StopInv'
  <2>1. StopInvOf(s)'
    <3>1. StopInvOf(s)
      BY DEF FileInv, StopInv
    <3>. QED
      BY <1>1, <1>2, <1>3, <3>1 DEF StopInvOf
  <2>2. \A r \in Sessions : r # s => StopInvOf(r)'
    BY <1>2, <1>3 DEF FileInv, StopInv, StopInvOf
  <2>. QED
    BY <2>1, <2>2 DEF StopInv
<1>5. MemoryInv'
  <2>1. MemoryInvOf(s)'
    <3>1. MemoryInvOf(s)
      BY DEF FileInv, MemoryInv
    <3>. QED
      BY <1>1, <1>2, <1>3, <3>1 DEF MemoryInvOf
  <2>2. \A r \in Sessions : r # s => MemoryInvOf(r)'
    BY <1>2, <1>3 DEF FileInv, MemoryInv, MemoryInvOf
  <2>. QED
    BY <2>1, <2>2 DEF MemoryInv
<1>6. CASE new.op # "add" /\ used' = used
  <2>1. AddersStay
    BY <1>3, <1>6 DEF AddersStay, Adding
  <2>. QED
    BY <1>2, <1>4, <1>5, <1>6, <2>1, SameAdds, SameGone DEF FileInv
<1>7. CASE new.op = "add" /\ new.id \in Ids \ used /\ used' = used \cup {new.id}
  <2>1. \A r \in Sessions, g \in Fibers :
          \/ r = s /\ g = f
          \/ /\ fiber'[r][g] = fiber[r][g]
             /\ Adding(fiber[r][g]) => fiber[r][g].id \in used
    BY <1>3 DEF FileInv, AddInv
  <2>2. AddInv'
    BY <1>3, <1>7, <2>1 DEF FileInv, AddInv
  <2>3. GoneInv'
    BY <1>2, <1>3, <1>7, <2>1 DEF FileInv, GoneInv
  <2>. QED
    BY <1>4, <1>5, <2>2, <2>3 DEF FileInv
<1>. QED
  BY <1>1, <1>6, <1>7

\* A session that starts, stops between operations, exits or is given a turn.
LEMMA SessionFile ==
  ASSUME GracefulStop, TypeOK, LeaseInv, OwnerInv, FileInv, NEW s \in Sessions,
         Start(s) \/ Stop(s) \/ Orphan(s) \/ Exit(s) \/ SetBusy(s)
  PROVE  FileInv'
<1>0. Sched \in Fibers /\ LeaseInvOf(s) /\ StopInvOf(s) /\ MemoryInvOf(s)
  BY DEF Fibers, LeaseInv, FileInv, StopInv, MemoryInv
<1>1. Dead.pc = "dead" /\ Dead.op = "none"
  BY DEF Dead, Idle
<1>2. ~Orphan(s)
  BY <1>0 DEF Orphan, StopInvOf
<1>3. UNCHANGED <<file, gone, used>> /\ OthersRest(s)
  <2>1. OthersRest(s)
    BY <1>0, SessionOwner DEF OwnerInv
  <2>. QED
    BY <1>2, <2>1 DEF Start, Stop, Exit, SetBusy, disk
<1>4. ASSUME NEW new, Become(s, Sched, new), new.op # "add",
             new.pc \notin {"orphan", "persist", "settle"}, phase'[s] # "open",
             \A f \in Fibers : fiber[s][f].pc \in {"idle", "dead"},
             phase'[s] = "closed" => new.pc = "dead"
      PROVE  StopInvOf(s)' /\ MemoryInvOf(s)' /\ AddersStay
  <2>1. \A f \in Fibers : fiber'[s][f] = IF f = Sched THEN new ELSE fiber[s][f]
    BY <1>0, <1>4, BecomeIs
  <2>. QED
    BY <1>3, <1>4, <2>1 DEF StopInvOf, MemoryInvOf, AddersStay, Adding, OthersRest
<1>5. ASSUME Start(s) PROVE StopInvOf(s)' /\ MemoryInvOf(s)' /\ AddersStay
  <2> DEFINE new == [Idle EXCEPT !.op = "init", !.pc = "probe"]
  <2>1. new.pc = "probe" /\ new.op = "init" /\ Become(s, Sched, new)
    BY <1>5 DEF Idle, Start
  <2>. HIDE DEF new
  <2>2. phase'[s] = "starting" /\ \A f \in Fibers : fiber[s][f].pc = "idle"
    BY <1>0, <1>5 DEF Start, TypeOK, LeaseInvOf
  <2>. QED
    BY <1>4, <2>1, <2>2
<1>6. ASSUME Stop(s) PROVE StopInvOf(s)' /\ MemoryInvOf(s)' /\ AddersStay
  <2>1. /\ phase'[s] = "closed" /\ Become(s, Sched, Dead)
        /\ \A f \in Fibers : fiber[s][f].pc \in {"idle", "dead"}
    BY <1>0, <1>6 DEF Stop, TypeOK
  <2>. QED
    BY <1>1, <1>4, <2>1
<1>7. ASSUME Exit(s) PROVE StopInvOf(s)' /\ MemoryInvOf(s)' /\ AddersStay
  <2>1. phase'[s] = "exited" /\ \A f \in Fibers : fiber'[s][f] = Dead
    BY <1>7 DEF Exit, TypeOK
  <2>. QED
    BY <1>1, <1>3, <2>1 DEF StopInvOf, MemoryInvOf, AddersStay, Adding, OthersRest
<1>8. ASSUME SetBusy(s) PROVE StopInvOf(s)' /\ MemoryInvOf(s)' /\ AddersStay
  <2>1. UNCHANGED <<mem, tag, phase, fiber, file>>
    BY <1>8 DEF SetBusy, disk, repo
  <2>. QED
    BY <1>0, <2>1 DEF StopInvOf, MemoryInvOf, AddersStay
<1>9. StopInvOf(s)' /\ MemoryInvOf(s)' /\ AddersStay
  BY <1>2, <1>5, <1>6, <1>7, <1>8
<1>10. \A r \in Sessions \ {s} : StopInvOf(r)' /\ MemoryInvOf(r)'
  BY <1>3 DEF FileInv, StopInv, MemoryInv, StopInvOf, MemoryInvOf, OthersRest
<1>11. AddInv' /\ GoneInv'
  BY <1>3, <1>9, SameAdds, SameGone DEF FileInv
<1>. QED
  BY <1>9, <1>10, <1>11 DEF FileInv, StopInv, MemoryInv

\* The invariant of the file always holds, when sessions stop between operations.
LEMMA FileInvariance ==
  ASSUME GracefulStop
  PROVE  Spec => []FileInv
<1>1. Init => FileInv
  <2>. SUFFICES ASSUME Init PROVE FileInv
    OBVIOUS
  <2>1. \A s \in Sessions, f \in Fibers : fiber[s][f].pc = "idle" /\ fiber[s][f].op = "none"
    BY DEF Init, Idle
  <2>2. \A s \in Sessions : phase[s] = "new"
    BY DEF Init
  <2>3. gone = {} /\ \A i \in ProjectIds : file[i] = NoLoop
    BY DEF Init
  <2>. QED
    BY <2>1, <2>2, <2>3
       DEF FileInv, StopInv, StopInvOf, MemoryInv, MemoryInvOf, AddInv, GoneInv, Adding
<1>2. TypeOK /\ TypeOK' /\ LeaseInv /\ OwnerInv /\ FileInv /\ [Next]_vars => FileInv'
  <2>. SUFFICES ASSUME TypeOK, TypeOK', LeaseInv, OwnerInv, FileInv, [Next]_vars
                PROVE  FileInv'
    OBVIOUS
  <2>1. CASE Tick \/ UNCHANGED vars
    <3>1. UNCHANGED <<mem, tag, fiber, phase, file, gone, used>>
      BY <2>1 DEF Tick, vars, disk, repo
    <3>. QED
      BY <3>1 DEF FileInv, StopInv, StopInvOf, MemoryInv, MemoryInvOf, AddInv, GoneInv
  <2>2. ASSUME NEW s \in Sessions, NEW f \in Fibers, Call(s, f) \/ Sample(s, f)
        PROVE  FileInv'
    BY <2>2, CallBegins, BeginsFile
  <2>. QED
    BY <2>1, <2>2, StepFile, SessionFile DEF Next
<1>. QED
  BY <1>1, <1>2, TypeCorrect, LeaseInvariance, OwnerInvariance, PTL DEF Spec

\* For any sessions, exits and failures, when sessions stop between operations:
\* the owner's memory is the file, except between the replacement of the file
\* and the update of the memory (commit writes the file, then sets the state).
THEOREM OwnerIsCurrent ==
  ASSUME GracefulStop
  PROVE  Spec => []OwnerMemoryIsFile
<1>1. MemoryInv => OwnerMemoryIsFile
  BY DEF MemoryInv, MemoryInvOf, OwnerMemoryIsFile
<1>. QED
  BY <1>1, FileInvariance, PTL DEF FileInv

\* When sessions stop between operations, a loop that has been deleted from the
\* file is never written back, by no session that still remembers it or is
\* about to change it.
THEOREM DeletedIsGone ==
  ASSUME GracefulStop
  PROVE  Spec => []DeletedStaysDeleted
<1>1. TypeOK /\ OwnerInv /\ FileInv => DeletedStaysDeleted
  <2>. SUFFICES ASSUME TypeOK, OwnerInv, FileInv, NEW i \in gone
                PROVE  /\ file[i] = NoLoop
                       /\ \A s \in Sessions :
                            phase[s] = "open" /\ LockFree(s) => mem[s][i] = NoLoop
    BY DEF DeletedStaysDeleted
  <2>1. i \in ProjectIds /\ file[i] = NoLoop
    BY DEF TypeOK, FileInv, GoneInv
  <2>2. ASSUME NEW s \in Sessions, phase[s] = "open", LockFree(s) PROVE mem[s][i] = NoLoop
    <3>1. CASE tag[s] = "Owner"
      <4>1. ProjectPart(mem[s]) = file
        BY <2>2, <3>1 DEF FileInv, MemoryInv, MemoryInvOf, LockFree, Locked
      <4>. QED
        BY <2>1, <4>1 DEF ProjectPart
    <3>2. CASE tag[s] # "Owner"
      <4>1. ~HasProjectLoops(mem[s]) /\ i \in DOMAIN mem[s]
        BY <2>1, <3>2 DEF OwnerInv, OwnerInvOf, TypeOK, LoopMap, Ids
      <4>. QED
        BY <2>1, <4>1 DEF HasProjectLoops, Present
    <3>. QED
      BY <3>1, <3>2
  <2>. QED
    BY <2>1, <2>2
<1>. QED
  BY <1>1, FileInvariance, OwnerInvariance, TypeCorrect, PTL

\* When sessions stop between operations, only the holder of the lease replaces
\* the file: persist itself does not look at the lease again.
THEOREM WritersHoldLease ==
  ASSUME GracefulStop
  PROVE  Spec => WritesNeedLease
<1> DEFINE Writes ==
      \A s \in Sessions : (\E f \in Fibers : fiber[s][f].pc \in {"persist", "orphan"}
                               /\ fiber'[s][f].pc \in {"settle", "dead"}
                               /\ file' # file)
        => lease = s
<1>1. TypeOK /\ LeaseInv /\ OwnerInv /\ FileInv => Writes
  <2>. SUFFICES ASSUME TypeOK, LeaseInv, OwnerInv, FileInv, NEW s \in Sessions,
                       NEW f \in Fibers, fiber[s][f].pc \in {"persist", "orphan"}
                PROVE  lease = s
    OBVIOUS
  <2>1. fiber[s][f].pc # "orphan"
    BY DEF FileInv, StopInv, StopInvOf
  <2>. QED
    BY <2>1, WriterHolds DEF Writing, FileInv
<1>2. TypeOK /\ LeaseInv /\ OwnerInv /\ FileInv /\ [Next]_vars => [Writes]_vars
  BY <1>1
<1>. HIDE DEF Writes
<1>3. Spec => [][Writes]_vars
  BY <1>2, FileInvariance, OwnerInvariance, LeaseInvariance, TypeCorrect, PTL DEF Spec
<1>. QED
  BY <1>3, PTL DEF WritesNeedLease, Writes

-----------------------------------------------------------------------------
(* The occurrences, when moreover nothing writes a stale copy back *)

\* Nobody writes a copy of a loop back that was read without the lock.
ChangeInvOf(s) == \A f \in Fibers : fiber[s][f].op # "update"

\* A live session has the session loops of its log in memory, and an operation
\* on project loops keeps them.
LiveInvOf(s) ==
  /\ phase[s] \in Running => SessionPart(mem[s]) = journal[Conversation[s]]
  /\ \A f \in Fibers :
       fiber[s][f].pc \in Writing => SessionPart(fiber[s][f].next) = SessionPart(mem[s])

\* A conversation is live in at most one session.
OneLive ==
  \A s, r \in Sessions :
    phase[s] \in Running /\ phase[r] \in Running /\ Conversation[s] = Conversation[r] => s = r

\* The loops that are or were in a log, or have produced an occurrence: none of
\* them is about to be added, and no two logs share one.
Taken(i) ==
  \/ i \in SessionIds /\ \E c \in Conversations : journal[c][i] # NoLoop
  \/ \E o \in produced : o.id = i
  \/ \E s \in Sessions, f \in Fibers :
       fiber[s][f].pc = "settle" /\ \E o \in fiber[s][f].out : o.id = i

\* An id that is taken is no fiber's to add.
KnownInv ==
  /\ \A i \in Ids : Taken(i) =>
       i \in used /\ \A s \in Sessions, f \in Fibers : Adding(fiber[s][f]) => fiber[s][f].id # i
  /\ \A c, d \in Conversations, i \in SessionIds :
       journal[c][i] # NoLoop /\ journal[d][i] # NoLoop => c = d

\* What is about to replace the file sets no loop back and is past the
\* occurrences it returns, which are the next ones of the file; once it has
\* replaced the file they have still not been produced.
OutInvOf(s) ==
  \A f \in Fibers :
    /\ fiber[s][f].pc = "persist" =>
         /\ \A i \in ProjectIds : fiber[s][f].next[i] # NoLoop /\ file[i] # NoLoop =>
              NoEarlier(fiber[s][f].next[i], file[i])
         /\ \A o \in fiber[s][f].out :
              /\ o.id \in ProjectIds /\ file[o.id] # NoLoop /\ o \in Upcoming(o.id, file[o.id])
              /\ fiber[s][f].next[o.id] # NoLoop => Claimed(fiber[s][f].next[o.id], o)
    /\ fiber[s][f].pc = "settle" =>
         \A o \in fiber[s][f].out :
           /\ o.id \in ProjectIds /\ o \notin produced
           /\ file[o.id] # NoLoop => Claimed(file[o.id], o)

\* The parts of each session together.
SessionsInv == \A s \in Sessions : ChangeInvOf(s) /\ LiveInvOf(s) /\ OutInvOf(s)

\* What survives a restart has moved past every occurrence.
DurableInv ==
  \A o \in produced :
    /\ o.id \in ProjectIds /\ file[o.id] # NoLoop => Claimed(file[o.id], o)
    /\ \A c \in Conversations :
         o.id \in SessionIds /\ journal[c][o.id] # NoLoop => Claimed(journal[c][o.id], o)

\* The invariant of the occurrences.
ClaimInv ==
  /\ SessionsInv /\ OneLive /\ KnownInv /\ DurableInv /\ repeated = {}

\* A loop that is not set back is still past its occurrences.
LEMMA StillClaimed ==
  ASSUME NEW loop \in Loop, NEW next \in Loop, NoEarlier(next, loop),
         NEW o \in Occurrence, Claimed(loop, o)
  PROVE  Claimed(next, o)
BY DEF Loop, NoEarlier, Occurrence, Claimed

\* A loop is not past the occurrences it may produce next.
LEMMA UpcomingIsNew ==
  ASSUME NEW i, NEW loop \in Loop, NEW o \in Upcoming(i, loop)
  PROVE  ~Claimed(loop, o)
BY DEF Loop, Upcoming, Scheduled, ManualRun, Claimed

\* A fiber in an operation belongs to a live session.
LEMMA InsideIsLive ==
  ASSUME TypeOK, NEW s \in Sessions, NEW f \in Fibers, LeaseInvOf(s), StopInvOf(s),
         fiber[s][f].pc \notin {"idle", "dead"}
  PROVE  phase[s] \in Running
BY DEF TypeOK, LeaseInvOf, StopInvOf, Running

\* Reading the file leaves the session loops alone.
LEMMA LoopsSession ==
  ASSUME TypeOK, NEW s \in Sessions, NEW f \in Fibers
  PROVE  /\ SessionPart(Merged(s)) = SessionPart(mem[s])
         /\ SessionPart(Loops(s, f)) = SessionPart(mem[s])
BY IdsAssumption DEF SessionPart, Loops, Merged, Ids, TypeOK, LoopMap

\* The loops that stay, one by one.
LEMMA PartsAre ==
  ASSUME NEW m, NEW n, SessionPart(m) = SessionPart(n)
  PROVE  \A i \in SessionIds : m[i] = n[i]
<1>. SUFFICES ASSUME NEW i \in SessionIds PROVE m[i] = n[i]
  OBVIOUS
<1>1. SessionPart(m)[i] = m[i] /\ SessionPart(n)[i] = n[i]
  BY DEF SessionPart
<1>. QED
  BY <1>1

\* No id becomes taken and no fiber adds another one.
LEMMA KnownStays ==
  ASSUME KnownInv, used \subseteq used', AddersStay, journal' = journal,
         \A i \in Ids : Taken(i)' => Taken(i)
  PROVE  KnownInv'
<1>1. \A i \in Ids : Taken(i)' =>
        /\ i \in used'
        /\ \A s \in Sessions, f \in Fibers : Adding(fiber'[s][f]) => fiber'[s][f].id # i
  BY DEF KnownInv, AddersStay
<1>. QED
  BY <1>1 DEF KnownInv

\* A fiber that rests, while nothing durable changes.
LEMMA PlainClaims ==
  ASSUME TypeOK, NEW s \in Sessions, NEW f \in Fibers, FileInv, ClaimInv, Kind(s, f),
         Plain(s, f)
  PROVE  ClaimInv'
<1>1. PICK new : /\ Become(s, f, new) /\ new.pc \notin {"persist", "settle", "orphan"}
                 /\ new.op = "update" => fiber[s][f].op = "update"
  BY DEF Plain, Rests
<1>2. /\ fiber'[s][f] = new
      /\ \A g \in Fibers : g # f => fiber'[s][g] = fiber[s][g]
  BY <1>1, BecomeIs
<1>3. /\ UNCHANGED <<file, journal, produced, repeated, used>> /\ AddersStay
      /\ phase'[s] \in Running => phase[s] \in Running
      /\ \A r \in Sessions : r # s =>
           mem'[r] = mem[r] /\ phase'[r] = phase[r] /\ fiber'[r] = fiber[r]
  BY KindAdds DEF Plain, Kind, OthersRest, history
<1>4. SessionPart(mem'[s]) = SessionPart(mem[s])
  BY LoopsSession DEF Plain
<1>5. ChangeInvOf(s)' /\ LiveInvOf(s)' /\ OutInvOf(s)'
  <2>1. ChangeInvOf(s) /\ LiveInvOf(s) /\ OutInvOf(s)
    BY DEF ClaimInv, SessionsInv
  <2>2. ChangeInvOf(s)'
    BY <1>1, <1>2, <2>1 DEF ChangeInvOf
  <2>3. LiveInvOf(s)'
    BY <1>1, <1>2, <1>3, <1>4, <2>1 DEF LiveInvOf, Writing
  <2>4. OutInvOf(s)'
    BY <1>1, <1>2, <1>3, <2>1 DEF OutInvOf
  <2>. QED
    BY <2>2, <2>3, <2>4
<1>6. ASSUME NEW r \in Sessions, r # s
      PROVE  ChangeInvOf(r)' /\ LiveInvOf(r)' /\ OutInvOf(r)'
  BY <1>3, <1>6 DEF ClaimInv, SessionsInv, ChangeInvOf, LiveInvOf, OutInvOf
<1>7. OneLive'
  <2>1. \A r \in Sessions : phase'[r] \in Running => phase[r] \in Running
    BY <1>3
  <2>. QED
    BY <2>1 DEF ClaimInv, OneLive
<1>8. KnownInv'
  <2>1. \A r \in Sessions, g \in Fibers :
          fiber'[r][g].pc = "settle" => fiber'[r][g] = fiber[r][g]
    BY <1>1, <1>2, <1>3
  <2>2. \A i \in Ids : Taken(i)' => Taken(i)
    BY <1>3, <2>1 DEF Taken
  <2>. QED
    BY <1>3, <2>2, KnownStays DEF ClaimInv
<1>9. DurableInv' /\ repeated' = {}
  BY <1>3 DEF ClaimInv, DurableInv
<1>. QED
  BY <1>5, <1>6, <1>7, <1>8, <1>9 DEF ClaimInv, SessionsInv

\* A fiber that goes on to replace the file with the results of its operation.
LEMMA PersistingClaims ==
  ASSUME TypeOK, NEW s \in Sessions, NEW f \in Fibers, LeaseInv, FileInv, ClaimInv,
         Kind(s, f), Persisting(s, f)
  PROVE  ClaimInv'
<1> DEFINE st == fiber[s][f]
           m == Loops(s, f)
<1>0. st \in FiberState /\ m \in LoopMap /\ st.op # "update"
  BY LoopsType DEF TypeOK, ClaimInv, SessionsInv, ChangeInvOf
<1>1. PICK r \in Results(st, m) :
        Become(s, f, [st EXCEPT !.pc = "persist", !.next = r.next, !.out = r.out])
  BY DEF Persisting
<1> DEFINE new == [st EXCEPT !.pc = "persist", !.next = r.next, !.out = r.out]
<1>2. new.pc = "persist" /\ new.next = r.next /\ new.out = r.out /\ new.op = st.op
  BY <1>0 DEF FiberState
<1>. HIDE DEF new
<1>3. /\ fiber'[s][f] = new
      /\ \A g \in Fibers : g # f => fiber'[s][g] = fiber[s][g]
  BY <1>1, BecomeIs DEF new
<1>4. /\ UNCHANGED <<file, journal, produced, repeated, used, phase>> /\ AddersStay
      /\ mem'[s] = m /\ RetentionOf(st) = "project"
      /\ \A g \in Fibers : g # f => fiber[s][g].pc \notin Writing
      /\ \A q \in Sessions : q # s => mem'[q] = mem[q] /\ fiber'[q] = fiber[q]
  BY KindAdds DEF Persisting, Kind, OthersRest, history, NoOtherWriter
<1>5. /\ \A i \in ProjectIds : m[i] = file[i]
      /\ SessionPart(m) = SessionPart(mem[s])
  <2>1. \/ st.pc = "load"
        \/ st.pc = "lock" /\ tag[s] = "Owner"
    BY DEF Persisting
  <2>2. LeaseInvOf(s) /\ StopInvOf(s) /\ MemoryInvOf(s) /\ NoOtherWriter(s, f)
    BY DEF LeaseInv, FileInv, StopInv, MemoryInv, Persisting
  <2>. QED
    BY <2>1, <2>2, LoopsAreFile, LoopsSession
<1>6. ResultIs(st, m, r) /\ r.next \in LoopMap
  BY <1>0, ResultsAre, ResultsType DEF Result
<1>. HIDE DEF m
<1>7. SessionPart(r.next) = SessionPart(m)
  <2>1. \A i \in SessionIds : i \in Ids /\ i \notin ProjectIds
    BY IdsAssumption DEF Ids
  <2>2. \A i \in SessionIds : r.next[i] = m[i]
    BY <1>4, <1>6, <2>1 DEF ResultIs
  <2>. QED
    BY <2>2 DEF SessionPart
<1>8. /\ \A i \in ProjectIds : r.next[i] # NoLoop /\ file[i] # NoLoop =>
           NoEarlier(r.next[i], file[i])
      /\ \A o \in r.out :
           /\ o.id \in ProjectIds /\ file[o.id] # NoLoop /\ o \in Upcoming(o.id, file[o.id])
           /\ r.next[o.id] # NoLoop => Claimed(r.next[o.id], o)
  BY <1>0, <1>4, <1>5, <1>6 DEF ResultIs, Ids
<1>9. ChangeInvOf(s)' /\ LiveInvOf(s)' /\ OutInvOf(s)'
  <2>1. ChangeInvOf(s) /\ LiveInvOf(s) /\ OutInvOf(s)
    BY DEF ClaimInv, SessionsInv
  <2>2. ChangeInvOf(s)'
    BY <1>0, <1>2, <1>3, <2>1 DEF ChangeInvOf
  <2>3. LiveInvOf(s)'
    BY <1>2, <1>3, <1>4, <1>5, <1>7, <2>1 DEF LiveInvOf
  <2>4. OutInvOf(s)'
    BY <1>2, <1>3, <1>4, <1>8 DEF OutInvOf, Writing
  <2>. QED
    BY <2>2, <2>3, <2>4
<1>10. ASSUME NEW q \in Sessions, q # s
       PROVE  ChangeInvOf(q)' /\ LiveInvOf(q)' /\ OutInvOf(q)'
  BY <1>4, <1>10 DEF ClaimInv, SessionsInv, ChangeInvOf, LiveInvOf, OutInvOf
<1>11. OneLive' /\ DurableInv' /\ repeated' = {}
  BY <1>4 DEF ClaimInv, OneLive, DurableInv
<1>12. KnownInv'
  <2>1. \A q \in Sessions, g \in Fibers :
          fiber'[q][g].pc = "settle" => fiber'[q][g] = fiber[q][g]
    BY <1>2, <1>3, <1>4
  <2>2. \A i \in Ids : Taken(i)' => Taken(i)
    BY <1>4, <2>1 DEF Taken
  <2>. QED
    BY <1>4, <2>2, KnownStays DEF ClaimInv
<1>. QED
  BY <1>9, <1>10, <1>11, <1>12 DEF ClaimInv, SessionsInv

\* The replacement of the file: what it returns has never been produced.
LEMMA WrittenClaims ==
  ASSUME TypeOK, TypeOK', NEW s \in Sessions, NEW f \in Fibers, LeaseInv, OwnerInv, FileInv,
         ClaimInv, Kind(s, f), Written(s, f)
  PROVE  ClaimInv'
<1> DEFINE st == fiber[s][f]
           new == [st EXCEPT !.pc = "settle"]
<1>0. /\ st \in FiberState /\ st.pc = "persist" /\ st.next \in LoopMap
      /\ st.out \subseteq Occurrence
  BY DEF TypeOK, Written, FiberState
<1>1. new.pc = "settle" /\ new.next = st.next /\ new.out = st.out /\ new.op = st.op
  BY <1>0 DEF FiberState
<1>2. Become(s, f, new)
  BY DEF Written
<1>. HIDE DEF new
<1>3. /\ fiber'[s][f] = new
      /\ \A g \in Fibers : g # f => fiber'[s][g] = fiber[s][g]
  BY <1>2, BecomeIs
<1>4. /\ UNCHANGED <<journal, produced, repeated, used, phase, mem>> /\ AddersStay
      /\ \A q \in Sessions : q # s => fiber'[q] = fiber[q]
      /\ \A i \in ProjectIds : file'[i] = st.next[i]
  BY KindAdds DEF Written, Kind, OthersRest, history, repo, Replace, ProjectPart
<1>5. /\ \A g \in Fibers : g # f => fiber[s][g].pc \notin Writing
      /\ \A q \in Sessions, g \in Fibers : q # s => fiber[q][g].pc \notin Writing
  <2>1. NoOtherWriter(s, f)
    BY <1>0, AloneInTheLock DEF Locked, LeaseInv
  <2>2. \A q \in Sessions \ {s}, g \in Fibers : fiber[q][g].pc \notin Writing
    BY <1>0, WriterHolds DEF Writing, FileInv
  <2>. QED
    BY <2>1, <2>2 DEF NoOtherWriter
<1>6. /\ \A i \in ProjectIds : st.next[i] # NoLoop /\ file[i] # NoLoop =>
           NoEarlier(st.next[i], file[i])
      /\ \A o \in st.out :
           /\ o.id \in ProjectIds /\ file[o.id] # NoLoop /\ o \in Upcoming(o.id, file[o.id])
           /\ st.next[o.id] # NoLoop => Claimed(st.next[o.id], o)
  BY <1>0 DEF ClaimInv, SessionsInv, OutInvOf
<1>7. \A i \in ProjectIds :
        /\ i \in Ids
        /\ file[i] # NoLoop => file[i] \in Loop
        /\ st.next[i] # NoLoop => st.next[i] \in Loop
  BY <1>0 DEF TypeOK, LoopMap, LoopOrNone, Ids
<1>8. \A o \in st.out : o \notin produced
  BY <1>6, <1>7, UpcomingIsNew DEF ClaimInv, DurableInv
<1>9. ChangeInvOf(s)' /\ LiveInvOf(s)' /\ OutInvOf(s)'
  <2>1. ChangeInvOf(s) /\ LiveInvOf(s) /\ OutInvOf(s)
    BY DEF ClaimInv, SessionsInv
  <2>2. ChangeInvOf(s)'
    BY <1>1, <1>3, <2>1 DEF ChangeInvOf
  <2>3. LiveInvOf(s)'
    BY <1>0, <1>1, <1>3, <1>4, <2>1 DEF LiveInvOf, Writing
  <2>4. OutInvOf(s)'
    BY <1>1, <1>3, <1>4, <1>5, <1>6, <1>8 DEF OutInvOf, Writing
  <2>. QED
    BY <2>2, <2>3, <2>4
<1>10. ASSUME NEW q \in Sessions, q # s
       PROVE  ChangeInvOf(q)' /\ LiveInvOf(q)' /\ OutInvOf(q)'
  BY <1>4, <1>5, <1>10
     DEF ClaimInv, SessionsInv, ChangeInvOf, LiveInvOf, OutInvOf, Writing
<1>11. OneLive' /\ repeated' = {}
  BY <1>4 DEF ClaimInv, OneLive
<1>12. KnownInv'
  <2>1. ASSUME NEW i \in Ids, Taken(i)'
        PROVE  Taken(i) \/ (i \in ProjectIds /\ file[i] # NoLoop)
    <3>1. CASE \E q \in Sessions, g \in Fibers :
                 fiber'[q][g].pc = "settle" /\ \E o \in fiber'[q][g].out : o.id = i
      <4>1. \E o \in st.out : o.id = i
        BY <1>1, <1>3, <1>4, <1>5, <3>1 DEF Writing
      <4>. QED
        BY <1>6, <4>1
    <3>2. CASE ~\E q \in Sessions, g \in Fibers :
                 fiber'[q][g].pc = "settle" /\ \E o \in fiber'[q][g].out : o.id = i
      BY <1>4, <2>1, <3>2 DEF Taken
    <3>. QED
      BY <3>1, <3>2
  <2>2. ASSUME NEW i \in Ids, Taken(i)'
        PROVE  /\ i \in used'
               /\ \A q \in Sessions, g \in Fibers : Adding(fiber'[q][g]) => fiber'[q][g].id # i
    <3>1. i \in used /\ \A q \in Sessions, g \in Fibers : Adding(fiber[q][g]) => fiber[q][g].id # i
      BY <2>1, <2>2 DEF ClaimInv, KnownInv, FileInv, GoneInv
    <3>. QED
      BY <1>4, <3>1 DEF AddersStay
  <2>. QED
    BY <1>4, <2>2 DEF ClaimInv, KnownInv
<1>13. DurableInv'
  <2>1. ASSUME NEW o \in produced, o.id \in ProjectIds, file'[o.id] # NoLoop
        PROVE  Claimed(file'[o.id], o)
    <3>1. o \in Occurrence /\ st.next[o.id] # NoLoop
      BY <1>4, <2>1 DEF TypeOK
    <3>2. file[o.id] # NoLoop
      <4>1. file[o.id] # NoLoop \/ Comes(st, o.id)
        BY <1>0, <2>1, <3>1 DEF FileInv, MemoryInv, MemoryInvOf
      <4>2. ~Comes(st, o.id)
        <5>1. Comes(st, o.id) => Adding(st) /\ st.id = o.id
          BY <1>0 DEF Comes, Adding
        <5>2. Taken(o.id)
          BY DEF Taken
        <5>. QED
          BY <1>7, <2>1, <5>1, <5>2 DEF ClaimInv, KnownInv
      <4>. QED
        BY <4>1, <4>2
    <3>3. Claimed(file[o.id], o)
      BY <2>1, <3>2 DEF ClaimInv, DurableInv
    <3>. QED
      BY <1>4, <1>6, <1>7, <2>1, <3>1, <3>2, <3>3, StillClaimed
  <2>. QED
    BY <1>4, <2>1 DEF ClaimInv, DurableInv
<1>. QED
  BY <1>9, <1>10, <1>11, <1>12, <1>13 DEF ClaimInv, SessionsInv

\* The memory follows: the occurrences leave the repository, for the first time.
LEMMA SettledClaims ==
  ASSUME TypeOK, NEW s \in Sessions, NEW f \in Fibers, LeaseInv, OwnerInv, FileInv,
         ClaimInv, Kind(s, f), Settled(s, f)
  PROVE  ClaimInv'
<1> DEFINE st == fiber[s][f]
<1>1. PICK new : /\ Become(s, f, new) /\ new.pc \notin {"persist", "settle", "orphan"}
                 /\ new.op = "update" => st.op = "update"
  BY DEF Settled, Rests
<1>2. /\ fiber'[s][f] = new
      /\ \A g \in Fibers : g # f => fiber'[s][g] = fiber[s][g]
  BY <1>1, BecomeIs
<1>3. /\ UNCHANGED <<file, journal, used, phase>> /\ AddersStay
      /\ st.pc = "settle" /\ mem'[s] = st.next
      /\ produced' = produced \cup st.out /\ repeated' = repeated \cup (produced \cap st.out)
      /\ \A q \in Sessions : q # s => mem'[q] = mem[q] /\ fiber'[q] = fiber[q]
  BY KindAdds DEF Settled, Kind, OthersRest, Produce
<1>4. /\ \A g \in Fibers : g # f => fiber[s][g].pc \notin Writing
      /\ \A q \in Sessions, g \in Fibers : q # s => fiber[q][g].pc \notin Writing
  <2>1. NoOtherWriter(s, f)
    BY <1>3, AloneInTheLock DEF Locked, LeaseInv
  <2>2. \A q \in Sessions \ {s}, g \in Fibers : fiber[q][g].pc \notin Writing
    BY <1>3, WriterHolds DEF Writing, FileInv
  <2>. QED
    BY <2>1, <2>2 DEF NoOtherWriter
<1>5. \A o \in st.out :
        /\ o.id \in ProjectIds /\ o \notin produced
        /\ file[o.id] # NoLoop => Claimed(file[o.id], o)
  BY <1>3 DEF ClaimInv, SessionsInv, OutInvOf
<1>6. \A q \in Sessions, g \in Fibers : fiber'[q][g].pc \notin Writing
  BY <1>1, <1>2, <1>3, <1>4 DEF Writing
<1>7. ASSUME NEW q \in Sessions PROVE ChangeInvOf(q)' /\ LiveInvOf(q)' /\ OutInvOf(q)'
  <2>1. ChangeInvOf(q) /\ LiveInvOf(q)
    BY DEF ClaimInv, SessionsInv
  <2>2. ChangeInvOf(q)'
    BY <1>1, <1>2, <1>3, <2>1 DEF ChangeInvOf
  <2>3. SessionPart(mem'[q]) = SessionPart(mem[q])
    BY <1>3, <2>1 DEF LiveInvOf, Writing
  <2>4. LiveInvOf(q)'
    BY <1>3, <1>6, <2>1, <2>3 DEF LiveInvOf
  <2>5. OutInvOf(q)'
    BY <1>6 DEF OutInvOf, Writing
  <2>. QED
    BY <2>2, <2>4, <2>5
<1>8. OneLive' /\ repeated' = {}
  BY <1>3, <1>5 DEF ClaimInv, OneLive
<1>9. KnownInv'
  <2>1. \A i \in Ids : Taken(i)' => Taken(i)
    BY <1>3, <1>6 DEF Taken, Writing
  <2>. QED
    BY <1>3, <2>1, KnownStays DEF ClaimInv
<1>10. DurableInv'
  BY <1>3, <1>5, IdsAssumption DEF ClaimInv, DurableInv
<1>. QED
  BY <1>7, <1>8, <1>9, <1>10 DEF ClaimInv, SessionsInv

\* A change of session loops: the log and the memory move at once.
LEMMA AppendedClaims ==
  ASSUME TypeOK, TypeOK', NEW s \in Sessions, NEW f \in Fibers, LeaseInv, FileInv, ClaimInv,
         Kind(s, f), Appended(s, f)
  PROVE  ClaimInv'
<1> DEFINE st == fiber[s][f]
           m == Loops(s, f)
           c == Conversation[s]
           log == journal[c]
<1>0. /\ st \in FiberState /\ m \in LoopMap /\ st.op # "update"
      /\ c \in Conversations /\ log \in [SessionIds -> LoopOrNone]
  BY LoopsType, ConversationAssumption DEF TypeOK, ClaimInv, SessionsInv, ChangeInvOf
<1>1. PICK new : /\ Become(s, f, new) /\ new.pc \notin {"persist", "settle", "orphan"}
                 /\ new.op = "update" => st.op = "update"
  BY DEF Appended, Rests
<1>2. /\ fiber'[s][f] = new
      /\ \A g \in Fibers : g # f => fiber'[s][g] = fiber[s][g]
  BY <1>1, BecomeIs
<1>3. PICK r \in Results(st, m) :
        /\ journal' = [journal EXCEPT ![c] = SessionPart(r.next)]
        /\ mem'[s] = r.next /\ Produce(r.out)
  BY DEF Appended
<1>4. /\ UNCHANGED <<file, used, phase>> /\ AddersStay /\ ~Adding(fiber'[s][f])
      /\ produced' = produced \cup r.out /\ repeated' = repeated \cup (produced \cap r.out)
      /\ RetentionOf(st) = "session" /\ st.pc \in {"lock", "load"}
      /\ \A g \in Fibers : g # f => fiber[s][g].pc \notin Writing
      /\ \A q \in Sessions : q # s => mem'[q] = mem[q] /\ fiber'[q] = fiber[q]
  BY <1>3, KindAdds DEF Appended, Kind, OthersRest, Produce, NoOtherWriter
<1>5. ResultIs(st, m, r) /\ r.next \in LoopMap /\ r.out \subseteq Occurrence
  BY <1>0, ResultsAre, ResultsType DEF Result
<1>6. phase[s] \in Running
  BY <1>4, InsideIsLive DEF LeaseInv, FileInv, StopInv
<1>7. \A i \in SessionIds : m[i] = log[i]
  <2>1. SessionPart(m) = log
    BY <1>6, LoopsSession DEF ClaimInv, SessionsInv, LiveInvOf
  <2>. QED
    BY <2>1 DEF SessionPart
<1>. HIDE DEF m
<1>8. /\ \A i \in SessionIds : journal'[c][i] = r.next[i]
      /\ \A d \in Conversations : d # c => journal'[d] = journal[d]
      /\ SessionPart(r.next) = journal'[c]
  BY <1>0, <1>3 DEF SessionPart, TypeOK
<1>9. \A i \in SessionIds :
        /\ i \in Ids /\ i \notin ProjectIds
        /\ log[i] # NoLoop => log[i] \in Loop
        /\ r.next[i] # NoLoop => r.next[i] \in Loop
        /\ r.next[i] # NoLoop => log[i] # NoLoop \/ Comes(st, i)
        /\ r.next[i] # NoLoop /\ log[i] # NoLoop => NoEarlier(r.next[i], log[i])
  BY <1>0, <1>5, <1>7, IdsAssumption DEF ResultIs, Ids, LoopMap, LoopOrNone
<1>10. \A o \in r.out :
         /\ o \in Occurrence /\ o.id \in SessionIds /\ o.id \notin ProjectIds
         /\ log[o.id] # NoLoop /\ o \in Upcoming(o.id, log[o.id])
         /\ r.next[o.id] # NoLoop => Claimed(r.next[o.id], o)
  BY <1>4, <1>5, <1>7 DEF ResultIs, Ids
<1>11. \A i \in Ids : Comes(st, i) => Adding(st) /\ i \in used /\ ~Taken(i)
  BY <1>4 DEF Comes, Adding, FileInv, AddInv, ClaimInv, KnownInv
<1>12. \A o \in r.out : o \notin produced
  BY <1>0, <1>9, <1>10, UpcomingIsNew DEF ClaimInv, DurableInv
<1>13. ChangeInvOf(s)' /\ LiveInvOf(s)' /\ OutInvOf(s)'
  <2>1. ChangeInvOf(s) /\ LiveInvOf(s) /\ OutInvOf(s)
    BY DEF ClaimInv, SessionsInv
  <2>2. ChangeInvOf(s)'
    BY <1>0, <1>1, <1>2, <2>1 DEF ChangeInvOf
  <2>3. \A g \in Fibers : fiber'[s][g].pc \notin Writing
    BY <1>1, <1>2, <1>4 DEF Writing
  <2>4. LiveInvOf(s)'
    BY <1>3, <1>8, <2>3 DEF LiveInvOf
  <2>5. OutInvOf(s)'
    BY <2>3 DEF OutInvOf, Writing
  <2>. QED
    BY <2>2, <2>4, <2>5
<1>14. ASSUME NEW q \in Sessions, q # s
       PROVE  ChangeInvOf(q)' /\ LiveInvOf(q)' /\ OutInvOf(q)'
  <2>1. ChangeInvOf(q) /\ LiveInvOf(q) /\ OutInvOf(q)
    BY DEF ClaimInv, SessionsInv
  <2>2. phase[q] \in Running => Conversation[q] # c /\ Conversation[q] \in Conversations
    BY <1>6, <1>14, ConversationAssumption DEF ClaimInv, OneLive
  <2>3. ChangeInvOf(q)' /\ LiveInvOf(q)'
    BY <1>4, <1>8, <1>14, <2>1, <2>2 DEF ChangeInvOf, LiveInvOf
  <2>4. OutInvOf(q)'
    BY <1>4, <1>10, <1>14, <2>1 DEF OutInvOf
  <2>. QED
    BY <2>3, <2>4
<1>15. OneLive' /\ repeated' = {}
  BY <1>4, <1>12 DEF ClaimInv, OneLive
<1>16. KnownInv'
  <2>1. \A q \in Sessions, g \in Fibers :
          fiber'[q][g].pc = "settle" => fiber'[q][g] = fiber[q][g]
    BY <1>1, <1>2, <1>4
  <2>2. ASSUME NEW i \in Ids, Taken(i)' PROVE Taken(i) \/ Comes(st, i)
    <3>1. CASE i \in SessionIds /\ \E d \in Conversations : journal'[d][i] # NoLoop
      <4>1. (\E d \in Conversations : journal[d][i] # NoLoop) \/ Comes(st, i)
        BY <1>0, <1>8, <1>9, <3>1
      <4>. QED
        BY <3>1, <4>1 DEF Taken
    <3>2. CASE \E o \in produced' : o.id = i
      <4>1. (\E o \in produced : o.id = i) \/ (i \in SessionIds /\ log[i] # NoLoop)
        BY <1>4, <1>10, <3>2
      <4>. QED
        BY <1>0, <4>1 DEF Taken
    <3>3. CASE \E q \in Sessions, g \in Fibers :
                 fiber'[q][g].pc = "settle" /\ \E o \in fiber'[q][g].out : o.id = i
      BY <2>1, <3>3 DEF Taken
    <3>. QED
      BY <2>2, <3>1, <3>2, <3>3 DEF Taken
  <2>3. ASSUME NEW i \in Ids, Taken(i)'
        PROVE  /\ i \in used'
               /\ \A q \in Sessions, g \in Fibers : Adding(fiber'[q][g]) => fiber'[q][g].id # i
    <3>1. CASE Taken(i)
      BY <1>4, <3>1 DEF ClaimInv, KnownInv, AddersStay
    <3>2. CASE Comes(st, i)
      <4>1. Adding(st) /\ st.id = i /\ i \in used
        BY <1>11, <3>2 DEF Comes
      <4>2. \A q \in Sessions, g \in Fibers :
              Adding(fiber[q][g]) /\ fiber[q][g].id = i => q = s /\ g = f
        BY <4>1 DEF FileInv, AddInv
      <4>. QED
        BY <1>4, <4>1, <4>2 DEF AddersStay
    <3>. QED
      BY <2>2, <2>3, <3>1, <3>2
  <2>4. ASSUME NEW d \in Conversations, NEW e \in Conversations, NEW i \in SessionIds,
               journal'[d][i] # NoLoop, journal'[e][i] # NoLoop
        PROVE  d = e
    <3>1. \A b \in Conversations : journal'[b][i] # NoLoop =>
            journal[b][i] # NoLoop \/ (b = c /\ Comes(st, i))
      BY <1>8, <1>9
    <3>2. Comes(st, i) => \A b \in Conversations : journal[b][i] = NoLoop
      BY <1>9, <1>11 DEF Taken
    <3>. QED
      BY <2>4, <3>1, <3>2 DEF ClaimInv, KnownInv
  <2>. QED
    BY <2>3, <2>4 DEF KnownInv
<1>17. DurableInv'
  <2>1. ASSUME NEW o \in produced', NEW d \in Conversations, o.id \in SessionIds,
               journal'[d][o.id] # NoLoop
        PROVE  Claimed(journal'[d][o.id], o)
    <3>1. CASE d = c /\ o \in r.out
      BY <1>8, <1>10, <2>1, <3>1
    <3>2. CASE d = c /\ o \in produced
      <4>1. ~Comes(st, o.id)
        BY <1>9, <1>11, <2>1, <3>2 DEF Taken
      <4>2. r.next[o.id] # NoLoop /\ log[o.id] # NoLoop
        BY <1>8, <1>9, <2>1, <3>2, <4>1
      <4>3. Claimed(log[o.id], o) /\ o \in Occurrence
        BY <1>0, <2>1, <3>2, <4>2 DEF ClaimInv, DurableInv, TypeOK
      <4>4. Claimed(r.next[o.id], o)
        BY <1>9, <2>1, <4>2, <4>3, StillClaimed
      <4>. QED
        BY <1>8, <2>1, <3>2, <4>4
    <3>3. CASE d # c
      <4>1. journal[d][o.id] # NoLoop
        BY <1>8, <2>1, <3>3
      <4>2. o \in produced
        <5>1. o \in r.out => log[o.id] # NoLoop
          BY <1>10
        <5>2. log[o.id] = NoLoop
          BY <1>0, <2>1, <3>3, <4>1 DEF ClaimInv, KnownInv
        <5>. QED
          BY <1>4, <5>1, <5>2
      <4>. QED
        BY <1>8, <2>1, <3>3, <4>1, <4>2 DEF ClaimInv, DurableInv
    <3>. QED
      BY <1>4, <3>1, <3>2, <3>3
  <2>2. ASSUME NEW o \in produced', o.id \in ProjectIds, file'[o.id] # NoLoop
        PROVE  Claimed(file'[o.id], o)
    BY <1>4, <1>10, <2>2 DEF ClaimInv, DurableInv
  <2>. QED
    BY <2>1, <2>2 DEF DurableInv
<1>. QED
  BY <1>13, <1>14, <1>15, <1>16, <1>17 DEF ClaimInv, SessionsInv

\* A step of a mutation keeps the invariant of the occurrences.
LEMMA StepClaims ==
  ASSUME TypeOK, TypeOK', LeaseInv, OwnerInv, FileInv, ClaimInv, NEW s \in Sessions,
         NEW f \in Fibers, Step(s, f)
  PROVE  ClaimInv'
<1>1. Kind(s, f)
  BY StepKind DEF LeaseInv, OwnerInv
<1>. QED
  BY <1>1, PlainClaims, PersistingClaims, WrittenClaims, SettledClaims, AppendedClaims DEF Kind

\* So does a call or a tick that begins, when no caller updates.
LEMMA BeginsClaims ==
  ASSUME {"updatePrompt", "reschedule"} \cap ToolOps = {}, TypeOK, ClaimInv,
         NEW s \in Sessions, NEW f \in Fibers, Begins(s, f)
  PROVE  ClaimInv'
<1>1. PICK new \in FiberState :
        /\ Become(s, f, new) /\ new.pc \in {"idle", "lock"} /\ new.op # "update"
        /\ \/ new.op # "add" /\ used' = used
           \/ new.op = "add" /\ new.id \in Ids \ used /\ used' = used \cup {new.id}
  BY DEF Begins
<1>2. /\ fiber[s][f].pc \in {"idle", "sample"}
      /\ UNCHANGED <<mem, phase, file, journal, produced, repeated>>
  BY DEF Begins, disk, repo, history
<1>3. /\ fiber'[s][f] = new
      /\ \A g \in Fibers : g # f => fiber'[s][g] = fiber[s][g]
      /\ \A r \in Sessions : r # s => fiber'[r] = fiber[r]
  BY <1>1, BecomeIs
<1>4. ChangeInvOf(s)' /\ LiveInvOf(s)' /\ OutInvOf(s)'
  <2>1. ChangeInvOf(s) /\ LiveInvOf(s) /\ OutInvOf(s)
    BY DEF ClaimInv, SessionsInv
  <2>2. ChangeInvOf(s)'
    BY <1>1, <1>3, <2>1 DEF ChangeInvOf
  <2>3. LiveInvOf(s)'
    BY <1>1, <1>2, <1>3, <2>1 DEF LiveInvOf, Writing
  <2>4. OutInvOf(s)'
    BY <1>1, <1>2, <1>3, <2>1 DEF OutInvOf
  <2>. QED
    BY <2>2, <2>3, <2>4
<1>5. ASSUME NEW r \in Sessions, r # s
      PROVE  ChangeInvOf(r)' /\ LiveInvOf(r)' /\ OutInvOf(r)'
  BY <1>2, <1>3, <1>5 DEF ClaimInv, SessionsInv, ChangeInvOf, LiveInvOf, OutInvOf
<1>6. OneLive' /\ DurableInv' /\ repeated' = {}
  BY <1>2 DEF ClaimInv, OneLive, DurableInv
<1>7. KnownInv'
  <2>1. \A r \in Sessions, g \in Fibers :
          fiber'[r][g].pc = "settle" => fiber'[r][g] = fiber[r][g]
    BY <1>1, <1>3
  <2>2. \A i \in Ids : Taken(i)' => Taken(i)
    BY <1>2, <2>1 DEF Taken
  <2>3. ASSUME NEW i \in Ids, Taken(i)'
        PROVE  /\ i \in used'
               /\ \A r \in Sessions, g \in Fibers : Adding(fiber'[r][g]) => fiber'[r][g].id # i
    <3>1. i \in used /\ \A r \in Sessions, g \in Fibers : Adding(fiber[r][g]) => fiber[r][g].id # i
      BY <2>2, <2>3 DEF ClaimInv, KnownInv
    <3>2. Adding(new) => new.id # i
      BY <1>1, <3>1 DEF Adding
    <3>. QED
      BY <1>1, <1>3, <3>1, <3>2
  <2>. QED
    BY <1>2, <2>3 DEF ClaimInv, KnownInv
<1>. QED
  BY <1>4, <1>5, <1>6, <1>7 DEF ClaimInv, SessionsInv

\* A session that starts has what its conversation's log holds; one that stops
\* between operations or exits leaves nothing half done that is durable.
LEMMA SessionClaims ==
  ASSUME GracefulStop, TypeOK, LeaseInv, OwnerInv, FileInv, ClaimInv, NEW s \in Sessions,
         Start(s) \/ Stop(s) \/ Orphan(s) \/ Exit(s) \/ SetBusy(s)
  PROVE  ClaimInv'
<1>0. Sched \in Fibers /\ LeaseInvOf(s) /\ StopInvOf(s)
  BY DEF Fibers, LeaseInv, FileInv, StopInv
<1>1. Dead.pc = "dead" /\ Dead.op = "none"
  BY DEF Dead, Idle
<1>2. /\ ~Orphan(s) /\ UNCHANGED <<file, journal, produced, repeated, used>> /\ OthersRest(s)
  <2>1. OthersRest(s)
    BY <1>0, SessionOwner DEF OwnerInv
  <2>2. ~Orphan(s)
    BY <1>0 DEF Orphan, StopInvOf
  <2>. QED
    BY <2>1, <2>2 DEF Start, Stop, Exit, SetBusy, disk, history
<1>3. ASSUME \A f \in Fibers : /\ fiber'[s][f].pc \notin Writing
                               /\ fiber'[s][f].op # "update" /\ ~Adding(fiber'[s][f]),
             \/ phase'[s] \notin Running
             \/ /\ SessionPart(mem'[s]) = journal[Conversation[s]]
                /\ \A r \in Sessions : r # s /\ phase[r] \in Running =>
                     Conversation[r] # Conversation[s]
      PROVE  ClaimInv'
  <2>1. ChangeInvOf(s)' /\ LiveInvOf(s)' /\ OutInvOf(s)'
    BY <1>2, <1>3 DEF ChangeInvOf, LiveInvOf, OutInvOf, Writing
  <2>2. ASSUME NEW r \in Sessions, r # s
        PROVE  ChangeInvOf(r)' /\ LiveInvOf(r)' /\ OutInvOf(r)'
    BY <1>2, <2>2 DEF ClaimInv, SessionsInv, ChangeInvOf, LiveInvOf, OutInvOf, OthersRest
  <2>3. \A r \in Sessions : r # s => phase'[r] = phase[r] /\ fiber'[r] = fiber[r]
    BY <1>2 DEF OthersRest
  <2>4. OneLive'
    BY <1>3, <2>3 DEF ClaimInv, OneLive
  <2>5. AddersStay
    BY <1>3, <2>3 DEF AddersStay
  <2>6. \A i \in Ids : Taken(i)' => Taken(i)
    BY <1>2, <1>3, <2>3 DEF Taken, Writing
  <2>7. KnownInv'
    BY <1>2, <2>5, <2>6, KnownStays DEF ClaimInv
  <2>8. DurableInv' /\ repeated' = {}
    BY <1>2 DEF ClaimInv, DurableInv
  <2>. QED
    BY <2>1, <2>2, <2>4, <2>7, <2>8 DEF ClaimInv, SessionsInv
<1>4. ASSUME Start(s) PROVE ClaimInv'
  <2> DEFINE new == [Idle EXCEPT !.op = "init", !.pc = "probe"]
             m == [i \in Ids |-> IF i \in SessionIds THEN journal[Conversation[s]][i] ELSE NoLoop]
  <2>1. new.pc = "probe" /\ new.op = "init" /\ Become(s, Sched, new)
    BY <1>4 DEF Idle, Start
  <2>. HIDE DEF new
  <2>2. \A f \in Fibers : fiber'[s][f] = IF f = Sched THEN new ELSE fiber[s][f]
    BY <1>0, <2>1, BecomeIs
  <2>3. phase[s] = "new" /\ \A f \in Fibers : fiber[s][f].pc = "idle" /\ fiber[s][f].op # "update"
    BY <1>0, <1>4 DEF Start, LeaseInvOf, ClaimInv, SessionsInv, ChangeInvOf
  <2>4. mem'[s] = m
    BY <1>4 DEF Start, TypeOK
  <2>5. journal[Conversation[s]] \in [SessionIds -> LoopOrNone]
    BY ConversationAssumption DEF TypeOK
  <2>6. SessionPart(m) = journal[Conversation[s]]
    BY <2>5 DEF SessionPart, Ids
  <2>7. \A r \in Sessions : phase[r] \in Running => Conversation[r] # Conversation[s]
    BY <1>4 DEF Start, Running
  <2>8. \A f \in Fibers : /\ fiber'[s][f].pc \notin Writing
                          /\ fiber'[s][f].op # "update" /\ ~Adding(fiber'[s][f])
    BY <2>1, <2>2, <2>3 DEF Writing, Adding
  <2>. QED
    BY <1>3, <2>4, <2>6, <2>7, <2>8
<1>5. ASSUME Stop(s) PROVE ClaimInv'
  <2>1. /\ phase'[s] = "closed" /\ Become(s, Sched, Dead)
        /\ \A f \in Fibers : fiber[s][f].pc \in {"idle", "dead"} /\ fiber[s][f].op # "update"
    BY <1>0, <1>5 DEF Stop, TypeOK, ClaimInv, SessionsInv, ChangeInvOf
  <2>2. \A f \in Fibers : fiber'[s][f] = IF f = Sched THEN Dead ELSE fiber[s][f]
    BY <1>0, <2>1, BecomeIs
  <2>3. \A f \in Fibers : /\ fiber'[s][f].pc \notin Writing
                          /\ fiber'[s][f].op # "update" /\ ~Adding(fiber'[s][f])
    BY <1>1, <2>1, <2>2 DEF Writing, Adding
  <2>. QED
    BY <1>3, <2>1, <2>3 DEF Running
<1>6. ASSUME Exit(s) PROVE ClaimInv'
  <2>1. phase'[s] = "exited" /\ \A f \in Fibers : fiber'[s][f] = Dead
    BY <1>6 DEF Exit, TypeOK
  <2>. QED
    BY <1>1, <1>3, <2>1 DEF Writing, Adding, Running
<1>7. ASSUME SetBusy(s) PROVE ClaimInv'
  <2>1. UNCHANGED <<mem, phase, fiber, file, journal, produced, repeated, used>>
    BY <1>7 DEF SetBusy, repo, disk, history
  <2>. QED
    BY <2>1 DEF ClaimInv, SessionsInv, ChangeInvOf, LiveInvOf, OutInvOf, OneLive, KnownInv,
                Taken, DurableInv
<1>. QED
  BY <1>2, <1>4, <1>5, <1>6, <1>7

\* The invariant of the occurrences always holds, when sessions stop between
\* operations and no caller updates.
LEMMA ClaimInvariance ==
  ASSUME GracefulStop, {"updatePrompt", "reschedule"} \cap ToolOps = {}
  PROVE  Spec => []ClaimInv
<1>1. Init => ClaimInv
  <2>. SUFFICES ASSUME Init PROVE ClaimInv
    OBVIOUS
  <2>1. \A s \in Sessions, f \in Fibers : fiber[s][f].pc = "idle" /\ fiber[s][f].op = "none"
    BY DEF Init, Idle
  <2>2. \A s \in Sessions : phase[s] = "new"
    BY DEF Init
  <2>3. \A c \in Conversations, i \in SessionIds : journal[c][i] = NoLoop
    BY DEF Init
  <2>4. produced = {} /\ repeated = {}
    BY DEF Init
  <2>5. \A i \in Ids : ~Taken(i)
    BY <2>1, <2>3, <2>4 DEF Taken
  <2>. QED
    BY <2>1, <2>2, <2>3, <2>4, <2>5
       DEF ClaimInv, SessionsInv, ChangeInvOf, LiveInvOf, OutInvOf, OneLive, KnownInv,
           DurableInv, Writing, Running
<1>2. TypeOK /\ TypeOK' /\ LeaseInv /\ OwnerInv /\ FileInv /\ ClaimInv /\ [Next]_vars => ClaimInv'
  <2>. SUFFICES ASSUME TypeOK, TypeOK', LeaseInv, OwnerInv, FileInv, ClaimInv, [Next]_vars
                PROVE  ClaimInv'
    OBVIOUS
  <2>1. CASE Tick \/ UNCHANGED vars
    <3>1. UNCHANGED <<mem, phase, fiber, file, journal, produced, repeated, used>>
      BY <2>1 DEF Tick, vars, disk, repo, history
    <3>. QED
      BY <3>1 DEF ClaimInv, SessionsInv, ChangeInvOf, LiveInvOf, OutInvOf, OneLive, KnownInv,
                  Taken, DurableInv
  <2>2. ASSUME NEW s \in Sessions, NEW f \in Fibers, Call(s, f) \/ Sample(s, f)
        PROVE  ClaimInv'
    BY <2>2, CallBegins, BeginsClaims
  <2>. QED
    BY <2>1, <2>2, StepClaims, SessionClaims DEF Next
<1>. QED
  BY <1>1, <1>2, TypeCorrect, LeaseInvariance, OwnerInvariance, FileInvariance, PTL DEF Spec

\* When sessions stop between operations and no caller updates: an occurrence
\* leaves the repository only when the file or the log has moved past it, so
\* no exit at any point lets a restart claim it again.
THEOREM ClaimsSurvive ==
  ASSUME GracefulStop, {"updatePrompt", "reschedule"} \cap ToolOps = {}
  PROVE  Spec => []ClaimsAreDurable
<1>1. TypeOK /\ ClaimInv => ClaimsAreDurable
  <2>. SUFFICES ASSUME TypeOK, ClaimInv PROVE ClaimsAreDurable
    OBVIOUS
  <2>1. /\ \A i : i \in Present(file) => i \in ProjectIds /\ file[i] # NoLoop
        /\ \A c \in Conversations : \A i : i \in Present(journal[c]) =>
             i \in SessionIds /\ journal[c][i] # NoLoop
    BY DEF Present, TypeOK
  <2>. QED
    BY <2>1 DEF ClaimInv, DurableInv, ClaimsAreDurable
<1>. QED
  BY <1>1, ClaimInvariance, TypeCorrect, PTL

\* When sessions stop between operations and no caller updates: one loop and
\* cursor produce at most one occurrence, over all sessions that share the file
\* or resume the conversation, restarts and failures.
THEOREM OccursOnce ==
  ASSUME GracefulStop, {"updatePrompt", "reschedule"} \cap ToolOps = {}
  PROVE  Spec => []AtMostOneOccurrence
<1>1. ClaimInv => AtMostOneOccurrence
  BY DEF ClaimInv, AtMostOneOccurrence
<1>. QED
  BY <1>1, ClaimInvariance, PTL
=============================================================================
