------------------------ MODULE LoopRepositoryProofs ------------------------
(***************************************************************************)
(* Proofs about LoopRepository, for any sets of sessions, loops and tools, *)
(* any schedule distances and any failures.                                *)
(***************************************************************************)
EXTENDS LoopRepository, TLAPS

\* What an operation may make of the loops in memory.
Result == [next: LoopMap, out: SUBSET Occurrence]

RepositoryTags == {"Inactive", "Follower", "Owner"}

\* The inductive invariant of the lease, session by session. A mutation that
\* asks for the lease has found the repository not owning and holds the
\* semaphore, so no other one changes that; from BEGIN IMMEDIATE to the end of
\* the read that follows it, the lease is held for the mutation that took it.
Waiting == {"probe", "acquire", "load", "denied"}
Running == {"starting", "open"}

LeaseInvOf(s) ==
  /\ phase[s] = "open" /\ tag[s] = "Owner" => lease = s
  /\ lease = s => /\ phase[s] \in Running
                  /\ tag[s] = "Owner" \/ \E f \in Fibers : fiber[s][f].pc = "load"
  /\ \A f \in Fibers :
       /\ fiber[s][f].pc = "load" /\ phase[s] \in Running => lease = s
       /\ fiber[s][f].pc \in Waiting => tag[s] # "Owner"
       /\ fiber[s][f].op = "init" =>
            phase[s] = "starting" /\ f = Sched /\ fiber[s][f].pc \in Waiting
       /\ phase[s] = "new" => fiber[s][f].pc = "idle"
       /\ phase[s] = "starting" /\ f # Sched => fiber[s][f].pc = "idle"
       /\ phase[s] = "exited" => fiber[s][f].pc = "dead"
  /\ \A f, g \in Fibers :
       fiber[s][f].pc \in Locked /\ fiber[s][g].pc \in Locked => f = g
  /\ phase[s] = "new" => tag[s] # "Owner"
  /\ phase[s] = "starting" => fiber[s][Sched].op = "init"

LeaseInv == \A s \in Sessions : LeaseInvOf(s)

-----------------------------------------------------------------------------
(* Types of the operators *)

\* tick leaves a loop or nothing.
LEMMA SuccessorsType ==
  ASSUME NEW loop \in Loop, NEW at \in Nat
  PROVE  Successors(loop, at) \subseteq LoopOrNone
<1>. DEFINE cursor == loop.cursor + 1
<1>0. cursor \in Nat
  BY DEF Loop
<1>1. \A step \in Steps :
        [loop EXCEPT !.due = at + step, !.cursor = @ + 1] \in Loop
  <2>. TAKE step \in Steps
  <2>. DEFINE due == at + step
  <2>1. due \in Nat
    BY StepsAssumption
  <2>. HIDE DEF due, cursor
  <2>2. [loop EXCEPT !.due = due, !.cursor = cursor] \in Loop
    BY <1>0, <2>1 DEF Loop
  <2>. QED
    BY <2>2 DEF due, cursor
<1>2. [loop EXCEPT !.waiting = FALSE, !.due = 0, !.cursor = @ + 1] \in Loop
  <2>. HIDE DEF cursor
  <2>1. [loop EXCEPT !.waiting = FALSE, !.due = 0, !.cursor = cursor] \in Loop
    BY <1>0 DEF Loop
  <2>. QED
    BY <2>1 DEF cursor
<1>3. CASE loop.tag = "Once"
  BY <1>3 DEF Successors, LoopOrNone
<1>4. CASE loop.tag = "Manual"
  BY <1>2, <1>4 DEF Successors, LoopOrNone, Recurring
<1>5. CASE loop.tag = "Interval"
  BY <1>1, <1>5 DEF Successors, LoopOrNone, Recurring
<1>6. CASE loop.tag = "Cron"
  BY <1>1, <1>6 DEF Successors, LoopOrNone, Recurring
<1>7. loop.tag \in Tags
  BY DEF Loop
<1>. QED
  BY <1>3, <1>4, <1>5, <1>6, <1>7 DEF Tags

\* A loop in memory names its occurrences by natural numbers.
LEMMA OccurrenceType ==
  ASSUME NEW i \in Ids, NEW loop \in Loop
  PROVE  Scheduled(i, loop) \in Occurrence /\ ManualRun(i, loop) \in Occurrence
BY DEF Scheduled, ManualRun, Occurrence, Loop

\* claimDue changes the memory to a memory and returns occurrences.
LEMMA ClaimsType ==
  ASSUME NEW m \in LoopMap, NEW ret, NEW at \in Nat
  PROVE  Claims(m, ret, at) \subseteq Result
<1> DEFINE due == DueLoops(m, ret, at)
<1>1. due \subseteq Ids /\ \A i \in due : m[i] \in Loop
  BY DEF DueLoops, Present, LoopMap, LoopOrNone, Ids
<1>2. {Scheduled(i, m[i]) : i \in due} \in SUBSET Occurrence
  BY <1>1, OccurrenceType
<1>3. SUFFICES ASSUME NEW after \in [due -> UNION {Successors(m[i], at) : i \in due}],
                      \A i \in due : after[i] \in Successors(m[i], at)
               PROVE  [i \in Ids |-> IF i \in due THEN after[i] ELSE m[i]] \in LoopMap
  BY <1>2 DEF Claims, Result
<1>4. \A i \in due : after[i] \in LoopOrNone
  BY <1>1, <1>3, SuccessorsType
<1>. QED
  BY <1>4 DEF LoopMap

\* Every operation makes a memory of a memory.
LEMMA ResultsType ==
  ASSUME NEW st \in FiberState, NEW m \in LoopMap
  PROVE  Results(st, m) \subseteq Result
<1> DEFINE i == st.id
<1>1. \A loop \in LoopOrNone : Change(m, i, loop) \in Result
  BY DEF Change, Result, LoopMap
<1>2. CASE st.op = "due"
  BY <1>2, ClaimsType DEF Results, FiberState
<1>3. CASE st.op = "removeAll"
  BY <1>3 DEF Results, Result, Cleared, LoopMap, LoopOrNone
<1>4. CASE st.op = "add"
  BY <1>1, <1>4 DEF Results, FiberState
<1>5. CASE st.op \in IdOps
  <2>1. i \in Ids
    BY <1>5 DEF FiberState
  <2>2. CASE m[i] = NoLoop
    BY <1>5, <2>2 DEF Results, IdOps
  <2>3. CASE m[i] # NoLoop
    <3>1. m[i] \in Loop
      BY <2>1, <2>3 DEF LoopMap, LoopOrNone
    <3>2. CASE st.op = "remove"
      BY <1>1, <2>3, <3>2 DEF Results, IdOps, LoopOrNone
    <3>3. CASE st.op = "update"
      BY <1>1, <2>3, <3>3 DEF Results, IdOps, FiberState
    <3>4. CASE st.op = "arm"
      <4>1. Armed(m[i], st.at) \in LoopOrNone
        BY <3>1 DEF Armed, Loop, LoopOrNone, FiberState
      <4>. QED
        BY <1>1, <2>3, <3>4, <4>1 DEF Results, IdOps
    <3>5. CASE st.op \in {"pause", "resume"}
      <4>1. [m[i] EXCEPT !.enabled = (st.op = "resume")] \in LoopOrNone
        BY <3>1 DEF Loop, LoopOrNone
      <4>. QED
        BY <1>1, <2>3, <3>5, <4>1 DEF Results, IdOps
    <3>6. CASE st.op = "runNow"
      <4>1. [m[i] EXCEPT !.manualCursor = @ + 1] \in LoopOrNone
        BY <3>1 DEF Loop, LoopOrNone
      <4>2. [m EXCEPT ![i] = [m[i] EXCEPT !.manualCursor = @ + 1]] \in LoopMap
        BY <4>1 DEF LoopMap
      <4>3. {ManualRun(i, m[i])} \in SUBSET Occurrence
        BY <2>1, <3>1, OccurrenceType
      <4>. QED
        BY <2>3, <3>6, <4>2, <4>3 DEF Results, IdOps, Result
    <3>. QED
      BY <1>5, <3>2, <3>3, <3>4, <3>5, <3>6 DEF IdOps
  <2>. QED
    BY <2>2, <2>3
<1>6. CASE st.op \in {"none", "init"}
  BY <1>6 DEF Results, IdOps
<1>7. st.op \in Ops
  BY DEF FiberState
<1>. QED
  BY <1>2, <1>3, <1>4, <1>5, <1>6, <1>7 DEF Ops, TwoPartOps

\* What a fiber may become keeps the type of a fiber.
LEMMA EditType ==
  ASSUME NEW st \in FiberState, NEW pc \in Pcs, NEW next \in LoopMap,
         NEW out \in SUBSET Occurrence
  PROVE  /\ [st EXCEPT !.pc = pc] \in FiberState
         /\ [st EXCEPT !.out = out] \in FiberState
         /\ [st EXCEPT !.pc = pc, !.next = next, !.out = out] \in FiberState
         /\ [st EXCEPT !.pc = pc, !.ret = "project", !.next = next, !.out = out]
              \in FiberState
BY DEF FiberState

\* No loop at all is a memory.
LEMMA NoLoopsType == NoLoops \in LoopMap
BY DEF NoLoops, LoopMap, LoopOrNone

\* The states every fiber passes through are states of a fiber.
LEMMA IdleType ==
  /\ Idle \in FiberState
  /\ Dead \in FiberState
  /\ Drain \in FiberState
  /\ [Idle EXCEPT !.op = "init", !.pc = "probe"] \in FiberState
  /\ \A at \in Nat : [Idle EXCEPT !.op = "due", !.pc = "lock", !.at = at] \in FiberState
<1>1. Idle \in FiberState
  BY NoLoopsType DEF Idle, FiberState, Ops, Pcs, IdOps, LoopOrNone
<1>2. Dead \in FiberState
  BY <1>1, EditType, NoLoopsType DEF Dead, Pcs
<1>3. Idle.op = "none"
  BY DEF Idle
<1>4. \A pc \in Pcs, op \in {"init", "due"}, at \in Nat :
        [Idle EXCEPT !.op = op, !.pc = pc, !.at = at] \in FiberState
  BY <1>1 DEF FiberState, Ops, IdOps, TwoPartOps
<1>. QED
  BY <1>1, <1>2, <1>4 DEF Drain, Pcs, Locked, FiberState

\* A request for an operation is a state of a fiber.
LEMMA RequestType ==
  ASSUME NEW op \in Ops, NEW i \in Ids \cup {NoId}, NEW loop \in LoopOrNone,
         NEW at \in Nat, op \in IdOps \cup {"add"} => i \in Ids
  PROVE  [Idle EXCEPT !.op = op, !.pc = "lock", !.id = i, !.loop = loop, !.at = at]
           \in FiberState
BY IdleType DEF FiberState, Pcs, Locked

\* What follows an operation is again a state of a fiber.
LEMMA FollowType ==
  ASSUME NEW st \in FiberState
  PROVE  Follow(st) \subseteq FiberState
<1>1. [st EXCEPT !.pc = "lock", !.ret = "project", !.next = NoLoops, !.out = {}]
        \in FiberState
  BY EditType, NoLoopsType DEF Pcs
<1>. QED
  BY <1>1, IdleType DEF Follow

FiberType == fiber \in [Sessions -> [Fibers -> FiberState]]

\* A fiber that becomes a fiber state keeps the type of the fibers.
LEMMA BecomeType ==
  ASSUME FiberType, NEW s \in Sessions, NEW f \in Fibers, NEW st \in FiberState,
         Become(s, f, st)
  PROVE  FiberType'
BY DEF Become, FiberType

\* The fiber that ends the locked part of its operation keeps its type.
LEMMA CompleteType ==
  ASSUME FiberType, NEW s \in Sessions, NEW f \in Fibers,
         NEW out \in SUBSET Occurrence, Complete(s, f, out)
  PROVE  FiberType'
<1>1. fiber[s][f] \in FiberState
  BY DEF FiberType
<1>2. [fiber[s][f] EXCEPT !.pc = "deliver", !.next = NoLoops, !.out = out] \in FiberState
  BY <1>1, EditType, NoLoopsType DEF Pcs
<1>3. \E after \in FiberState : Become(s, f, after)
  BY <1>1, <1>2, FollowType DEF Complete
<1>. QED
  BY <1>3, BecomeType

\* Setting the state keeps the types of the repository and of the lease.
LEMMA SetStateType ==
  ASSUME TypeOK, NEW s \in Sessions, NEW t \in RepositoryTags, NEW m \in LoopMap,
         SetState(s, t, m)
  PROVE  /\ tag' \in [Sessions -> RepositoryTags]
         /\ mem' \in [Sessions -> LoopMap]
         /\ lease' \in Sessions \cup {NoSession}
BY DEF TypeOK, SetState, RepositoryTags

\* A failing operation leaves everything well typed.
LEMMA AbortType ==
  ASSUME TypeOK, NEW s \in Sessions, NEW f \in Fibers, NEW t \in RepositoryTags,
         NEW m \in LoopMap, Abort(s, f, t, m), UNCHANGED <<now, busy, used>>
  PROVE  TypeOK'
<1>1. FiberType'
  BY IdleType, BecomeType DEF Abort, TypeOK, FiberType
<1>2. CASE fiber[s][f].op = "add"
  BY <1>1, <1>2, SetStateType DEF Abort, TypeOK, FiberType, RepositoryTags, history
<1>3. CASE fiber[s][f].op = "init"
  BY <1>1, <1>3 DEF Abort, TypeOK, FiberType, RepositoryTags, history
<1>4. CASE fiber[s][f].op \notin {"add", "init"}
  BY <1>1, <1>4 DEF Abort, TypeOK, FiberType, RepositoryTags, history
<1>. QED
  BY <1>2, <1>3, <1>4

\* The project part and the session part of a memory.
LEMMA PartType ==
  ASSUME NEW m \in LoopMap
  PROVE  /\ ProjectPart(m) \in [ProjectIds -> LoopOrNone]
         /\ SessionPart(m) \in [SessionIds -> LoopOrNone]
BY DEF ProjectPart, SessionPart, LoopMap, Ids

\* Whatever an operation does in memory, everything stays well typed.
LEMMA PerformType ==
  ASSUME TypeOK, NEW s \in Sessions, NEW f \in Fibers, NEW t \in RepositoryTags,
         NEW m \in LoopMap, Perform(s, f, t, m), UNCHANGED <<now, busy, used>>
  PROVE  TypeOK'
<1> DEFINE st == fiber[s][f]
           ret == RetentionOf(st)
<1>0. st \in FiberState /\ FiberType
  BY DEF TypeOK, FiberType
<1>1. CASE Abort(s, f, t, m)
  BY <1>1, AbortType
<1>2. ASSUME NEW r \in Results(st, m), st.op = "due", r.out = {},
             tag' = [tag EXCEPT ![s] = t], mem' = [mem EXCEPT ![s] = m],
             Complete(s, f, {}), UNCHANGED <<disk, history, phase>>
      PROVE  TypeOK'
  <2>1. FiberType'
    BY <1>0, <1>2, CompleteType
  <2>. QED
    BY <1>2, <2>1 DEF TypeOK, FiberType, disk, history, RepositoryTags
<1>3. ASSUME NEW r \in Results(st, m), t = "Owner",
             tag' = [tag EXCEPT ![s] = t], mem' = [mem EXCEPT ![s] = m],
             Become(s, f, [st EXCEPT !.pc = "persist", !.next = r.next, !.out = r.out]),
             UNCHANGED <<disk, history, phase>>
      PROVE  TypeOK'
  <2>1. r.next \in LoopMap /\ r.out \in SUBSET Occurrence
    BY <1>0, <1>3, ResultsType DEF Result
  <2>2. [st EXCEPT !.pc = "persist", !.next = r.next, !.out = r.out] \in FiberState
    BY <1>0, <2>1, EditType DEF Pcs, Locked
  <2>3. FiberType'
    BY <1>0, <1>3, <2>2, BecomeType
  <2>. QED
    BY <1>3, <2>3 DEF TypeOK, FiberType, disk, history, RepositoryTags
<1>4. ASSUME NEW r \in Results(st, m),
             journal' = [journal EXCEPT ![Conversation[s]] = SessionPart(r.next)],
             SetState(s, t, r.next), Produce(r.out), Complete(s, f, r.out),
             UNCHANGED <<file, gone, phase>>
      PROVE  TypeOK'
  <2>1. r.next \in LoopMap /\ r.out \in SUBSET Occurrence
    BY <1>0, <1>4, ResultsType DEF Result
  <2>2. FiberType'
    BY <1>0, <1>4, <2>1, CompleteType
  <2>3. journal' \in [Conversations -> [SessionIds -> LoopOrNone]]
    BY <1>4, <2>1, PartType, ConversationAssumption DEF TypeOK
  <2>4. /\ tag' \in [Sessions -> RepositoryTags]
        /\ mem' \in [Sessions -> LoopMap]
        /\ lease' \in Sessions \cup {NoSession}
    BY <1>4, <2>1, SetStateType
  <2>5. produced' \subseteq Occurrence /\ repeated' \subseteq Occurrence
    BY <1>4, <2>1 DEF Produce, TypeOK
  <2>. QED
    BY <1>4, <2>2, <2>3, <2>4, <2>5 DEF TypeOK, FiberType, RepositoryTags
<1>. QED
  BY <1>1, <1>2, <1>3, <1>4 DEF Perform

\* The loops of a session that becomes the owner are a memory.
LEMMA MergedType ==
  ASSUME TypeOK, NEW s \in Sessions
  PROVE  Merged(s) \in LoopMap
BY DEF TypeOK, Merged, LoopMap, Ids

\* A repository that is ready is well typed.
LEMMA OpenType ==
  ASSUME TypeOK, NEW s \in Sessions, NEW f \in Fibers, NEW t \in RepositoryTags,
         NEW m \in LoopMap, Open(s, f, t, m), UNCHANGED <<now, busy, used>>
  PROVE  TypeOK'
<1>1. FiberType'
  BY IdleType, BecomeType DEF Open, TypeOK, FiberType
<1>. QED
  BY <1>1 DEF Open, TypeOK, FiberType, disk, history, RepositoryTags

\* Replacing the file keeps the types of the file and of the deleted ids.
LEMMA ReplaceType ==
  ASSUME TypeOK, NEW next \in LoopMap, Replace(next)
  PROVE  file' \in [ProjectIds -> LoopOrNone] /\ gone' \subseteq ProjectIds
BY PartType DEF Replace, TypeOK

\* Changing the fibers alone keeps everything well typed.
LEMMA FiberStepType ==
  ASSUME TypeOK, FiberType', UNCHANGED <<now, disk, repo, history, phase, busy, used>>
  PROVE  TypeOK'
BY DEF TypeOK, FiberType, disk, repo, history

\* A step of a mutation keeps everything well typed.
LEMMA StepType ==
  ASSUME TypeOK, NEW s \in Sessions, NEW f \in Fibers, Step(s, f)
  PROVE  TypeOK'
<1> DEFINE st == fiber[s][f]
<1>1. st \in FiberState /\ FiberType /\ mem[s] \in LoopMap /\ tag[s] \in RepositoryTags
  BY DEF TypeOK, FiberType, RepositoryTags
<1>2. \A pc \in Pcs : Become(s, f, [st EXCEPT !.pc = pc]) => FiberType'
  <2>1. \A pc \in Pcs : [st EXCEPT !.pc = pc] \in FiberState
    BY <1>1, EditType, NoLoopsType
  <2>. QED
    BY <1>1, <2>1, BecomeType
<1>3. CASE Enter(s, f)
  <2>1. CASE Perform(s, f, tag[s], mem[s])
    BY <1>1, <1>3, <2>1, PerformType DEF Enter
  <2>2. CASE ~Perform(s, f, tag[s], mem[s])
    <3>1. FiberType' /\ UNCHANGED <<now, disk, repo, history, phase, busy, used>>
      BY <1>2, <1>3, <2>2 DEF Enter, Pcs, Locked
    <3>. QED
      BY <3>1, FiberStepType
  <2>. QED
    BY <2>1, <2>2
<1>4. CASE Probe(s, f)
  <2>1. CASE Become(s, f, [st EXCEPT !.pc = "acquire"]) /\ UNCHANGED <<disk, repo, history, phase>>
    BY <1>2, <1>4, <2>1, FiberStepType DEF Probe, Pcs, Locked
  <2>2. CASE Open(s, f, tag[s], mem[s])
    BY <1>1, <1>4, <2>2, OpenType DEF Probe
  <2>3. CASE /\ tag' = [tag EXCEPT ![s] = "Inactive"]
             /\ Complete(s, f, {})
             /\ UNCHANGED <<disk, mem, history, phase>>
    <3>1. FiberType'
      BY <1>1, <2>3, CompleteType
    <3>. QED
      BY <1>4, <2>3, <3>1 DEF Probe, TypeOK, FiberType, disk, history
  <2>4. CASE Abort(s, f, tag[s], mem[s])
    BY <1>1, <1>4, <2>4, AbortType DEF Probe
  <2>. QED
    BY <1>4, <2>1, <2>2, <2>3, <2>4 DEF Probe
<1>5. CASE Acquire(s, f)
  <2>1. CASE Abort(s, f, tag[s], mem[s])
    BY <1>1, <1>5, <2>1, AbortType DEF Acquire
  <2>2. CASE ~Abort(s, f, tag[s], mem[s])
    <3>1. FiberType' /\ lease' \in Sessions \cup {NoSession}
      BY <1>2, <1>5, <2>2 DEF Acquire, Pcs, Locked, TypeOK, disk
    <3>. QED
      BY <1>5, <2>2, <3>1 DEF Acquire, TypeOK, FiberType, disk, repo, history
  <2>. QED
    BY <2>1, <2>2
<1>6. CASE Load(s, f)
  BY <1>6, MergedType, OpenType, PerformType DEF Load, RepositoryTags
<1>7. CASE LoadFails(s, f)
  <2>1. FiberType'
    BY <1>1, <1>7, IdleType, BecomeType DEF LoadFails
  <2>. QED
    BY <1>7, <2>1 DEF LoadFails, TypeOK, FiberType, repo, history
<1>8. CASE Denied(s, f)
  <2> DEFINE t == IF Present(file) # {} THEN "Follower" ELSE "Inactive"
  <2>0. t \in RepositoryTags
    BY DEF RepositoryTags
  <2>1. CASE Open(s, f, t, mem[s])
    BY <1>1, <1>8, <2>0, <2>1, OpenType DEF Denied
  <2>2. CASE /\ tag' = [tag EXCEPT ![s] = t]
             /\ Complete(s, f, {})
             /\ UNCHANGED <<disk, mem, history, phase>>
    <3>1. FiberType'
      BY <1>1, <2>2, CompleteType
    <3>. QED
      BY <1>8, <2>0, <2>2, <3>1 DEF Denied, TypeOK, FiberType, disk, history, RepositoryTags
  <2>3. CASE Abort(s, f, t, mem[s]) \/ Abort(s, f, tag[s], mem[s])
    BY <1>1, <1>8, <2>0, <2>3, AbortType DEF Denied
  <2>. QED
    BY <1>8, <2>1, <2>2, <2>3 DEF Denied
<1>9. CASE Persist(s, f)
  <2>1. CASE Abort(s, f, tag[s], mem[s])
    BY <1>1, <1>9, <2>1, AbortType DEF Persist
  <2>2. CASE Replace(st.next) /\ Become(s, f, [st EXCEPT !.pc = "settle"])
             /\ UNCHANGED <<journal, lease, repo, history, phase>>
    <3>1. st.next \in LoopMap
      BY <1>1 DEF FiberState
    <3>2. FiberType'
      BY <1>2, <2>2 DEF Pcs, Locked
    <3>3. file' \in [ProjectIds -> LoopOrNone] /\ gone' \subseteq ProjectIds
      BY <2>2, <3>1, ReplaceType
    <3>. QED
      BY <1>9, <2>2, <3>2, <3>3 DEF Persist, TypeOK, FiberType, repo, history
  <2>. QED
    BY <1>9, <2>1, <2>2 DEF Persist
<1>10. CASE Settle(s, f)
  <2>1. st.next \in LoopMap /\ st.out \in SUBSET Occurrence
    BY <1>1 DEF FiberState
  <2>2. FiberType'
    BY <1>1, <1>10, <2>1, CompleteType DEF Settle
  <2>3. /\ tag' \in [Sessions -> RepositoryTags]
        /\ mem' \in [Sessions -> LoopMap]
        /\ lease' \in Sessions \cup {NoSession}
    BY <1>1, <1>10, <2>1, SetStateType DEF Settle
  <2>4. produced' \subseteq Occurrence /\ repeated' \subseteq Occurrence
    BY <1>10, <2>1 DEF Settle, Produce, TypeOK
  <2>. QED
    BY <1>10, <2>2, <2>3, <2>4 DEF Settle, TypeOK, FiberType, RepositoryTags
<1>11. CASE Deliver(s, f)
  <2>1. \A o : [st EXCEPT !.out = @ \ {o}] \in FiberState
    <3>. TAKE o
    <3>1. st.out \ {o} \in SUBSET Occurrence
      BY <1>1 DEF FiberState
    <3>2. "idle" \in Pcs
      BY DEF Pcs
    <3>. QED
      BY <1>1, <3>1, <3>2, EditType, NoLoopsType
  <2>2. \E after \in FiberState : Become(s, f, after)
    BY <1>1, <1>11, <2>1, FollowType DEF Deliver
  <2>3. FiberType'
    BY <1>1, <2>2, BecomeType
  <2>. QED
    BY <1>11, <2>3, FiberStepType DEF Deliver
<1>. QED
  BY <1>3, <1>4, <1>5, <1>6, <1>7, <1>8, <1>9, <1>10, <1>11 DEF Step

\* A loop that is made for a schedule is a loop.
LEMMA NewLoopType ==
  ASSUME NEW k \in Tags, NEW t \in Nat, NEW due \in Nat
  PROVE  NewLoop(k, t, due) \in Loop
<1>1. (IF k \in Recurring /\ MaxAge > 0 THEN t + MaxAge ELSE 0) \in Nat
  BY MaxAgeAssumption
<1>. QED
  BY <1>1 DEF NewLoop, Loop

\* A first due instant is an instant.
LEMMA FirstDuesType ==
  ASSUME NEW k, NEW t \in Nat
  PROVE  FirstDues(k, t) \subseteq Nat
BY StepsAssumption DEF FirstDues

\* A tool call or a tick that begins keeps everything well typed.
LEMMA CallType ==
  ASSUME TypeOK, NEW s \in Sessions, NEW f \in Fibers, Call(s, f) \/ Sample(s, f)
  PROVE  TypeOK'
<1>0. FiberType /\ now \in Nat /\ mem[s] \in LoopMap /\ used \subseteq Ids
  BY DEF TypeOK, FiberType
<1>1. \A op \in Ops, i \in Ids \cup {NoId}, loop \in LoopOrNone, at \in Nat :
        Request(s, f, op, i, loop, at) /\ (op \in IdOps \cup {"add"} => i \in Ids)
          => FiberType'
  BY <1>0, RequestType, BecomeType DEF Request
<1>2. CASE CallAdd(s, f)
  <2>1. PICK i \in Ids, k \in Kinds :
          /\ \E due \in FirstDues(k, now) :
               Request(s, f, "add", i, NewLoop(k, now, due), 0)
          /\ used' = used \cup {i}
    BY <1>2 DEF CallAdd
  <2>2. \A due \in FirstDues(k, now) : NewLoop(k, now, due) \in LoopOrNone
    BY <1>0, KindsAssumption, NewLoopType, FirstDuesType DEF LoopOrNone
  <2>3. FiberType'
    BY <1>1, <2>1, <2>2 DEF Ops
  <2>. QED
    BY <1>2, <2>1, <2>3 DEF CallAdd, TypeOK, FiberType, disk, repo, history
<1>3. CASE CallUpdate(s, f)
  <2>1. PICK i \in Present(mem[s]) :
          \/ Request(s, f, "update", i, mem[s][i], 0)
          \/ \E k \in Kinds : \E due \in FirstDues(k, now) :
               Request(s, f, "update", i,
                 [NewLoop(k, now, due) EXCEPT !.enabled = mem[s][i].enabled,
                    !.manualCursor = mem[s][i].manualCursor], 0)
    BY <1>3 DEF CallUpdate
  <2>2. i \in Ids /\ mem[s][i] \in Loop
    BY <1>0 DEF Present, LoopMap, LoopOrNone
  <2>3. \A k \in Kinds : \A due \in FirstDues(k, now) :
          [NewLoop(k, now, due) EXCEPT !.enabled = mem[s][i].enabled,
             !.manualCursor = mem[s][i].manualCursor] \in LoopOrNone
    <3>. TAKE k \in Kinds
    <3>. TAKE due \in FirstDues(k, now)
    <3>. DEFINE fresh == NewLoop(k, now, due)
    <3>1. fresh \in Loop
      BY <1>0, KindsAssumption, NewLoopType, FirstDuesType
    <3>2. mem[s][i].enabled \in BOOLEAN /\ mem[s][i].manualCursor \in Nat
      BY <2>2 DEF Loop
    <3>. HIDE DEF fresh
    <3>3. [fresh EXCEPT !.enabled = mem[s][i].enabled,
             !.manualCursor = mem[s][i].manualCursor] \in Loop
      BY <3>1, <3>2 DEF Loop
    <3>. QED
      BY <3>3 DEF fresh, LoopOrNone
  <2>4. mem[s][i] \in LoopOrNone
    BY <2>2 DEF LoopOrNone
  <2>5. FiberType'
    BY <1>1, <2>1, <2>2, <2>3, <2>4 DEF Ops, IdOps
  <2>. QED
    BY <1>3, <2>5, FiberStepType DEF CallUpdate
<1>4. CASE CallArm(s, f)
  <2>1. \A step \in Steps : now + step \in Nat
    BY <1>0, StepsAssumption
  <2>2. FiberType'
    BY <1>0, <1>1, <1>4, <2>1 DEF CallArm, Ops, IdOps, LoopOrNone
  <2>. QED
    BY <1>4, <2>2, FiberStepType DEF CallArm
<1>5. CASE CallChange(s, f)
  <2>1. FiberType'
    BY <1>0, <1>1, <1>5 DEF CallChange, Ops, IdOps, LoopOrNone
  <2>. QED
    BY <1>5, <2>1, FiberStepType DEF CallChange
<1>6. CASE CallRemoveAll(s, f)
  <2>1. FiberType'
    BY <1>1, <1>6 DEF CallRemoveAll, Ops, IdOps, TwoPartOps, LoopOrNone
  <2>. QED
    BY <1>6, <2>1, FiberStepType DEF CallRemoveAll
<1>7. CASE CallRunNow(s, f)
  <2>1. FiberType'
    BY <1>0, <1>1, <1>7 DEF CallRunNow, Ops, IdOps, LoopOrNone
  <2>. QED
    BY <1>7, <2>1, FiberStepType DEF CallRunNow
<1>8. CASE Sample(s, f)
  <2>1. FiberType'
    BY <1>0, <1>8, IdleType, BecomeType DEF Sample
  <2>. QED
    BY <1>8, <2>1, FiberStepType DEF Sample
<1>. QED
  BY <1>2, <1>3, <1>4, <1>5, <1>6, <1>7, <1>8 DEF Call

\* A session that starts, stops or exits keeps everything well typed.
LEMMA SessionType ==
  ASSUME TypeOK, NEW s \in Sessions,
         Start(s) \/ Stop(s) \/ Orphan(s) \/ Exit(s) \/ SetBusy(s)
  PROVE  TypeOK'
<1>0. FiberType /\ Sched \in Fibers /\ fiber[s][Sched] \in FiberState
  BY DEF TypeOK, FiberType, Fibers
<1>1. CASE Start(s)
  <2>1. FiberType'
    BY <1>0, <1>1, IdleType, BecomeType DEF Start
  <2>2. [i \in Ids |-> IF i \in SessionIds THEN journal[Conversation[s]][i] ELSE NoLoop]
          \in LoopMap
    BY ConversationAssumption DEF TypeOK, LoopMap, LoopOrNone
  <2>. QED
    BY <1>1, <2>1, <2>2 DEF Start, TypeOK, FiberType, disk, history
<1>2. CASE Stop(s)
  <2>1. [fiber[s][Sched] EXCEPT !.pc = "orphan"] \in FiberState
    BY <1>0, EditType, NoLoopsType DEF Pcs
  <2>2. FiberType'
    BY <1>0, <1>2, <2>1, IdleType, BecomeType DEF Stop
  <2>. QED
    BY <1>2, <2>2 DEF Stop, TypeOK, FiberType, repo, history
<1>3. CASE Orphan(s)
  <2>1. fiber[s][Sched].next \in LoopMap
    BY <1>0 DEF FiberState
  <2>2. file' \in [ProjectIds -> LoopOrNone] /\ gone' \subseteq ProjectIds
    BY <1>3, <2>1, ReplaceType DEF Orphan
  <2>3. FiberType'
    BY <1>0, <1>3, IdleType, BecomeType DEF Orphan
  <2>. QED
    BY <1>3, <2>2, <2>3 DEF Orphan, TypeOK, FiberType, repo, history
<1>4. CASE Exit(s)
  <2>1. FiberType'
    BY <1>0, <1>4, IdleType DEF Exit, FiberType
  <2>. QED
    BY <1>4, <2>1, NoLoopsType DEF Exit, TypeOK, FiberType, history
<1>5. CASE SetBusy(s)
  BY <1>5 DEF SetBusy, TypeOK, disk, repo, history
<1>. QED
  BY <1>1, <1>2, <1>3, <1>4, <1>5

\* The repository, its fibers, the file and the log always have their types
\* (the model of repository.ts as a whole).
THEOREM TypeCorrect == Spec => []TypeOK
<1>1. Init => TypeOK
  <2>. SUFFICES ASSUME Init PROVE TypeOK
    OBVIOUS
  <2>1. fiber \in [Sessions -> [Fibers -> FiberState]]
    BY IdleType DEF Init
  <2>2. mem \in [Sessions -> LoopMap] /\ tag \in [Sessions -> RepositoryTags]
    BY NoLoopsType DEF Init, RepositoryTags
  <2>3. /\ file \in [ProjectIds -> LoopOrNone]
        /\ journal \in [Conversations -> [SessionIds -> LoopOrNone]]
    BY DEF Init, LoopOrNone
  <2>. QED
    BY <2>1, <2>2, <2>3 DEF Init, TypeOK, RepositoryTags
<1>2. TypeOK /\ [Next]_vars => TypeOK'
  <2>. SUFFICES ASSUME TypeOK, [Next]_vars PROVE TypeOK'
    OBVIOUS
  <2>1. CASE UNCHANGED vars
    BY <2>1 DEF vars, TypeOK
  <2>2. CASE Tick
    BY <2>2 DEF Tick, TypeOK, disk, repo, history
  <2>. QED
    BY <2>1, <2>2, StepType, CallType, SessionType DEF Next
<1>. QED
  BY <1>1, <1>2, PTL DEF Spec

-----------------------------------------------------------------------------
(* The lease *)

\* A step of session s leaves the other sessions alone, and takes the lease only
\* when it is free and gives it up only when s holds it.
StepOf(s) ==
  /\ \A r \in Sessions \ {s} :
       phase'[r] = phase[r] /\ tag'[r] = tag[r] /\ fiber'[r] = fiber[r]
  /\ \/ lease' = lease
     \/ lease = NoSession /\ lease' = s
     \/ lease = s /\ lease' = NoSession

\* Whoever holds the lease and a repository state t agree.
Agrees(s, t) ==
  /\ phase[s] = "open" /\ t = "Owner" => lease = s
  /\ lease = s => phase[s] \in Running /\ t = "Owner"

\* The invariant of the session that moves is the invariant of all.
LEMMA OnlyOneMoves ==
  ASSUME LeaseInv, NEW s \in Sessions, StepOf(s), LeaseInvOf(s)'
  PROVE  LeaseInv'
<1>. SUFFICES ASSUME NEW r \in Sessions, r # s PROVE LeaseInvOf(r)'
  BY DEF LeaseInv
<1>1. LeaseInvOf(r) /\ (lease' = r <=> lease = r)
  BY SessionsAssumption DEF LeaseInv, StepOf
<1>2. phase'[r] = phase[r] /\ tag'[r] = tag[r] /\ fiber'[r] = fiber[r]
  BY DEF StepOf
<1>. QED
  BY <1>1, <1>2 DEF LeaseInvOf

\* A fiber that works without the lock disturbs nothing.
LEMMA Quiet ==
  ASSUME TypeOK, NEW s \in Sessions, NEW f \in Fibers, LeaseInvOf(s), NEW st,
         Become(s, f, st), UNCHANGED <<lease, phase, tag>>,
         st.op # "init", st.pc \notin Locked, fiber[s][f].pc \notin Locked,
         phase[s] \in {"open", "closed"}
  PROVE  LeaseInvOf(s)' /\ StepOf(s)
<1>1. fiber'[s] = [fiber[s] EXCEPT ![f] = st] /\ \A r \in Sessions \ {s} : fiber'[r] = fiber[r]
  BY DEF Become, TypeOK
<1>2. /\ fiber'[s][f] = st
      /\ \A g \in Fibers : g # f => fiber'[s][g] = fiber[s][g]
  BY <1>1 DEF TypeOK
<1>3. "load" \in Locked /\ Waiting \subseteq Locked
  BY DEF Waiting, Locked
<1>. QED
  BY <1>1, <1>2, <1>3 DEF LeaseInvOf, StepOf

\* A fiber that goes on without asking for the lease, alone in the lock.
LEMMA Proceed ==
  ASSUME TypeOK, NEW s \in Sessions, NEW f \in Fibers, LeaseInvOf(s), NEW st,
         Become(s, f, st), st.op # "init", st.pc \notin Waiting,
         fiber[s][f].pc \in Locked \/ LockFree(s),
         phase[s] \notin {"new", "exited"},
         \/ fiber[s][f].op # "init" /\ phase'[s] = phase[s]
         \/ fiber[s][f].op = "init" /\ phase'[s] \in {"open", "closed"},
         Agrees(s, tag[s])'
  PROVE  LeaseInvOf(s)'
<1>1. fiber'[s] = [fiber[s] EXCEPT ![f] = st]
  BY DEF Become, TypeOK
<1>2. /\ fiber'[s][f] = st
      /\ \A g \in Fibers : g # f => fiber'[s][g] = fiber[s][g]
  BY <1>1 DEF TypeOK
<1>3. \A g \in Fibers : g # f => fiber[s][g].pc \notin Locked
  BY DEF LeaseInvOf, LockFree
<1>4. "load" \in Waiting /\ Waiting \subseteq Locked
  BY DEF Waiting, Locked
<1>5. \A g \in Fibers : fiber'[s][g].pc \notin Waiting /\ fiber'[s][g].op # "init"
  BY <1>2, <1>3, <1>4 DEF LeaseInvOf
<1>6. phase'[s] \in {"open", "closed"}
  <2>. SUFFICES ASSUME phase[s] = "starting", fiber[s][f].op # "init" PROVE FALSE
    BY DEF TypeOK
  <2>1. Sched \in Fibers /\ fiber[s][Sched].op = "init" /\ fiber[s][Sched].pc \in Locked
    BY <1>4 DEF LeaseInvOf, Fibers
  <2>. QED
    BY <1>3, <2>1
<1>. QED
  BY <1>2, <1>3, <1>4, <1>5, <1>6 DEF LeaseInvOf, Agrees

\* What follows an operation neither starts the session nor waits for the lease.
LEMMA FollowIsQuiet ==
  ASSUME NEW st \in FiberState, st.op # "init", NEW after \in Follow(st)
  PROVE  after.op # "init" /\ after.pc \in {"idle", "lock", "sample"}
<1>1. [st EXCEPT !.pc = "lock", !.ret = "project", !.next = NoLoops, !.out = {}].op = st.op
  BY DEF FiberState
<1>2. [st EXCEPT !.pc = "lock", !.ret = "project", !.next = NoLoops, !.out = {}].pc = "lock"
  BY DEF FiberState
<1>3. Idle.op = "none" /\ Idle.pc = "idle" /\ Drain.op = "due" /\ Drain.pc = "sample"
  BY DEF Idle, Drain
<1>. QED
  BY <1>1, <1>2, <1>3 DEF Follow

\* Nor does the fiber that ends the locked part of its operation.
LEMMA CompleteIsQuiet ==
  ASSUME TypeOK, NEW s \in Sessions, NEW f \in Fibers, fiber[s][f].op # "init",
         NEW out, Complete(s, f, out)
  PROVE  \E st : Become(s, f, st) /\ st.op # "init" /\ st.pc \notin Waiting
<1> DEFINE st == fiber[s][f]
<1>1. st \in FiberState
  BY DEF TypeOK
<1>2. /\ [st EXCEPT !.pc = "deliver", !.next = NoLoops, !.out = out].op = st.op
      /\ [st EXCEPT !.pc = "deliver", !.next = NoLoops, !.out = out].pc = "deliver"
  BY <1>1 DEF FiberState
<1>. QED
  BY <1>1, <1>2, FollowIsQuiet DEF Complete, Waiting

\* Ref.set keeps a repository state and the lease in agreement: the state that
\* remains is the owner only if the lease was held and kept.
LEMMA SetStateAgrees ==
  ASSUME TypeOK, NEW s \in Sessions, NEW t, NEW m, SetState(s, t, m),
         Agrees(s, t), phase'[s] = phase[s]
  PROVE  /\ Agrees(s, tag[s])'
         /\ \/ lease' = lease
            \/ lease = s /\ lease' = NoSession
         /\ \A r \in Sessions \ {s} : tag'[r] = tag[r]
<1>1. tag'[s] = IF t = "Owner" /\ ~HasProjectLoops(m) THEN "Inactive" ELSE t
  BY DEF SetState, TypeOK
<1>2. \A r \in Sessions \ {s} : tag'[r] = tag[r]
  BY DEF SetState, TypeOK
<1>3. CASE t = "Owner" /\ ~HasProjectLoops(m)
  BY <1>1, <1>2, <1>3, SessionsAssumption DEF SetState, Agrees
<1>4. CASE ~(t = "Owner" /\ ~HasProjectLoops(m))
  BY <1>1, <1>2, <1>4 DEF SetState, Agrees
<1>. QED
  BY <1>3, <1>4

\* A failing operation keeps the invariant, if the state it leaves agrees with
\* the lease.
LEMMA AbortLease ==
  ASSUME TypeOK, NEW s \in Sessions, NEW f \in Fibers, LeaseInvOf(s),
         NEW t, NEW m, Abort(s, f, t, m), Agrees(s, t),
         fiber[s][f].pc \in Locked \/ LockFree(s),
         phase[s] \notin {"new", "exited"},
         fiber[s][f].op = "init" => t # "Owner"
  PROVE  LeaseInvOf(s)' /\ StepOf(s)
<1> DEFINE st == IF f = Sched THEN Dead ELSE Idle
<1>1. st.op = "none" /\ st.pc \notin Waiting
  BY DEF Dead, Idle, Waiting
<1>2. Become(s, f, st) /\ \A r \in Sessions \ {s} : fiber'[r] = fiber[r]
  BY DEF Abort, Become, TypeOK
<1>. HIDE DEF st
<1>3. CASE fiber[s][f].op = "add"
  <2>1. SetState(s, t, m) /\ UNCHANGED phase
    BY <1>3 DEF Abort
  <2>2. Agrees(s, tag[s])' /\ StepOf(s)
    BY <1>2, <2>1, SetStateAgrees DEF StepOf
  <2>. QED
    BY <1>1, <1>2, <1>3, <2>1, <2>2, Proceed
<1>4. CASE fiber[s][f].op = "init"
  <2>1. tag' = [tag EXCEPT ![s] = t] /\ phase' = [phase EXCEPT ![s] = "closed"]
          /\ UNCHANGED lease
    BY <1>4 DEF Abort
  <2>2. lease # s
    BY <1>4 DEF Agrees
  <2>3. Agrees(s, tag[s])' /\ StepOf(s) /\ phase'[s] = "closed"
    BY <1>2, <2>1, <2>2 DEF Agrees, StepOf, TypeOK
  <2>. QED
    BY <1>1, <1>2, <1>4, <2>3, Proceed
<1>5. CASE fiber[s][f].op \notin {"add", "init"}
  <2>1. tag' = [tag EXCEPT ![s] = t] /\ UNCHANGED <<lease, phase>>
    BY <1>5 DEF Abort
  <2>2. Agrees(s, tag[s])' /\ StepOf(s) /\ phase'[s] = phase[s]
    BY <1>2, <2>1 DEF Agrees, StepOf, TypeOK
  <2>. QED
    BY <1>1, <1>2, <1>5, <2>2, Proceed
<1>. QED
  BY <1>3, <1>4, <1>5

\* An operation on a state that agrees with the lease keeps the invariant.
LEMMA PerformLease ==
  ASSUME TypeOK, NEW s \in Sessions, NEW f \in Fibers, LeaseInvOf(s),
         NEW t, NEW m, Perform(s, f, t, m), Agrees(s, t),
         fiber[s][f].pc \in Locked \/ LockFree(s),
         phase[s] \notin {"new", "exited"},
         fiber[s][f].op # "init"
  PROVE  LeaseInvOf(s)' /\ StepOf(s)
<1> DEFINE st == fiber[s][f]
<1>0. st \in FiberState
  BY DEF TypeOK
<1>1. CASE Abort(s, f, t, m)
  BY <1>1, AbortLease
<1>2. ASSUME NEW after, Become(s, f, after), after.op # "init", after.pc \notin Waiting,
             tag' = [tag EXCEPT ![s] = t], UNCHANGED <<lease, phase>>
      PROVE  LeaseInvOf(s)' /\ StepOf(s)
  <2>1. Agrees(s, tag[s])' /\ StepOf(s) /\ phase'[s] = phase[s]
    BY <1>2 DEF Agrees, StepOf, TypeOK, Become
  <2>. QED
    BY <1>2, <2>1, Proceed
<1>3. ASSUME tag' = [tag EXCEPT ![s] = t], Complete(s, f, {}), UNCHANGED <<disk, phase>>
      PROVE  LeaseInvOf(s)' /\ StepOf(s)
  BY <1>2, <1>3, CompleteIsQuiet DEF disk
<1>4. ASSUME NEW r, tag' = [tag EXCEPT ![s] = t], UNCHANGED <<disk, phase>>,
             Become(s, f, [st EXCEPT !.pc = "persist", !.next = r.next, !.out = r.out])
      PROVE  LeaseInvOf(s)' /\ StepOf(s)
  <2> DEFINE after == [st EXCEPT !.pc = "persist", !.next = r.next, !.out = r.out]
  <2>1. after.op # "init" /\ after.pc \notin Waiting
    BY <1>0 DEF FiberState, Waiting
  <2>. HIDE DEF after
  <2>. QED
    BY <1>2, <1>4, <2>1 DEF disk, after
<1>5. ASSUME NEW r, SetState(s, t, r.next), Complete(s, f, r.out), UNCHANGED phase
      PROVE  LeaseInvOf(s)' /\ StepOf(s)
  <2>1. PICK after : Become(s, f, after) /\ after.op # "init" /\ after.pc \notin Waiting
    BY <1>5, CompleteIsQuiet
  <2>2. Agrees(s, tag[s])' /\ StepOf(s) /\ phase'[s] = phase[s]
    BY <1>5, <2>1, SetStateAgrees DEF StepOf, Become, TypeOK
  <2>. QED
    BY <2>1, <2>2, Proceed
<1>. QED
  BY <1>1, <1>3, <1>4, <1>5 DEF Perform

\* A repository that opens in a state that agrees with the lease.
LEMMA OpenLease ==
  ASSUME TypeOK, NEW s \in Sessions, NEW f \in Fibers, LeaseInvOf(s),
         NEW t, NEW m, Open(s, f, t, m), fiber[s][f].op = "init",
         t = "Owner" <=> lease = s
  PROVE  LeaseInvOf(s)' /\ StepOf(s)
<1>1. Idle.op # "init" /\ Idle.pc \notin Waiting
  BY DEF Idle, Waiting
<1>2. Become(s, f, Idle) /\ \A r \in Sessions \ {s} : fiber'[r] = fiber[r]
  BY DEF Open, Become, TypeOK
<1>3. Agrees(s, tag[s])' /\ StepOf(s) /\ phase'[s] = "open"
  BY <1>2 DEF Open, disk, Agrees, Running, StepOf, TypeOK
<1>4. fiber[s][f].pc \in Locked /\ phase[s] = "starting"
  BY DEF LeaseInvOf, Waiting, Locked
<1>. QED
  BY <1>1, <1>2, <1>3, <1>4, Proceed

\* Between operations, and in one that is not reading the file with the lease,
\* the repository state agrees with the lease.
LEMMA Standing ==
  ASSUME TypeOK, NEW s \in Sessions, NEW f \in Fibers, LeaseInvOf(s),
         fiber[s][f].pc \notin {"idle", "dead", "load"},
         fiber[s][f].pc \in Locked \/ LockFree(s)
  PROVE  Agrees(s, tag[s]) /\ phase[s] \notin {"new", "exited"}
<1>1. \A g \in Fibers : fiber[s][g].pc # "load"
  BY DEF LeaseInvOf, LockFree, Locked
<1>. QED
  BY <1>1 DEF LeaseInvOf, Agrees

\* A fiber that asks for the lease has not got it.
LEMMA NotYet ==
  ASSUME TypeOK, NEW s \in Sessions, NEW f \in Fibers, LeaseInvOf(s),
         fiber[s][f].pc \in {"probe", "acquire", "denied"}
  PROVE  /\ lease # s /\ tag[s] # "Owner" /\ phase[s] \notin {"new", "exited"}
         /\ \A t : t # "Owner" => Agrees(s, t)
<1>1. fiber[s][f].pc \in Locked /\ fiber[s][f].pc \in Waiting
  BY DEF Locked, Waiting
<1>2. tag[s] # "Owner" /\ Agrees(s, tag[s]) /\ phase[s] \notin {"new", "exited"}
  BY <1>1, Standing DEF LeaseInvOf
<1>. QED
  BY <1>2 DEF Agrees

\* A fiber that goes on to ask for the lease, or that is refused it.
LEMMA StillWaiting ==
  ASSUME TypeOK, NEW s \in Sessions, NEW f \in Fibers, LeaseInvOf(s),
         NEW pc \in {"probe", "acquire", "denied"},
         Become(s, f, [fiber[s][f] EXCEPT !.pc = pc]), UNCHANGED <<lease, phase, tag>>,
         tag[s] # "Owner", fiber[s][f].pc \notin {"idle", "dead", "load"},
         fiber[s][f].pc \in Locked \/ LockFree(s)
  PROVE  LeaseInvOf(s)' /\ StepOf(s)
<1> DEFINE st == [fiber[s][f] EXCEPT !.pc = pc]
<1>1. st.op = fiber[s][f].op /\ st.pc = pc
  BY DEF TypeOK, FiberState
<1>. HIDE DEF st
<1>2. fiber'[s] = [fiber[s] EXCEPT ![f] = st] /\ \A r \in Sessions \ {s} : fiber'[r] = fiber[r]
  BY DEF Become, TypeOK, st
<1>3. /\ fiber'[s][f] = st
      /\ \A g \in Fibers : g # f => fiber'[s][g] = fiber[s][g]
  BY <1>2 DEF TypeOK
<1>4. /\ Agrees(s, tag[s])
      /\ \A g \in Fibers : g # f => fiber[s][g].pc \notin Locked
      /\ phase[s] \notin {"new", "exited"}
  BY Standing DEF LeaseInvOf, LockFree
<1>5. pc \in Locked /\ pc \in Waiting /\ "load" \in Locked /\ pc # "load" /\ Waiting \subseteq Locked
  BY DEF Locked, Waiting
<1>6. phase[s] = "starting" => f = Sched
  BY <1>4, <1>5 DEF LeaseInvOf, Fibers
<1>7. StepOf(s)
  BY <1>2 DEF StepOf
<1>. QED
  BY <1>1, <1>3, <1>4, <1>5, <1>6, <1>7 DEF LeaseInvOf, Agrees

\* A step of a mutation keeps the invariant.
LEMMA StepLease ==
  ASSUME TypeOK, NEW s \in Sessions, NEW f \in Fibers, LeaseInvOf(s), Step(s, f)
  PROVE  LeaseInvOf(s)' /\ StepOf(s)
<1> DEFINE st == fiber[s][f]
<1>0. st \in FiberState /\ "load" \in Locked /\ Waiting \subseteq Locked
  BY DEF TypeOK, Waiting, Locked
<1>1. CASE Enter(s, f)
  <2>1. st.pc = "lock" /\ LockFree(s) /\ st.op # "init"
    BY <1>1 DEF Enter, LeaseInvOf, Waiting
  <2>2. Agrees(s, tag[s]) /\ phase[s] \notin {"new", "exited"}
    BY <2>1, Standing
  <2>3. CASE Perform(s, f, tag[s], mem[s])
    BY <2>1, <2>2, <2>3, PerformLease
  <2>4. CASE ~Perform(s, f, tag[s], mem[s])
    <3>1. /\ tag[s] # "Owner" /\ UNCHANGED <<lease, phase, tag>>
          /\ \E pc \in {"probe", "acquire"} : Become(s, f, [st EXCEPT !.pc = pc])
      BY <1>1, <2>4 DEF Enter, Probes, Competes, disk, repo
    <3>. QED
      BY <2>1, <3>1, StillWaiting
  <2>. QED
    BY <2>3, <2>4
<1>2. CASE Probe(s, f)
  <2>1. st.pc = "probe" /\ st.pc \in Locked
    BY <1>2 DEF Probe, Locked
  <2>2. /\ lease # s /\ tag[s] # "Owner" /\ phase[s] \notin {"new", "exited"}
        /\ \A t : t # "Owner" => Agrees(s, t)
    BY <2>1, NotYet
  <2>3. CASE Become(s, f, [st EXCEPT !.pc = "acquire"]) /\ UNCHANGED <<disk, repo, history, phase>>
    BY <2>1, <2>2, <2>3, StillWaiting DEF disk, repo
  <2>4. CASE st.op = "init" /\ Open(s, f, tag[s], mem[s])
    BY <2>2, <2>4, OpenLease
  <2>5. CASE /\ st.op = "due" /\ tag' = [tag EXCEPT ![s] = "Inactive"]
             /\ Complete(s, f, {}) /\ UNCHANGED <<disk, mem, history, phase>>
    <3>1. PICK after : Become(s, f, after) /\ after.op # "init" /\ after.pc \notin Waiting
      BY <2>5, CompleteIsQuiet
    <3>2. Agrees(s, tag[s])' /\ StepOf(s) /\ phase'[s] = phase[s]
      BY <2>2, <2>5, <3>1 DEF Agrees, StepOf, TypeOK, Become, disk
    <3>. QED
      BY <2>1, <2>2, <2>5, <3>1, <3>2, Proceed
  <2>6. CASE Abort(s, f, tag[s], mem[s])
    BY <2>1, <2>2, <2>6, AbortLease
  <2>. QED
    BY <1>2, <2>3, <2>4, <2>5, <2>6 DEF Probe
<1>3. CASE Acquire(s, f)
  <2>1. st.pc = "acquire" /\ st.pc \in Locked
    BY <1>3 DEF Acquire, Locked
  <2>2. /\ lease # s /\ tag[s] # "Owner" /\ phase[s] \notin {"new", "exited"}
        /\ \A t : t # "Owner" => Agrees(s, t)
    BY <2>1, NotYet
  <2>3. CASE /\ lease = NoSession
             /\ lease' = IF phase[s] = "closed" THEN NoSession ELSE s
             /\ Become(s, f, [st EXCEPT !.pc = "load"])
             /\ UNCHANGED <<file, journal, gone, repo, history, phase>>
    <3> DEFINE next == [st EXCEPT !.pc = "load"]
    <3>1. next.op = st.op /\ next.pc = "load"
      BY <1>0 DEF FiberState
    <3>. HIDE DEF next
    <3>2. fiber'[s] = [fiber[s] EXCEPT ![f] = next]
            /\ \A r \in Sessions \ {s} : fiber'[r] = fiber[r]
      BY <2>3 DEF Become, TypeOK, next
    <3>3. /\ fiber'[s][f] = next
          /\ \A g \in Fibers : g # f => fiber'[s][g] = fiber[s][g]
      BY <3>2 DEF TypeOK
    <3>4. \A g \in Fibers : g # f => fiber[s][g].pc \notin Locked
      BY <2>1 DEF LeaseInvOf
    <3>5. phase[s] = "starting" => f = Sched
      BY <1>0, <3>4 DEF LeaseInvOf, Fibers
    <3>6. phase[s] \in {"starting", "open", "closed"} /\ "load" \in Waiting
      BY <2>2 DEF TypeOK, Waiting
    <3>7. StepOf(s)
      BY <2>3, <3>2 DEF StepOf, repo
    <3>8. tag' = tag /\ phase' = phase /\ (lease' = s <=> phase[s] \in Running)
      BY <2>3, <3>6, SessionsAssumption DEF repo, Running
    <3>. QED
      BY <1>0, <2>2, <3>1, <3>3, <3>4, <3>5, <3>6, <3>7, <3>8 DEF LeaseInvOf, Running
  <2>4. CASE Become(s, f, [st EXCEPT !.pc = "denied"]) /\ UNCHANGED <<disk, repo, history, phase>>
    BY <2>1, <2>2, <2>4, StillWaiting DEF disk, repo
  <2>5. CASE Abort(s, f, tag[s], mem[s])
    BY <2>1, <2>2, <2>5, AbortLease
  <2>. QED
    BY <1>3, <2>3, <2>4, <2>5 DEF Acquire
<1>4. ASSUME st.pc = "load"
      PROVE  Agrees(s, "Owner") /\ phase[s] \notin {"new", "exited"}
  BY <1>4 DEF LeaseInvOf, Agrees, Running
<1>5. CASE Load(s, f)
  <2>1. st.pc = "load" /\ st.pc \in Locked
    BY <1>0, <1>5 DEF Load
  <2>2. CASE st.op = "init" /\ Open(s, f, "Owner", Merged(s))
    <3>1. lease = s
      BY <2>1, <2>2 DEF LeaseInvOf, Running
    <3>. QED
      BY <2>2, <3>1, OpenLease
  <2>3. CASE st.op # "init" /\ Perform(s, f, "Owner", Merged(s))
    BY <1>4, <2>1, <2>3, PerformLease
  <2>. QED
    BY <1>5, <2>2, <2>3 DEF Load
<1>6. CASE LoadFails(s, f)
  <2> DEFINE after == IF f = Sched THEN Dead ELSE Idle
  <2>1. after.op = "none" /\ after.pc \notin Waiting
    BY DEF Dead, Idle, Waiting
  <2>2. Become(s, f, after) /\ st.pc = "load" /\ tag' = tag
    BY <1>6 DEF LoadFails, repo
  <2>. HIDE DEF after
  <2>3. phase'[s] = (IF phase[s] = "starting" THEN "closed" ELSE phase[s])
          /\ lease' = (IF lease = s THEN NoSession ELSE lease)
    BY <1>6 DEF LoadFails, TypeOK
  <2>4. tag[s] # "Owner" /\ lease' # s
    BY <2>2, <2>3, SessionsAssumption DEF LeaseInvOf, Waiting
  <2>5. Agrees(s, tag[s])' /\ StepOf(s)
    BY <1>6, <2>2, <2>3, <2>4 DEF Agrees, StepOf, LoadFails, Become, TypeOK
  <2>6. \/ st.op # "init" /\ phase'[s] = phase[s]
        \/ st.op = "init" /\ phase'[s] \in {"open", "closed"}
    <3>1. phase[s] = "starting" => st.op = "init"
      BY <1>0, <2>2 DEF LeaseInvOf, Fibers
    <3>. QED
      BY <2>3, <3>1 DEF LeaseInvOf
  <2>. QED
    BY <1>0, <1>4, <2>1, <2>2, <2>5, <2>6, Proceed
<1>7. CASE Denied(s, f)
  <2> DEFINE t == IF Present(file) # {} THEN "Follower" ELSE "Inactive"
  <2>0. t # "Owner"
    OBVIOUS
  <2>. HIDE DEF t
  <2>1. st.pc = "denied" /\ st.pc \in Locked
    BY <1>7 DEF Denied, Locked
  <2>2. /\ lease # s /\ tag[s] # "Owner" /\ phase[s] \notin {"new", "exited"}
        /\ \A u : u # "Owner" => Agrees(s, u)
    BY <2>1, NotYet
  <2>3. CASE st.op = "init" /\ Open(s, f, t, mem[s])
    BY <2>0, <2>2, <2>3, OpenLease
  <2>4. CASE /\ st.op = "due" /\ tag' = [tag EXCEPT ![s] = t]
             /\ Complete(s, f, {}) /\ UNCHANGED <<disk, mem, history, phase>>
    <3>1. PICK after : Become(s, f, after) /\ after.op # "init" /\ after.pc \notin Waiting
      BY <2>4, CompleteIsQuiet
    <3>2. Agrees(s, tag[s])' /\ StepOf(s) /\ phase'[s] = phase[s]
      BY <2>0, <2>2, <2>4, <3>1 DEF Agrees, StepOf, TypeOK, Become, disk
    <3>. QED
      BY <2>1, <2>2, <2>4, <3>1, <3>2, Proceed
  <2>5. CASE Abort(s, f, t, mem[s]) \/ Abort(s, f, tag[s], mem[s])
    BY <2>0, <2>1, <2>2, <2>5, AbortLease
  <2>. QED
    BY <1>7, <2>3, <2>4, <2>5 DEF Denied, t
<1>8. ASSUME st.pc \in {"persist", "settle"}
      PROVE  st.pc \in Locked /\ st.op # "init" /\ Agrees(s, tag[s])
               /\ phase[s] \notin {"new", "exited"}
  <2>1. st.pc \in Locked /\ st.op # "init"
    BY <1>8 DEF Locked, LeaseInvOf, Waiting
  <2>. QED
    BY <1>8, <2>1, Standing
<1>9. CASE Persist(s, f)
  <2>1. st.pc = "persist"
    BY <1>9 DEF Persist
  <2>2. CASE Abort(s, f, tag[s], mem[s])
    BY <1>8, <2>1, <2>2, AbortLease
  <2>3. CASE Become(s, f, [st EXCEPT !.pc = "settle"])
             /\ UNCHANGED <<journal, lease, repo, history, phase>>
    <3> DEFINE next == [st EXCEPT !.pc = "settle"]
    <3>1. next.op = st.op /\ next.pc \notin Waiting
      BY <1>0 DEF FiberState, Waiting
    <3>. HIDE DEF next
    <3>2. Become(s, f, next)
      BY <2>3 DEF next
    <3>3. Agrees(s, tag[s])' /\ StepOf(s)
      BY <1>8, <2>1, <2>3, <3>2 DEF Agrees, StepOf, Become, TypeOK, repo
    <3>. QED
      BY <1>8, <2>1, <2>3, <3>1, <3>2, <3>3, Proceed
  <2>. QED
    BY <1>9, <2>2, <2>3 DEF Persist
<1>10. CASE Settle(s, f)
  <2>1. st.pc = "settle" /\ SetState(s, tag[s], st.next) /\ UNCHANGED phase
    BY <1>10 DEF Settle
  <2>2. PICK after : Become(s, f, after) /\ after.op # "init" /\ after.pc \notin Waiting
    BY <1>8, <1>10, <2>1, CompleteIsQuiet DEF Settle
  <2>3. Agrees(s, tag[s])' /\ StepOf(s)
    BY <1>8, <2>1, <2>2, SetStateAgrees DEF StepOf, Become, TypeOK
  <2>. QED
    BY <1>8, <2>1, <2>2, <2>3, Proceed
<1>11. CASE Deliver(s, f)
  <2>1. st.pc = "deliver" /\ st.op # "init" /\ st.pc \notin Locked
    BY <1>11 DEF Deliver, LeaseInvOf, Waiting, Locked
  <2>2. phase[s] \in {"open", "closed"}
    BY <2>1 DEF LeaseInvOf, TypeOK, Fibers, Waiting
  <2>3. PICK o \in st.out :
          \/ \E after \in Follow(st) : Become(s, f, after)
          \/ Become(s, f, [st EXCEPT !.out = @ \ {o}])
    BY <1>11 DEF Deliver
  <2>4. \E after : Become(s, f, after) /\ after.op # "init" /\ after.pc \notin Locked
    <3> DEFINE rest == [st EXCEPT !.out = @ \ {o}]
    <3>1. rest.op = st.op /\ rest.pc = st.pc
      BY <1>0 DEF FiberState
    <3>2. CASE Become(s, f, rest)
      BY <2>1, <3>1, <3>2
    <3>3. ASSUME NEW after \in Follow(st), Become(s, f, after)
          PROVE  after.op # "init" /\ after.pc \notin Locked
      BY <1>0, <2>1, FollowIsQuiet DEF Locked
    <3>. QED
      BY <2>3, <3>2, <3>3
  <2>. QED
    BY <1>11, <2>1, <2>2, <2>4, Quiet DEF Deliver, disk, repo
<1>. QED
  BY <1>1, <1>2, <1>3, <1>5, <1>6, <1>7, <1>9, <1>10, <1>11 DEF Step

\* A tool call or a tick that begins does not touch the lease.
LEMMA CallLease ==
  ASSUME TypeOK, NEW s \in Sessions, NEW f \in Fibers, LeaseInvOf(s),
         Call(s, f) \/ Sample(s, f)
  PROVE  LeaseInvOf(s)' /\ StepOf(s)
<1>1. Idle.op = "none" /\ Idle.pc = "idle"
  BY DEF Idle
<1>2. \A op, i, loop, at : op # "init" /\ Request(s, f, op, i, loop, at) =>
        \E st : Become(s, f, st) /\ st.op # "init" /\ st.pc \notin Locked
  <2>. SUFFICES ASSUME NEW op, NEW i, NEW loop, NEW at, op # "init",
                       Request(s, f, op, i, loop, at)
                PROVE  \E st : Become(s, f, st) /\ st.op # "init" /\ st.pc \notin Locked
    OBVIOUS
  <2> DEFINE st == [Idle EXCEPT !.op = op, !.pc = "lock", !.id = i, !.loop = loop, !.at = at]
  <2>1. st.op = op /\ st.pc = "lock"
    BY DEF Idle
  <2>. HIDE DEF st
  <2>2. Become(s, f, st)
    BY DEF Request, st
  <2>. QED
    BY <2>1, <2>2 DEF Locked
<1>3. CASE Call(s, f)
  <2>1. /\ phase[s] = "open" /\ fiber[s][f].pc = "idle" /\ UNCHANGED <<lease, phase, tag>>
        /\ \E op, i, loop, at : op # "init" /\ Request(s, f, op, i, loop, at)
    BY <1>3 DEF Call, CallAdd, CallUpdate, CallArm, CallChange, CallRemoveAll, CallRunNow,
                Ready, disk, repo
  <2>. QED
    BY <1>2, <2>1, Quiet DEF Locked
<1>4. CASE Sample(s, f)
  <2>1. fiber[s][f].pc \in {"idle", "sample"} /\ UNCHANGED <<lease, phase, tag>>
    BY <1>4 DEF Sample, disk, repo
  <2>2. phase[s] \in {"open", "closed"}
    BY <1>4 DEF Sample, LeaseInvOf, TypeOK, Fibers, Waiting
  <2>3. /\ [Idle EXCEPT !.op = "due", !.pc = "lock", !.at = now].op = "due"
        /\ [Idle EXCEPT !.op = "due", !.pc = "lock", !.at = now].pc = "lock"
    BY DEF Idle
  <2>4. \E st : Become(s, f, st) /\ st.op # "init" /\ st.pc \notin Locked
    BY <1>1, <1>4, <2>3 DEF Sample, Locked
  <2>. QED
    BY <2>1, <2>2, <2>4, Quiet DEF Locked
<1>. QED
  BY <1>3, <1>4

\* A session that starts, stops or exits keeps the invariant.
LEMMA SessionLease ==
  ASSUME TypeOK, NEW s \in Sessions, LeaseInvOf(s),
         Start(s) \/ Stop(s) \/ Orphan(s) \/ Exit(s) \/ SetBusy(s)
  PROVE  LeaseInvOf(s)' /\ StepOf(s)
<1>0. Sched \in Fibers /\ "load" \in Locked /\ Waiting \subseteq Locked
  BY DEF Fibers, Waiting, Locked
<1>1. Dead.op = "none" /\ Dead.pc = "dead"
  BY DEF Dead, Idle
<1>2. CASE Start(s)
  <2> DEFINE st == [Idle EXCEPT !.op = "init", !.pc = "probe"]
  <2>1. st.op = "init" /\ st.pc = "probe"
    BY DEF Idle
  <2>. HIDE DEF st
  <2>2. Become(s, Sched, st) /\ phase[s] = "new" /\ phase' = [phase EXCEPT ![s] = "starting"]
          /\ UNCHANGED <<lease, tag>>
    BY <1>2 DEF Start, st, disk
  <2>3. /\ fiber'[s][Sched] = st
        /\ \A g \in Fibers : g # Sched => fiber'[s][g] = fiber[s][g]
        /\ \A r \in Sessions \ {s} : fiber'[r] = fiber[r]
    BY <1>0, <2>2 DEF Become, TypeOK
  <2>4. phase'[s] = "starting" /\ \A r \in Sessions \ {s} : phase'[r] = phase[r]
    BY <2>2 DEF TypeOK
  <2>5. \A g \in Fibers : g # Sched => fiber'[s][g].pc = "idle" /\ fiber'[s][g].op # "init"
    BY <2>2, <2>3 DEF LeaseInvOf
  <2>6. tag[s] # "Owner" /\ lease # s
    BY <2>2 DEF LeaseInvOf, Running
  <2>7. "idle" \notin Locked /\ "idle" \notin Waiting /\ "probe" \in Waiting
    BY DEF Locked, Waiting
  <2>. QED
    BY <1>0, <2>1, <2>2, <2>3, <2>4, <2>5, <2>6, <2>7 DEF LeaseInvOf, StepOf
<1>3. CASE Stop(s)
  <2>1. /\ phase[s] = "open" /\ phase'[s] = "closed" /\ tag' = tag
        /\ lease' = (IF lease = s THEN NoSession ELSE lease)
        /\ \A r \in Sessions \ {s} : phase'[r] = phase[r]
    BY <1>3 DEF Stop, TypeOK, repo
  <2>2. PICK st : /\ Become(s, Sched, st) /\ st.pc \in {"dead", "orphan"}
                  /\ st.op # "init"
    <3>1. fiber[s][Sched].op # "init"
      BY <1>0, <2>1 DEF LeaseInvOf
    <3>2. /\ [fiber[s][Sched] EXCEPT !.pc = "orphan"].pc = "orphan"
          /\ [fiber[s][Sched] EXCEPT !.pc = "orphan"].op = fiber[s][Sched].op
      BY <1>0 DEF TypeOK, FiberState
    <3>. QED
      BY <1>1, <1>3, <3>1, <3>2 DEF Stop
  <2>3. /\ fiber'[s][Sched] = st
        /\ \A g \in Fibers : g # Sched => fiber'[s][g] = fiber[s][g]
        /\ \A r \in Sessions \ {s} : fiber'[r] = fiber[r]
    BY <1>0, <2>2 DEF Become, TypeOK
  <2>4. st.pc \notin Locked /\ st.pc \notin Waiting /\ st.pc # "load"
    BY <2>2 DEF Locked, Waiting
  <2>5. lease' # s
    BY <2>1, SessionsAssumption
  <2>. QED
    BY <2>1, <2>2, <2>3, <2>4, <2>5 DEF LeaseInvOf, StepOf, Running
<1>4. CASE Orphan(s)
  <2>1. fiber[s][Sched].pc = "orphan" /\ Become(s, Sched, Dead) /\ UNCHANGED <<lease, phase, tag>>
    BY <1>4 DEF Orphan, repo
  <2>2. phase[s] \in {"open", "closed"}
    BY <1>0, <2>1 DEF LeaseInvOf, TypeOK, Waiting
  <2>. QED
    BY <1>0, <1>1, <2>1, <2>2, Quiet DEF Locked
<1>5. CASE Exit(s)
  <2>1. /\ phase'[s] = "exited" /\ tag'[s] = "Inactive"
        /\ lease' = (IF lease = s THEN NoSession ELSE lease)
        /\ \A g \in Fibers : fiber'[s][g] = Dead
        /\ \A r \in Sessions \ {s} :
             phase'[r] = phase[r] /\ tag'[r] = tag[r] /\ fiber'[r] = fiber[r]
    BY <1>5 DEF Exit, TypeOK
  <2>2. "dead" \notin Locked /\ "dead" \notin Waiting
    BY DEF Locked, Waiting
  <2>3. lease' # s
    BY <2>1, SessionsAssumption
  <2>. QED
    BY <1>1, <2>1, <2>2, <2>3 DEF LeaseInvOf, StepOf
<1>6. CASE SetBusy(s)
  <2>1. UNCHANGED <<lease, phase, tag, fiber>>
    BY <1>6 DEF SetBusy, disk, repo
  <2>. QED
    BY <2>1 DEF LeaseInvOf, StepOf
<1>. QED
  BY <1>2, <1>3, <1>4, <1>5, <1>6

\* The invariant of the lease always holds.
LEMMA LeaseInvariance == Spec => []LeaseInv
<1>1. Init => LeaseInv
  <2>. SUFFICES ASSUME Init, NEW s \in Sessions PROVE LeaseInvOf(s)
    BY DEF LeaseInv
  <2>1. \A f \in Fibers : fiber[s][f].op = "none" /\ fiber[s][f].pc = "idle"
    BY DEF Init, Idle
  <2>2. lease # s /\ phase[s] = "new" /\ tag[s] = "Inactive"
    BY SessionsAssumption DEF Init
  <2>. QED
    BY <2>1, <2>2 DEF LeaseInvOf, Locked, Waiting
<1>2. TypeOK /\ LeaseInv /\ [Next]_vars => LeaseInv'
  <2>. SUFFICES ASSUME TypeOK, LeaseInv, [Next]_vars PROVE LeaseInv'
    OBVIOUS
  <2>1. ASSUME NEW s \in Sessions, LeaseInvOf(s)' /\ StepOf(s) PROVE LeaseInv'
    BY <2>1, OnlyOneMoves
  <2>2. CASE Tick \/ UNCHANGED vars
    <3>1. UNCHANGED <<lease, phase, tag, fiber>>
      BY <2>2 DEF Tick, vars, disk, repo
    <3>. QED
      BY <3>1 DEF LeaseInv, LeaseInvOf
  <2>3. ASSUME NEW s \in Sessions, NEW f \in Fibers, Step(s, f) \/ Sample(s, f) \/ Call(s, f)
        PROVE  LeaseInv'
    BY <2>1, <2>3, StepLease, CallLease DEF LeaseInv
  <2>4. ASSUME NEW s \in Sessions,
               Start(s) \/ Stop(s) \/ Orphan(s) \/ Exit(s) \/ SetBusy(s)
        PROVE  LeaseInv'
    BY <2>1, <2>4, SessionLease DEF LeaseInv
  <2>. QED
    BY <2>2, <2>3, <2>4 DEF Next
<1>. QED
  BY <1>1, <1>2, TypeCorrect, PTL DEF Spec

\* For any number of sessions, tools, loops and failures: two sessions never
\* take themselves for the owner of the project's loops, because a live owner
\* holds the lease (repository state Owner against the SQLite lock).
THEOREM LeaseIsSound == Spec => []OwnersHoldLease
<1>1. LeaseInv => OwnersHoldLease
  BY DEF LeaseInv, LeaseInvOf, OwnersHoldLease
<1>. QED
  BY <1>1, LeaseInvariance, PTL

\* The lease is never left with a session that is neither the owner nor about
\* to be one, whatever fails between BEGIN IMMEDIATE and the release.
THEOREM LeaseIsNotLeaked == Spec => []LeaseIsAccountedFor
<1>1. LeaseInv => LeaseIsAccountedFor
  BY DEF LeaseInv, LeaseInvOf, LeaseIsAccountedFor, Running
<1>. QED
  BY <1>1, LeaseInvariance, PTL
=============================================================================
