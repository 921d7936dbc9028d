--------------------------- MODULE LoopRepository ---------------------------
(***************************************************************************)
(* The loop extension: Pi sessions, each with a repository, a scheduler    *)
(* fiber and tool calls, that share one project file and one lease.        *)
(*                                                                         *)
(* A session is one run of startSession: it is started once, and ended by  *)
(* stopSession or by the exit of its process. Its repository serialises    *)
(* mutations with a semaphore; a mutation is a sequence of steps, between  *)
(* which the other sessions run: it may read the file, take the lease,     *)
(* read the file again, replace the file, and set its memory. Code that    *)
(* runs without yielding is one step.                                      *)
(*                                                                         *)
(* Ids are drawn at random by the code, so an id is created at most once   *)
(* and its retention never changes: the ids are two sets.                  *)
(***************************************************************************)
EXTENDS LoopTransition, FiniteSets

CONSTANTS
  Sessions,       \* the runs of startSession
  ProjectIds,     \* ids of project-retained loops
  SessionIds,     \* ids of session-retained loops
  Conversations,  \* Pi session ids, whose log outlives a run
  Conversation,   \* the Pi session id of each run
  Tools,          \* slots for concurrent tool calls and web actions
  Sched,          \* the scheduler fiber of a session
  NoSession,      \* a free lease
  NoId,           \* a fiber that names no loop
  Kinds,          \* schedules the callers ask for
  ToolOps,        \* operations the callers use
  Failures,       \* calls that may fail: "read", "persist", "lease", "append"
  MaxLoops,       \* maxLoops of the configuration
  MaxTime,        \* bound on the clock
  MaxManual,      \* bound on manual runs of one loop
  GracefulStop    \* TRUE: a session is stopped only between operations

Ids == ProjectIds \cup SessionIds
Fibers == Tools \cup {Sched}

ASSUME IdsAssumption == ProjectIds \cap SessionIds = {} /\ NoId \notin Ids
ASSUME SchedAssumption == Sched \notin Tools
ASSUME SessionsAssumption == NoSession \notin Sessions
ASSUME ConversationAssumption == Conversation \in [Sessions -> Conversations]
ASSUME KindsAssumption == Kinds \subseteq Tags
ASSUME BoundsAssumption ==
  MaxLoops \in Nat /\ MaxTime \in Nat /\ MaxManual \in Nat /\ GracefulStop \in BOOLEAN

VARIABLES
  now,       \* the wall clock
  file,      \* the durable file; an absent file has no loops
  journal,   \* the last session-state entry of each conversation's log
  lease,     \* the holder of the SQLite write lock
  phase,     \* the life of each session
  busy,      \* the scheduler's busy flag
  tag,       \* _tag of the repository state
  mem,       \* loops of the repository state
  fiber,     \* what each fiber of each session is doing
  used,      \* ids the callers have drawn
  produced,  \* occurrences that left the repository (history)
  repeated,  \* occurrences that left it more than once (history)
  gone       \* project ids that have been deleted from the file (history)

disk == <<file, journal, lease, gone>>
repo == <<tag, mem>>
history == <<produced, repeated>>
vars == <<now, file, journal, lease, phase, busy, tag, mem, fiber, used,
          produced, repeated, gone>>

-----------------------------------------------------------------------------
(* Types *)

LoopMap == [Ids -> LoopOrNone]
NoLoops == [i \in Ids |-> NoLoop]

Occurrence == [id: Ids, trigger: {"scheduled", "manual"}, cursor: Nat]

IdOps == {"remove", "update", "arm", "pause", "resume", "runNow"}
TwoPartOps == {"due", "removeAll"}   \* session loops, then project loops
Ops == IdOps \cup TwoPartOps \cup {"none", "init", "add"}

\* lock: waiting for the semaphore. probe .. settle: holding it.
Locked == {"probe", "acquire", "load", "denied", "persist", "settle"}
Pcs == Locked \cup {"idle", "sample", "lock", "deliver", "orphan", "dead"}

FiberState ==
  {st \in [op: Ops, pc: Pcs, id: Ids \cup {NoId}, ret: {"session", "project"},
            loop: LoopOrNone, at: Nat, next: LoopMap, out: SUBSET Occurrence] :
     st.op \in IdOps \cup {"add"} => st.id \in Ids}

\* Everything has its type, and an operation on one loop names it.
TypeOK ==
  /\ now \in Nat
  /\ file \in [ProjectIds -> LoopOrNone]
  /\ journal \in [Conversations -> [SessionIds -> LoopOrNone]]
  /\ lease \in Sessions \cup {NoSession}
  /\ phase \in [Sessions -> {"new", "starting", "open", "closed", "exited"}]
  /\ busy \in [Sessions -> BOOLEAN]
  /\ tag \in [Sessions -> {"Inactive", "Follower", "Owner"}]
  /\ mem \in [Sessions -> LoopMap]
  /\ fiber \in [Sessions -> [Fibers -> FiberState]]
  /\ used \subseteq Ids
  /\ produced \subseteq Occurrence
  /\ repeated \subseteq Occurrence
  /\ gone \subseteq ProjectIds

Idle == [op |-> "none", pc |-> "idle", id |-> NoId, ret |-> "session",
         loop |-> NoLoop, at |-> 0, next |-> NoLoops, out |-> {}]
Dead == [Idle EXCEPT !.pc = "dead"]
Drain == [Idle EXCEPT !.op = "due", !.pc = "sample"]

-----------------------------------------------------------------------------
(* Reading the state *)

Present(m) == {i \in DOMAIN m : m[i] # NoLoop}
ProjectPart(m) == [i \in ProjectIds |-> m[i]]
SessionPart(m) == [i \in SessionIds |-> m[i]]
HasProjectLoops(m) == Present(m) \cap ProjectIds # {}

RetentionOf(st) ==
  IF st.op \in TwoPartOps THEN st.ret
  ELSE IF st.id \in ProjectIds THEN "project" ELSE "session"

LockFree(s) == \A f \in Fibers : fiber[s][f].pc \notin Locked

Scheduled(i, loop) == [id |-> i, trigger |-> "scheduled", cursor |-> loop.cursor]
ManualRun(i, loop) ==
  [id |-> i, trigger |-> "manual", cursor |-> loop.manualCursor + 1]

Init ==
  /\ now = 0
  /\ file = [i \in ProjectIds |-> NoLoop]
  /\ journal = [c \in Conversations |-> [i \in SessionIds |-> NoLoop]]
  /\ lease = NoSession
  /\ phase = [s \in Sessions |-> "new"]
  /\ busy = [s \in Sessions |-> FALSE]
  /\ tag = [s \in Sessions |-> "Inactive"]
  /\ mem = [s \in Sessions |-> NoLoops]
  /\ fiber = [s \in Sessions |-> [f \in Fibers |-> Idle]]
  /\ used = {}
  /\ produced = {}
  /\ repeated = {}
  /\ gone = {}

-----------------------------------------------------------------------------
(* What an operation makes of the loops in memory: the set of its possible *)
(* results, empty when it is refused.                                      *)

Change(m, i, loop) == [next |-> [m EXCEPT ![i] = loop], out |-> {}]

\* Every due loop of this retention is claimed; the others stay as they are.
DueLoops(m, ret, at) ==
  {i \in Present(m) \cap (IF ret = "project" THEN ProjectIds ELSE SessionIds) :
     IsDue(m[i], at)}

Claims(m, ret, at) ==
  LET due == DueLoops(m, ret, at)
  IN {[next |-> [i \in Ids |-> IF i \in due THEN after[i] ELSE m[i]],
       out |-> {Scheduled(i, m[i]) : i \in due}] :
        after \in {g \in [due -> UNION {Successors(m[i], at) : i \in due}] :
                     \A i \in due : g[i] \in Successors(m[i], at)}}

Cleared(m, ret) ==
  [i \in Ids |-> IF (i \in ProjectIds) = (ret = "project") THEN NoLoop ELSE m[i]]

Results(st, m) ==
  LET i == st.id
  IN CASE st.op = "due" -> Claims(m, st.ret, st.at)
       [] st.op = "removeAll" -> {[next |-> Cleared(m, st.ret), out |-> {}]}
       [] st.op = "add" ->
            IF Cardinality(Present(m)) < MaxLoops /\ m[i] = NoLoop
            THEN {Change(m, i, st.loop)} ELSE {}
       [] st.op \in IdOps /\ m[i] = NoLoop -> {}
       [] st.op = "remove" /\ m[i] # NoLoop -> {Change(m, i, NoLoop)}
       [] st.op = "update" /\ m[i] # NoLoop -> {Change(m, i, st.loop)}
       [] st.op = "arm" /\ m[i] # NoLoop ->
            IF Armable(m[i]) THEN {Change(m, i, Armed(m[i], st.at))} ELSE {}
       [] st.op \in {"pause", "resume"} /\ m[i] # NoLoop ->
            {Change(m, i, [m[i] EXCEPT !.enabled = (st.op = "resume")])}
       [] st.op = "runNow" /\ m[i] # NoLoop ->
            IF m[i].enabled
            THEN {[next |-> [m EXCEPT ![i] = [m[i] EXCEPT !.manualCursor = @ + 1]],
                   out |-> {ManualRun(i, m[i])}]}
            ELSE {}
       [] OTHER -> {}

-----------------------------------------------------------------------------
(* How an operation ends *)

Become(s, f, st) == fiber' = [fiber EXCEPT ![s][f] = st]

\* What a fiber does after the locked part of an operation and its deliveries.
\* create and update drain on every surface, the other changes only when they
\* are web actions.
Follow(st) ==
  CASE st.op \in TwoPartOps /\ st.ret = "session" ->
         {[st EXCEPT !.pc = "lock", !.ret = "project", !.next = NoLoops, !.out = {}]}
    [] st.op \in {"add", "update"} -> {Drain}
    [] st.op \in {"remove", "pause", "resume", "runNow"} -> {Idle, Drain}
    [] OTHER -> {Idle}

Complete(s, f, out) ==
  LET st == fiber[s][f]
  IN \E after \in (IF out = {} THEN Follow(st)
                   ELSE {[st EXCEPT !.pc = "deliver", !.next = NoLoops, !.out = out]}) :
       Become(s, f, after)

\* The occurrences a claim returns leave the repository.
Produce(out) ==
  /\ produced' = produced \cup out
  /\ repeated' = repeated \cup (produced \cap out)

\* Mutant: the release keeps the loops from before the change.
SetStateOldLoops(s, t, m) ==
  LET empty == t = "Owner" /\ ~HasProjectLoops(m)
  IN /\ tag' = [tag EXCEPT ![s] = IF empty THEN "Inactive" ELSE t]
     /\ mem' = [mem EXCEPT ![s] = IF empty THEN @ ELSE m]
     /\ lease' = IF empty /\ lease = s THEN NoSession ELSE lease

\* Ref.set(state): an owner left without project loops gives the lease up.
SetState(s, t, m) ==
  LET empty == t = "Owner" /\ ~HasProjectLoops(m)
  IN /\ tag' = [tag EXCEPT ![s] = IF empty THEN "Inactive" ELSE t]
     /\ mem' = [mem EXCEPT ![s] = m]
     /\ lease' = IF empty /\ lease = s THEN NoSession ELSE lease

\* The operation fails with the repository in state t, m. A failed add releases
\* an empty ownership; a failed tick ends the scheduler for good; a failed
\* start closes the session's scope.
Abort(s, f, t, m) ==
  LET st == fiber[s][f]
  IN /\ CASE st.op = "add" -> SetState(s, t, m) /\ UNCHANGED phase
          [] st.op = "init" ->
               /\ tag' = [tag EXCEPT ![s] = t]
               /\ phase' = [phase EXCEPT ![s] = "closed"]
               /\ UNCHANGED <<mem, lease>>
          [] OTHER ->
               /\ tag' = [tag EXCEPT ![s] = t]
               /\ mem' = [mem EXCEPT ![s] = m]
               /\ UNCHANGED <<lease, phase>>
     /\ Become(s, f, IF f = Sched THEN Dead ELSE Idle)
     /\ UNCHANGED <<file, journal, gone, history>>

\* commit and what leads to it, once the repository is in state t, m. A project
\* change goes on to replace the file; a session change appends to the log and
\* sets the memory at once.
Perform(s, f, t, m) ==
  LET st == fiber[s][f]
      ret == RetentionOf(st)
  IN \/ /\ Results(st, m) = {}
        /\ Abort(s, f, t, m)
     \/ \E r \in Results(st, m) :
          \/ /\ st.op = "due" /\ r.out = {}
             /\ tag' = [tag EXCEPT ![s] = t]
             /\ mem' = [mem EXCEPT ![s] = m]
             /\ Complete(s, f, {})
             /\ UNCHANGED <<disk, history, phase>>
          \/ /\ ~(st.op = "due" /\ r.out = {}) /\ ret = "project"
             /\ IF t = "Owner"
                THEN /\ tag' = [tag EXCEPT ![s] = t]
                     /\ mem' = [mem EXCEPT ![s] = m]
                     /\ Become(s, f, [st EXCEPT !.pc = "persist", !.next = r.next,
                                                !.out = r.out])
                     /\ UNCHANGED <<disk, history, phase>>
                ELSE Abort(s, f, t, m)
          \/ /\ ~(st.op = "due" /\ r.out = {}) /\ ret = "session"
             /\ journal' = [journal EXCEPT ![Conversation[s]] = SessionPart(r.next)]
             /\ SetState(s, t, r.next)
             /\ Produce(r.out)
             /\ Complete(s, f, r.out)
             /\ UNCHANGED <<file, gone, phase>>
          \/ /\ ~(st.op = "due" /\ r.out = {}) /\ ret = "session"
             /\ "append" \in Failures
             /\ Abort(s, f, t, m)

-----------------------------------------------------------------------------
(* The steps of a mutation *)

\* stateForId and claimDue look at the file before they compete for the lease.
Probes(s, st) ==
  /\ tag[s] # "Owner"
  /\ \/ st.op \in IdOps /\ mem[s][st.id] = NoLoop
     \/ st.op = "due" /\ st.ret = "project"

\* add and removeAll compete for it straight away.
Competes(s, st) ==
  /\ tag[s] # "Owner"
  /\ st.op \in {"add", "removeAll"} /\ RetentionOf(st) = "project"

Enter(s, f) ==
  LET st == fiber[s][f]
  IN /\ st.pc = "lock" /\ LockFree(s)
     /\ \/ /\ Probes(s, st)
           /\ Become(s, f, [st EXCEPT !.pc = "probe"])
           /\ UNCHANGED <<disk, repo, history, phase>>
        \/ /\ Competes(s, st)
           /\ Become(s, f, [st EXCEPT !.pc = "acquire"])
           /\ UNCHANGED <<disk, repo, history, phase>>
        \/ /\ ~Probes(s, st) /\ ~Competes(s, st)
           /\ Perform(s, f, tag[s], mem[s])
     /\ UNCHANGED <<now, busy, used>>

\* The scheduler is forked when the repository is made.
Open(s, f, t, m) ==
  /\ tag' = [tag EXCEPT ![s] = t]
  /\ mem' = [mem EXCEPT ![s] = m]
  /\ phase' = [phase EXCEPT ![s] = "open"]
  /\ Become(s, f, Idle)
  /\ UNCHANGED <<disk, history>>

Probe(s, f) ==
  LET st == fiber[s][f]
      hit == IF st.op \in IdOps THEN st.id \in Present(file) ELSE Present(file) # {}
  IN /\ st.pc = "probe"
     /\ \/ /\ hit
           /\ Become(s, f, [st EXCEPT !.pc = "acquire"])
           /\ UNCHANGED <<disk, repo, history, phase>>
        \/ /\ ~hit /\ st.op = "init"
           /\ Open(s, f, tag[s], mem[s])
        \/ /\ ~hit /\ st.op = "due"
           /\ tag' = [tag EXCEPT ![s] = "Inactive"]
           /\ Complete(s, f, {})
           /\ UNCHANGED <<disk, mem, history, phase>>
        \/ /\ ~hit /\ st.op \in IdOps
           /\ Abort(s, f, tag[s], mem[s])
        \/ /\ "read" \in Failures
           /\ Abort(s, f, tag[s], mem[s])
     /\ UNCHANGED <<now, busy, used>>

\* Mutant: the lock does not exclude another session.
AcquireAnyway(s, f) ==
  /\ fiber[s][f].pc = "acquire"
  /\ lease' = s
  /\ Become(s, f, [fiber[s][f] EXCEPT !.pc = "load"])
  /\ UNCHANGED <<now, file, journal, gone, phase, busy, repo, used, history>>

\* BEGIN IMMEDIATE. The ownership scope of a stopped session is forked from a
\* closed scope: whatever it acquires is released at once.
Acquire(s, f) ==
  LET st == fiber[s][f]
  IN /\ st.pc = "acquire"
     /\ \/ /\ lease = NoSession
           /\ lease' = IF phase[s] = "closed" THEN NoSession ELSE s
           /\ Become(s, f, [st EXCEPT !.pc = "load"])
           /\ UNCHANGED <<file, journal, gone, repo, history, phase>>
        \/ /\ lease # NoSession
           /\ Become(s, f, [st EXCEPT !.pc = "denied"])
           /\ UNCHANGED <<disk, repo, history, phase>>
        \/ /\ "lease" \in Failures
           /\ Abort(s, f, tag[s], mem[s])
     /\ UNCHANGED <<now, busy, used>>

Merged(s) == [i \in Ids |-> IF i \in ProjectIds THEN file[i] ELSE mem[s][i]]

\* With the lease: the file becomes the project part of the memory, and the
\* operation goes on as the owner.
Load(s, f) ==
  LET st == fiber[s][f]
  IN /\ st.pc = "load"
     /\ \/ /\ st.op = "init"
           /\ Open(s, f, "Owner", Merged(s))
        \/ /\ st.op # "init"
           /\ Perform(s, f, "Owner", Merged(s))
     /\ UNCHANGED <<now, busy, used>>

LoadFails(s, f) ==
  /\ fiber[s][f].pc = "load" /\ "read" \in Failures
  /\ lease' = IF lease = s THEN NoSession ELSE lease
  /\ Become(s, f, IF f = Sched THEN Dead ELSE Idle)
  /\ phase' = [phase EXCEPT ![s] = IF @ = "starting" THEN "closed" ELSE @]
  /\ UNCHANGED <<now, file, journal, busy, repo, used, history, gone>>

\* Mutant: a follower loads the owner's loops to show them.
DeniedShowing(s, f) ==
  /\ fiber[s][f].pc = "denied"
  /\ Open(s, f, "Follower", Merged(s))
  /\ UNCHANGED <<now, busy, used>>

\* Without it: a follower of a non-empty file. Only a tick succeeds, with nothing.
Denied(s, f) ==
  LET st == fiber[s][f]
      t == IF Present(file) # {} THEN "Follower" ELSE "Inactive"
  IN /\ st.pc = "denied"
     /\ \/ /\ st.op = "init"
           /\ Open(s, f, t, mem[s])
        \/ /\ st.op = "due"
           /\ tag' = [tag EXCEPT ![s] = t]
           /\ Complete(s, f, {})
           /\ UNCHANGED <<disk, mem, history, phase>>
        \/ /\ st.op \notin {"init", "due"}
           /\ Abort(s, f, t, mem[s])
        \/ /\ "read" \in Failures
           /\ Abort(s, f, tag[s], mem[s])
     /\ UNCHANGED <<now, busy, used>>

\* Mutant: the file is patched with the loops that are left.
ReplaceKeepingDeleted(next) ==
  /\ file' = [i \in ProjectIds |-> IF next[i] = NoLoop THEN file[i] ELSE next[i]]
  /\ UNCHANGED gone

\* Mutant: session loops are not filtered out.
ReplaceWithAll(next) ==
  /\ file' = next
  /\ UNCHANGED gone

\* persist: the staged file replaces the project file. Nothing here looks at
\* the lease again.
Replace(next) ==
  /\ file' = ProjectPart(next)
  /\ gone' = gone \cup {i \in ProjectIds : file[i] # NoLoop /\ next[i] = NoLoop}

\* Mutant: a failed replacement is ignored.
PersistAnyway(s, f) ==
  LET st == fiber[s][f]
  IN /\ st.pc = "persist"
     /\ Replace(st.next) \/ UNCHANGED <<file, gone>>
     /\ Become(s, f, [st EXCEPT !.pc = "settle"])
     /\ UNCHANGED <<now, journal, lease, phase, busy, repo, used, history>>

Persist(s, f) ==
  LET st == fiber[s][f]
  IN /\ st.pc = "persist"
     /\ \/ /\ Replace(st.next)
           /\ Become(s, f, [st EXCEPT !.pc = "settle"])
           /\ UNCHANGED <<journal, lease, repo, history, phase>>
        \/ /\ "persist" \in Failures
           /\ Abort(s, f, tag[s], mem[s])
     /\ UNCHANGED <<now, busy, used>>

\* The memory advances after the file, and the occurrences are returned.
Settle(s, f) ==
  LET st == fiber[s][f]
  IN /\ st.pc = "settle"
     /\ SetState(s, tag[s], st.next)
     /\ Produce(st.out)
     /\ Complete(s, f, st.out)
     /\ UNCHANGED <<now, file, journal, phase, busy, used, gone>>

\* sendUserMessage for one occurrence; a failure of it is logged and forgotten.
Deliver(s, f) ==
  LET st == fiber[s][f]
  IN /\ st.pc = "deliver"
     /\ \E o \in st.out :
          IF st.out = {o} THEN \E after \in Follow(st) : Become(s, f, after)
          ELSE Become(s, f, [st EXCEPT !.out = @ \ {o}])
     /\ UNCHANGED <<now, disk, phase, busy, repo, used, history>>

-----------------------------------------------------------------------------
(* The scheduler, the tool calls and the host *)

\* A tick reads the busy flag and the clock once, before both its claims. With
\* admission closed neither claim does anything.
Sample(s, f) ==
  /\ \/ fiber[s][f].pc = "sample"
     \/ f = Sched /\ fiber[s][f].pc = "idle" /\ phase[s] = "open" /\ ~busy[s]
  /\ Become(s, f, IF busy[s] THEN Idle
                  ELSE [Idle EXCEPT !.op = "due", !.pc = "lock", !.at = now])
  /\ UNCHANGED <<now, disk, phase, busy, repo, used, history>>

Ready(s, f) == f \in Tools /\ phase[s] = "open" /\ fiber[s][f].pc = "idle"

Request(s, f, op, i, loop, at) ==
  Become(s, f, [Idle EXCEPT !.op = op, !.pc = "lock", !.id = i,
                            !.loop = loop, !.at = at])

\* operations.create: the loop is built before the repository is entered.
CallAdd(s, f) ==
  /\ Ready(s, f) /\ "add" \in ToolOps
  /\ \E i \in Ids \ used, k \in Kinds :
       /\ k = "Manual" => i \in SessionIds
       /\ \E due \in FirstDues(k, now) :
            Request(s, f, "add", i, NewLoop(k, now, due), 0)
       /\ used' = used \cup {i}
  /\ UNCHANGED <<now, disk, phase, busy, repo, history>>

\* operations.update reads the loop without the lock. A new prompt or label
\* writes this copy back; a new schedule starts a fresh loop that keeps only
\* enabled and manualCursor of it.
CallUpdate(s, f) ==
  /\ Ready(s, f)
  /\ \E i \in Present(mem[s]) :
       LET copy == mem[s][i]
       IN \/ /\ "updatePrompt" \in ToolOps
             /\ Request(s, f, "update", i, copy, 0)
          \/ /\ "reschedule" \in ToolOps
             /\ \E k \in Kinds : \E due \in FirstDues(k, now) :
                  /\ k = "Manual" => i \in SessionIds
                  /\ Request(s, f, "update", i,
                       [NewLoop(k, now, due) EXCEPT !.enabled = copy.enabled,
                          !.manualCursor = copy.manualCursor], 0)
  /\ UNCHANGED <<now, disk, phase, busy, repo, used, history>>

\* schedule_wakeup
CallArm(s, f) ==
  /\ Ready(s, f) /\ "arm" \in ToolOps
  /\ \E i \in used, step \in Steps : Request(s, f, "arm", i, NoLoop, now + step)
  /\ UNCHANGED <<now, disk, phase, busy, repo, used, history>>

\* loop_delete of one loop, loop_pause, loop_resume
CallChange(s, f) ==
  /\ Ready(s, f)
  /\ \E op \in {"remove", "pause", "resume"} \cap ToolOps, i \in used :
       Request(s, f, op, i, NoLoop, 0)
  /\ UNCHANGED <<now, disk, phase, busy, repo, used, history>>

CallRemoveAll(s, f) ==
  /\ Ready(s, f) /\ "removeAll" \in ToolOps
  /\ Request(s, f, "removeAll", NoId, NoLoop, 0)
  /\ UNCHANGED <<now, disk, phase, busy, repo, used, history>>

\* scheduler.runNow: refused while the agent is busy.
CallRunNow(s, f) ==
  /\ Ready(s, f) /\ "runNow" \in ToolOps /\ ~busy[s]
  /\ \E i \in used :
       /\ \A t \in Sessions : mem[t][i] # NoLoop => mem[t][i].manualCursor < MaxManual
       /\ Request(s, f, "runNow", i, NoLoop, 0)
  /\ UNCHANGED <<now, disk, phase, busy, repo, used, history>>

\* agent_start and agent_end
SetBusy(s) ==
  /\ phase[s] = "open"
  /\ busy' = [busy EXCEPT ![s] = ~@]
  /\ UNCHANGED <<now, disk, phase, repo, fiber, used, history>>

\* session_start: the session's loops come from its log, then the file decides
\* whether to compete for the lease. A conversation has one live run.
Start(s) ==
  /\ phase[s] = "new"
  /\ \A r \in Sessions : phase[r] \in {"starting", "open"} => Conversation[r] # Conversation[s]
  /\ phase' = [phase EXCEPT ![s] = "starting"]
  /\ mem' = [mem EXCEPT ![s] =
       [i \in Ids |-> IF i \in SessionIds THEN journal[Conversation[s]][i] ELSE NoLoop]]
  /\ Become(s, Sched, [Idle EXCEPT !.op = "init", !.pc = "probe"])
  /\ UNCHANGED <<now, disk, busy, tag, used, history>>

\* Mutant: the scheduler is interrupted but the lease stays with the process.
StopKeepingLease(s) ==
  /\ phase[s] = "open"
  /\ phase' = [phase EXCEPT ![s] = "closed"]
  /\ Become(s, Sched, Dead)
  /\ UNCHANGED <<now, disk, busy, repo, used, history>>

\* stopSession closes the scope: the lease is released and the scheduler is
\* interrupted, but a rename it has issued may still happen. Tool calls are not
\* in the scope: they go on.
Stop(s) ==
  /\ phase[s] = "open"
  /\ GracefulStop => \A f \in Fibers : fiber[s][f].pc \in {"idle", "dead"}
  /\ phase' = [phase EXCEPT ![s] = "closed"]
  /\ lease' = IF lease = s THEN NoSession ELSE lease
  /\ \/ Become(s, Sched, Dead)
     \/ /\ fiber[s][Sched].pc = "persist"
        /\ Become(s, Sched, [fiber[s][Sched] EXCEPT !.pc = "orphan"])
  /\ UNCHANGED <<now, file, journal, busy, repo, used, history, gone>>

Orphan(s) ==
  /\ fiber[s][Sched].pc = "orphan"
  /\ Replace(fiber[s][Sched].next)
  /\ Become(s, Sched, Dead)
  /\ UNCHANGED <<now, journal, lease, phase, busy, repo, used, history>>

\* Mutant: the lease outlives the process.
ExitKeepingLease(s) ==
  /\ phase[s] \in {"starting", "open", "closed"}
  /\ phase' = [phase EXCEPT ![s] = "exited"]
  /\ tag' = [tag EXCEPT ![s] = "Inactive"]
  /\ mem' = [mem EXCEPT ![s] = NoLoops]
  /\ busy' = [busy EXCEPT ![s] = FALSE]
  /\ fiber' = [fiber EXCEPT ![s] = [f \in Fibers |-> Dead]]
  /\ UNCHANGED <<now, disk, used, history>>

\* The process ends: its fibers, its memory and its lease are gone.
Exit(s) ==
  /\ phase[s] \in {"starting", "open", "closed"}
  /\ phase' = [phase EXCEPT ![s] = "exited"]
  /\ lease' = IF lease = s THEN NoSession ELSE lease
  /\ tag' = [tag EXCEPT ![s] = "Inactive"]
  /\ mem' = [mem EXCEPT ![s] = NoLoops]
  /\ busy' = [busy EXCEPT ![s] = FALSE]
  /\ fiber' = [fiber EXCEPT ![s] = [f \in Fibers |-> Dead]]
  /\ UNCHANGED <<now, file, journal, used, history, gone>>

Tick ==
  /\ now < MaxTime
  /\ now' = now + 1
  /\ UNCHANGED <<disk, phase, busy, repo, fiber, used, history>>

\* A step of an operation in progress.
Step(s, f) ==
  \/ Enter(s, f) \/ Probe(s, f) \/ Acquire(s, f) \/ Load(s, f) \/ LoadFails(s, f)
  \/ Denied(s, f) \/ Persist(s, f) \/ Settle(s, f) \/ Deliver(s, f)

Call(s, f) ==
  \/ CallAdd(s, f) \/ CallUpdate(s, f) \/ CallArm(s, f) \/ CallChange(s, f)
  \/ CallRemoveAll(s, f) \/ CallRunNow(s, f)

Next ==
  \/ \E s \in Sessions, f \in Fibers : Step(s, f) \/ Sample(s, f) \/ Call(s, f)
  \/ \E s \in Sessions : Start(s) \/ Stop(s) \/ Orphan(s) \/ Exit(s) \/ SetBusy(s)
  \/ Tick

Spec == Init /\ [][Next]_vars

-----------------------------------------------------------------------------
(* Safety *)

\* A live session that takes itself for the owner of the project's loops holds
\* the lease, so there are never two (repository state Owner against the SQLite
\* lock, across stops, exits, failed loads and releases by the last removal).
OwnersHoldLease ==
  \A s \in Sessions : phase[s] = "open" /\ tag[s] = "Owner" => lease = s

\* The lease is never leaked: its holder is a running session that is the owner
\* or is reading the file to become it.
LeaseIsAccountedFor ==
  \A s \in Sessions : lease = s =>
    /\ phase[s] \in {"starting", "open"}
    /\ tag[s] = "Owner" \/ \E f \in Fibers : fiber[s][f].pc = "load"

\* The owner's memory is the file, except between the replacement of the file
\* and the update of the memory, when the file is ahead: whoever takes over
\* next reads what the owner last promised.
OwnerMemoryIsFile ==
  \A s \in Sessions : phase[s] = "open" /\ tag[s] = "Owner" =>
    LET settling == {f \in Fibers : fiber[s][f].pc = "settle"}
    IN IF settling = {} THEN ProjectPart(mem[s]) = file
       ELSE \A f \in settling : ProjectPart(fiber[s][f].next) = file

\* A session that is not the owner keeps no project loop in memory, so that a
\* later merge with the file meets no duplicate and commit is never refused.
OthersHoldNoProjectLoop ==
  \A s \in Sessions : tag[s] # "Owner" => ~HasProjectLoops(mem[s])

Claimed(loop, o) ==
  IF o.trigger = "scheduled" THEN loop.cursor > o.cursor
  ELSE loop.manualCursor >= o.cursor

\* An occurrence leaves the repository only when what survives a restart has
\* moved past it: no restart can claim it again.
ClaimsAreDurable ==
  \A o \in produced :
    /\ o.id \in Present(file) => Claimed(file[o.id], o)
    /\ \A c \in Conversations :
         o.id \in Present(journal[c]) => Claimed(journal[c][o.id], o)

\* One (loopId, cursor) produces at most one occurrence, over all sessions,
\* restarts and failed deliveries.
AtMostOneOccurrence == repeated = {}

\* A loop that was deleted from the file, by a delete or by its last
\* occurrence, is never written back by a session that still remembers it.
DeletedStaysDeleted ==
  \A i \in gone :
    /\ file[i] = NoLoop
    /\ \A s \in Sessions :
         phase[s] = "open" /\ LockFree(s) => mem[s][i] = NoLoop

\* Only the durable lease owner replaces the file.
WritesNeedLease ==
  [][\A s \in Sessions : (\E f \in Fibers : fiber[s][f].pc \in {"persist", "orphan"}
                             /\ fiber'[s][f].pc \in {"settle", "dead"}
                             /\ file' # file)
       => lease = s]_vars

-----------------------------------------------------------------------------
(* Liveness *)

\* A mutation that has been asked for goes on (fs and SQLite calls return), the
\* scheduler polls, so that it sees the agent idle if the agent is idle again
\* and again, and every agent turn ends. Nothing makes callers call, sessions
\* start, stop or exit, or the clock advance.
Fairness ==
  \A s \in Sessions :
    /\ \A f \in Fibers : WF_vars(Step(s, f))
    /\ SF_vars(Sample(s, Sched))
    /\ WF_vars(busy[s] /\ SetBusy(s))

FairSpec == Spec /\ Fairness

\* A due project loop is claimed or changed as long as one session stays open,
\* whichever sessions stop between operations or exit in the middle of one: a
\* follower takes over from an owner that is gone.
DueLoopIsClaimed ==
  \A s \in Sessions, i \in ProjectIds :
    <>[](phase[s] = "open") =>
      ((file[i] # NoLoop /\ IsDue(file[i], now))
         ~> (file[i] = NoLoop \/ ~IsDue(file[i], now)))
=============================================================================
