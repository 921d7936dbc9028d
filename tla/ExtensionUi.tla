----------------------------- MODULE ExtensionUi -----------------------------
(***************************************************************************)
(* The dialogs that extensions open in the browser: makeExtensionUiRuntime *)
(* of one session runtime with its two semaphores (admissionLock and       *)
(* interactionLock), the projection it publishes, and a browser tab that   *)
(* keeps the newest projection it has received.                            *)
(*                                                                         *)
(* Every requestUi is a fiber. A fiber that somebody else's step resumes   *)
(* (a deferred that is filled, a permit that is released) goes on in a     *)
(* step of its own, so anything may come between; what a fiber does        *)
(* without suspending is one step. Notices, which nobody answers, are left *)
(* out.                                                                    *)
(***************************************************************************)
EXTENDS Naturals, Sequences, SequencesExt

CONSTANTS
  Dialogs,       \* calls of select, confirm, input and editor
  Confirms,      \* the confirms among them
  Timed,         \* dialogs with a timeout
  Signalled,     \* dialogs with an abort signal
  None,          \* no dialog
  MaxChanges     \* bound: changes of the rest of the projection

ASSUME DialogsAssumption ==
  /\ None \notin Dialogs
  /\ Confirms \subseteq Dialogs /\ Timed \subseteq Dialogs /\ Signalled \subseteq Dialogs
ASSUME BoundAssumption == MaxChanges \in Nat

VARIABLES
  lifecycle,     \* Open, Closing, Closed
  disposal,      \* how far dispose is
  admission,     \* the holder of admissionLock
  turn,          \* the holder of interactionLock
  requests,      \* the keys of the map of admitted requests
  pending,       \* the dialog that an answer may resolve
  pc,            \* the fiber of every dialog
  deferred,      \* its deferred, absent before admission
  result,        \* how its promise was settled
  aborted,       \* signals that were aborted
  live,          \* whether the projection holds live presentations
  published,     \* pendingInteraction of every revision published
  changes,       \* changes of the rest (bound)
  view,          \* the revision the tab shows
  left,          \* dialogs that have left its screen (history)
  accepted       \* what a browser was told it had answered (history)

server == <<lifecycle, disposal, admission, turn, requests, pending, live, published, changes>>
fibers == <<pc, deferred, result, aborted>>
browser == <<view, left, accepted>>
vars == <<server, fibers, browser>>

-----------------------------------------------------------------------------
(* Types *)

Stages == {"idle", "admit", "naming", "queue", "turn", "shown", "done"}
Answers == {"value", "confirmed", "cancelled"}
Results == Answers \cup {"closed", "interrupted"}

\* ExtensionInteractionAnswer, and what it means to the extension.
Tags == {"Value", "Confirmation", "Cancelled"}
MeaningRaw(tag) == tag
Meaning(tag) ==
  CASE tag = "Value" -> "value" [] tag = "Confirmation" -> "confirmed" [] OTHER -> "cancelled"

\* matchExtensionInteractionResponse: a confirm takes a confirmation, the
\* others a value, and everything may be cancelled.
Matches(d, tag) == tag = "Cancelled" \/ (tag = "Confirmation" <=> d \in Confirms)

Settled(d) == pc[d] \in {"idle", "done"}

\* The interaction of a revision of the projection.
Interaction(revision) == IF revision = 0 THEN None ELSE published[revision]
Projection == Interaction(Len(published))
Screen == Interaction(view)

Init ==
  /\ lifecycle = "Open" /\ disposal = "none" /\ admission = None /\ turn = None
  /\ requests = {} /\ pending = None
  /\ pc = [d \in Dialogs |-> "idle"]
  /\ deferred = [d \in Dialogs |-> "absent"]
  /\ result = [d \in Dialogs |-> "none"]
  /\ aborted = {} /\ live = FALSE /\ published = <<>> /\ changes = 0
  /\ view = 0 /\ left = {} /\ accepted = [d \in Dialogs |-> "none"]

-----------------------------------------------------------------------------
(* The projection *)

\* commit: nothing is published any more once the runtime is closing.
CommitAlways(d) == published' = Append(published, d)
Commit(d) == published' = IF lifecycle = "Open" THEN Append(published, d) ELSE published

\* setStatus, setWidget, the presentations, views and surfaces of extensions.
Change ==
  /\ lifecycle = "Open" /\ changes < MaxChanges
  /\ changes' = changes + 1
  /\ live' \in BOOLEAN
  /\ Commit(Projection)
  /\ UNCHANGED <<lifecycle, disposal, admission, turn, requests, pending, fibers, browser>>

-----------------------------------------------------------------------------
(* A dialog *)

Goes(d, stage) == pc' = [pc EXCEPT ![d] = stage]
Settles(d, outcome) == Goes(d, "done") /\ result' = [result EXCEPT ![d] = outcome]

\* runPromise: refused at once, or the fiber waits for admissionLock.
Ask(d) ==
  /\ pc[d] = "idle"
  /\ IF lifecycle = "Open" THEN Goes(d, "admit") /\ UNCHANGED result ELSE Settles(d, "closed")
  /\ UNCHANGED <<server, deferred, aborted, browser>>

\* Inside admissionLock the lifecycle is looked at again.
Enter(d) ==
  /\ pc[d] = "admit" /\ admission = None
  /\ IF lifecycle = "Open"
     THEN admission' = d /\ Goes(d, "naming") /\ UNCHANGED result
     ELSE Settles(d, "closed") /\ UNCHANGED admission
  /\ UNCHANGED <<lifecycle, disposal, turn, requests, pending, live, published, changes,
                 deferred, aborted, browser>>

\* The id has been drawn: the request is admitted and the lock released.
Register(d) ==
  /\ pc[d] = "naming"
  /\ Goes(d, "queue")
  /\ deferred' = [deferred EXCEPT ![d] = "empty"]
  /\ requests' = requests \cup {d}
  /\ admission' = None
  /\ UNCHANGED <<lifecycle, disposal, turn, pending, live, published, changes,
                 result, aborted, browser>>

\* The race between the permit and an answer is won by the permit.
Take(d) ==
  /\ pc[d] = "queue" /\ turn = None
  /\ turn' = d
  /\ Goes(d, "turn")
  /\ UNCHANGED <<lifecycle, disposal, admission, requests, pending, live, published, changes,
                 deferred, result, aborted, browser>>

Show(d) ==
  /\ pc[d] = "turn"
  /\ pending' = d
  /\ Commit(d)
  /\ Goes(d, "shown")
  /\ UNCHANGED <<lifecycle, disposal, admission, turn, requests, live, changes,
                 deferred, result, aborted, browser>>

\* interactionLock is released however the dialog ends.
ReleasedIfAnswered(d) == IF turn = d /\ d \notin aborted THEN None ELSE turn
Released(d) == IF turn = d THEN None ELSE turn

\* The finalizers of requestUi: withdraw the dialog, release the permit.
Leave(d) ==
  /\ pending' = IF pending = d THEN None ELSE pending
  /\ IF pending = d THEN Commit(None) ELSE UNCHANGED published
  /\ turn' = Released(d)
  /\ requests' = requests \ {d}

\* The deferred has been filled and the fiber is resumed.
Finish(d) ==
  /\ pc[d] \in {"queue", "shown"} /\ deferred[d] \in Answers
  /\ Settles(d, deferred[d])
  /\ Leave(d)
  /\ UNCHANGED <<lifecycle, disposal, admission, live, changes, deferred, aborted, browser>>

\* What a cancelled dialog ends with: awaitResponse fills the deferred and
\* reads it again, because an answer may have been first.
CancelledAnyway(d) == "cancelled"
Cancelled(d) == IF deferred[d] = "empty" THEN "cancelled" ELSE deferred[d]

\* The signal was aborted, or the dialog has been on the screen for its time.
Expires(d) == d \in aborted \/ (d \in Timed /\ pc[d] = "shown")
Withdraw(d) ==
  /\ pc[d] \in {"queue", "shown"} /\ Expires(d)
  /\ deferred' = [deferred EXCEPT ![d] = Cancelled(d)]
  /\ Settles(d, Cancelled(d))
  /\ Leave(d)
  /\ UNCHANGED <<lifecycle, disposal, admission, live, changes, aborted, browser>>

\* The tool call or command that asks is cancelled by its owner.
Abort(d) ==
  /\ d \in Signalled \ aborted /\ pc[d] # "done"
  /\ aborted' = aborted \cup {d}
  /\ UNCHANGED <<server, pc, deferred, result, browser>>

-----------------------------------------------------------------------------
(* Browsers *)

\* resolveInteraction, for a tab that has seen d at some time: ids are drawn
\* at random, so no other dialog can be named. A conflict or a tag that does
\* not match changes nothing.
Respond(d, tag) ==
  /\ Contains(published, d)
  /\ pending = d /\ Matches(d, tag)
  /\ pending' = None
  /\ Commit(None)
  /\ deferred' = [deferred EXCEPT ![d] = IF @ = "empty" THEN Meaning(tag) ELSE @]
  /\ accepted' = [accepted EXCEPT ![d] = Meaning(tag)]
  /\ UNCHANGED <<lifecycle, disposal, admission, turn, requests, live, changes,
                 pc, result, aborted, view, left>>

\* The tab receives a revision: an event, a replayed event or a snapshot.
\* It takes it if it is newer than its own.
NewerOrNot(revision) == revision # view
Newer(revision) == revision > view
Receive(revision) ==
  /\ Newer(revision)
  /\ view' = revision
  /\ left' = left \cup ({Screen} \ {None, Interaction(revision)})
  /\ UNCHANGED <<server, fibers, accepted>>

-----------------------------------------------------------------------------
(* dispose *)

\* The runtime is being closed: dispose waits for admissionLock.
Dispose ==
  /\ disposal = "none"
  /\ disposal' = "asked"
  /\ UNCHANGED <<lifecycle, admission, turn, requests, pending, live, published, changes,
                 fibers, browser>>

\* Under the lock: no more admissions, an empty screen, and then an answer
\* for everything that was admitted.
BeginClosing ==
  /\ disposal = "asked" /\ admission = None
  /\ disposal' = "cancelled" /\ lifecycle' = "Closing"
  /\ requests' = {} /\ pending' = None /\ live' = FALSE
  /\ published' = IF pending # None \/ live THEN Append(published, None) ELSE published
  /\ deferred' = [d \in Dialogs |->
                    IF d \in requests /\ deferred[d] = "empty" THEN "cancelled" ELSE deferred[d]]
  /\ UNCHANGED <<admission, turn, changes, pc, result, aborted, browser>>

\* Effect.yieldNow: the fibers that were just resumed come first.
Yielded == \A d \in Dialogs : pc[d] # "done" => deferred[d] \notin Answers

\* FiberSet.clear interrupts what is left: fibers that wait for admission.
Interrupted(d) == ~Settled(d)
EndClosing ==
  /\ disposal = "cancelled" /\ Yielded
  /\ disposal' = "done" /\ lifecycle' = "Closed"
  /\ pc' = [d \in Dialogs |-> IF Interrupted(d) THEN "done" ELSE pc[d]]
  /\ result' = [d \in Dialogs |-> IF Interrupted(d) THEN "interrupted" ELSE result[d]]
  /\ UNCHANGED <<admission, turn, requests, pending, live, published, changes, deferred, aborted, browser>>

-----------------------------------------------------------------------------
Proceed(d) == Enter(d) \/ Register(d) \/ Take(d) \/ Show(d) \/ Finish(d) \/ Withdraw(d)

Next ==
  \/ \E d \in Dialogs : Ask(d) \/ Proceed(d) \/ Abort(d) \/ (\E tag \in Tags : Respond(d, tag))
  \/ \E revision \in 1 .. Len(published) : Receive(revision)
  \/ Change
  \/ Dispose \/ BeginClosing \/ EndClosing

Spec == Init /\ [][Next]_vars

\* Fibers that can go on do, timers fire, and the newest projection reaches
\* the tab. Nobody has to answer a dialog, to abort it or to close.
FairSpec ==
  /\ Spec
  /\ \A d \in Dialogs : WF_vars(Proceed(d))
  /\ WF_vars(BeginClosing) /\ WF_vars(EndClosing)
  /\ WF_vars(published # <<>> /\ Receive(Len(published)))

-----------------------------------------------------------------------------
(* Properties *)

TypeOK ==
  /\ lifecycle \in {"Open", "Closing", "Closed"}
  /\ disposal \in {"none", "asked", "cancelled", "done"}
  /\ admission \in Dialogs \cup {None} /\ turn \in Dialogs \cup {None}
  /\ requests \subseteq Dialogs /\ pending \in Dialogs \cup {None}
  /\ pc \in [Dialogs -> Stages]
  /\ deferred \in [Dialogs -> Answers \cup {"absent", "empty"}]
  /\ result \in [Dialogs -> Results \cup {"none"}]
  /\ aborted \subseteq Signalled /\ live \in BOOLEAN
  /\ published \in Seq(Dialogs \cup {None}) /\ changes \in 0 .. MaxChanges
  /\ view \in 0 .. Len(published) /\ left \subseteq Dialogs
  /\ accepted \in [Dialogs -> Answers \cup {"none"}]

\* What the browser is shown is what an answer resolves: while the runtime
\* is open, the last projection names the dialog that is pending, whose fiber
\* waits for its answer with the lock held; from then on it names none.
ScreenIsTrue ==
  IF lifecycle = "Open"
  THEN /\ Projection = pending
       /\ pending # None =>
            turn = pending /\ pc[pending] = "shown" /\ deferred[pending] = "empty"
  ELSE Projection = None

\* An answer that a browser was told is accepted is what the extension gets,
\* whatever timeout, abort or disposal comes at the same time; it gets no
\* answer that nobody gave; and a request that was admitted is never rejected:
\* closing the runtime cancels it.
AnswersArrive ==
  \A d \in Dialogs :
    /\ pc[d] = "done" /\ accepted[d] # "none" => result[d] = accepted[d]
    /\ result[d] \in {"value", "confirmed"} => accepted[d] = result[d]
    /\ result[d] \in {"closed", "interrupted"} => deferred[d] = "absent"

\* A dialog that has left the screen of the tab does not come back, whatever
\* order events, replays and snapshots arrive in.
NoGhostDialog == Screen \notin left

\* Extensions wait for nothing but the user: again and again either every
\* dialog is settled, or one without a timeout is on the screen of the tab,
\* and it is still pending. Closing is no exception.
WaitsOnlyForTheUser ==
  []<>(\/ \A d \in Dialogs : Settled(d)
       \/ pending \in Dialogs \ Timed /\ Screen = pending)
=============================================================================
