------------------------- MODULE ExtensionUiProofs -------------------------
(***************************************************************************)
(* Proofs about ExtensionUi, for any set of dialogs, any confirms,         *)
(* timeouts and signals among them, and any number of other changes of the *)
(* projection.                                                             *)
(***************************************************************************)
EXTENDS ExtensionUi, SequenceTheorems, TLAPS

\* The stages in which a request is admitted and not yet settled.
Admitted == {"queue", "turn", "shown"}

\* What a fiber, its deferred, its result and the browser that answered agree
\* on. Only the pending dialog can be answered, and only its fiber can have
\* published it.
FiberInvOf(d) ==
  /\ admission = d <=> pc[d] = "naming"
  /\ pc[d] \in {"turn", "shown"} => turn = d
  /\ pc[d] \in {"idle", "admit", "naming"} => deferred[d] = "absent"
  /\ pc[d] \in Admitted => deferred[d] # "absent"
  /\ lifecycle = "Open" /\ pc[d] \in {"queue", "turn"} => deferred[d] = "empty"
  /\ deferred[d] = "empty" => lifecycle = "Open" /\ d \in requests /\ pc[d] # "done"
  /\ pending = d => pc[d] = "shown"
  /\ pc[d] = "done" <=> result[d] # "none"
  /\ result[d] \in Answers => deferred[d] = result[d]
  /\ result[d] \in {"closed", "interrupted"} => deferred[d] = "absent"
  /\ accepted[d] # "none" => deferred[d] = accepted[d]
  /\ deferred[d] \in {"value", "confirmed"} => accepted[d] = deferred[d]

FiberInv == \A d \in Dialogs : FiberInvOf(d)

\* dispose takes the lifecycle out of Open under admissionLock, so that no
\* request is being admitted from then on; what is shown after that is
\* published to nobody.
ClosingInv ==
  /\ lifecycle = "Open" <=> disposal \in {"none", "asked"}
  /\ lifecycle # "Open" =>
       /\ \A d \in Dialogs : pc[d] # "naming"
       /\ \A i \in 1 .. Len(published) : pending # None => published[i] # pending

\* A dialog is published in one stretch of revisions, after its fiber showed
\* it; and one that has left the screen of the tab did so before the revision
\* that the tab shows.
OneStretch ==
  \A i, j, k \in 1 .. Len(published) :
    i < j /\ j < k /\ published[i] # None /\ published[k] = published[i]
      => published[j] = published[i]
WasShown ==
  \A d \in Dialogs, i \in 1 .. Len(published) : published[i] = d => pc[d] \in {"shown", "done"}
WasLeft ==
  \A d \in left : \E i, j \in 1 .. view : i < j /\ published[i] = d /\ published[j] # d

HistoryInv == OneStretch /\ WasShown /\ WasLeft

UiInv == TypeOK /\ FiberInv /\ ClosingInv /\ HistoryInv /\ ScreenIsTrue

-----------------------------------------------------------------------------
(* The history of the projection *)

\* What publishing one more interaction makes of the revisions.
LEMMA AppendFacts ==
  ASSUME TypeOK, NEW x \in Dialogs \cup {None}
  PROVE  /\ Append(published, x) \in Seq(Dialogs \cup {None})
         /\ Len(published) \in Nat
         /\ Len(Append(published, x)) = Len(published) + 1
         /\ \A i \in 1 .. Len(published) : Append(published, x)[i] = published[i]
         /\ Append(published, x)[Len(published) + 1] = x
<1>. published \in Seq(Dialogs \cup {None})
  BY DEF TypeOK
<1>. QED
  BY AppendProperties, LenProperties

\* The last interaction that was published.
LEMMA ProjectionOfLast ==
  ASSUME TypeOK
  PROVE  Projection = IF Len(published) = 0 THEN None ELSE published[Len(published)]
BY DEF Projection, Interaction

\* A step that publishes nothing keeps the history, because a dialog that was
\* shown stays shown or is settled.
LEMMA HistorySame ==
  ASSUME TypeOK, HistoryInv, UNCHANGED <<published, view, left>>,
         \A d \in Dialogs : pc[d] \in {"shown", "done"} => pc'[d] \in {"shown", "done"}
  PROVE  HistoryInv'
<1>1. OneStretch'
  BY DEF HistoryInv, OneStretch
<1>2. WasShown'
  BY DEF HistoryInv, WasShown
<1>3. WasLeft'
  BY DEF HistoryInv, WasLeft
<1>. QED
  BY <1>1, <1>2, <1>3 DEF HistoryInv

\* A step that publishes keeps it if it publishes no dialog, the dialog that
\* was published last, or one that never was.
LEMMA HistoryAppended ==
  ASSUME TypeOK, HistoryInv, NEW x \in Dialogs \cup {None},
         published' = Append(published, x), UNCHANGED <<view, left>>,
         x = None \/ x = Projection \/ (\A i \in 1 .. Len(published) : published[i] # x),
         x # None => pc'[x] \in {"shown", "done"},
         \A d \in Dialogs : pc[d] \in {"shown", "done"} => pc'[d] \in {"shown", "done"}
  PROVE  HistoryInv'
<1>. DEFINE n == Len(published)
<1>0. /\ n \in Nat /\ Len(published') = n + 1
      /\ \A i \in 1 .. n : published'[i] = published[i]
      /\ published'[n + 1] = x
      /\ Projection = IF n = 0 THEN None ELSE published[n]
      /\ view \in 0 .. n /\ left \subseteq Dialogs
  BY AppendFacts, ProjectionOfLast DEF TypeOK
<1>1. OneStretch'
  <2>. SUFFICES ASSUME NEW i \in 1 .. n + 1, NEW j \in 1 .. n + 1, NEW k \in 1 .. n + 1,
                       i < j, j < k, published'[i] # None, published'[k] = published'[i]
                PROVE  published'[j] = published'[i]
    BY <1>0 DEF OneStretch
  <2>1. i \in 1 .. n /\ j \in 1 .. n
    BY <1>0
  <2>2. CASE k \in 1 .. n
    BY <1>0, <2>1, <2>2 DEF HistoryInv, OneStretch
  <2>3. CASE k = n + 1
    <3>1. x = published[i] /\ x # None
      BY <1>0, <2>1, <2>3
    <3>2. published[n] = x
      BY <1>0, <2>1, <3>1
    <3>3. CASE j = n
      BY <1>0, <2>1, <3>1, <3>2, <3>3
    <3>4. CASE j < n
      BY <1>0, <2>1, <3>1, <3>2, <3>4 DEF HistoryInv, OneStretch
    <3>. QED
      BY <1>0, <2>1, <3>3, <3>4
  <2>. QED
    BY <1>0, <2>2, <2>3
<1>2. WasShown'
  <2>. SUFFICES ASSUME NEW d \in Dialogs, NEW i \in 1 .. n + 1, published'[i] = d
                PROVE  pc'[d] \in {"shown", "done"}
    BY <1>0 DEF WasShown
  <2>1. CASE i \in 1 .. n
    BY <1>0, <2>1 DEF HistoryInv, WasShown
  <2>2. CASE i = n + 1
    BY <1>0, <2>2, DialogsAssumption
  <2>. QED
    BY <1>0, <2>1, <2>2
<1>3. WasLeft'
  <2>. SUFFICES ASSUME NEW d \in left
                PROVE  \E i, j \in 1 .. view : i < j /\ published'[i] = d /\ published'[j] # d
    BY DEF WasLeft
  <2>1. PICK i \in 1 .. view, j \in 1 .. view : i < j /\ published[i] = d /\ published[j] # d
    BY DEF HistoryInv, WasLeft
  <2>2. published'[i] = published[i] /\ published'[j] = published[j]
    BY <1>0
  <2>. QED
    BY <2>1, <2>2
<1>. QED
  BY <1>1, <1>2, <1>3 DEF HistoryInv

\* The tab takes a newer revision.
LEMMA HistoryReceived ==
  ASSUME TypeOK, HistoryInv, NEW revision \in 1 .. Len(published), Receive(revision)
  PROVE  HistoryInv'
<1>0. /\ view \in 0 .. Len(published) /\ Len(published) \in Nat
      /\ published' = published /\ pc' = pc /\ view' = revision /\ view < revision
      /\ left' = left \cup ({Screen} \ {None, published[revision]})
      /\ Screen = IF view = 0 THEN None ELSE published[view]
  <2>. published \in Seq(Dialogs \cup {None})
    BY DEF TypeOK
  <2>. QED
    BY LenProperties DEF TypeOK, Receive, Newer, Screen, Interaction, server, fibers
<1>1. WasLeft'
  <2>. SUFFICES ASSUME NEW d \in left'
                PROVE  \E i, j \in 1 .. revision : i < j /\ published[i] = d /\ published[j] # d
    BY <1>0 DEF WasLeft
  <2>1. CASE d \in left
    <3>1. PICK i \in 1 .. view, j \in 1 .. view : i < j /\ published[i] = d /\ published[j] # d
      BY <2>1 DEF HistoryInv, WasLeft
    <3>2. i \in 1 .. revision /\ j \in 1 .. revision
      BY <1>0
    <3>. QED
      BY <3>1, <3>2
  <2>2. CASE d = Screen /\ d # None /\ d # published[revision]
    <3>1. view \in 1 .. revision /\ revision \in 1 .. revision /\ published[view] = d
      BY <1>0, <2>2
    <3>. QED
      BY <1>0, <2>2, <3>1
  <2>. QED
    BY <1>0, <2>1, <2>2
<1>2. OneStretch' /\ WasShown'
  BY <1>0 DEF HistoryInv, OneStretch, WasShown
<1>. QED
  BY <1>1, <1>2 DEF HistoryInv

\* A dialog that left the screen is not on it.
LEMMA HistoryHidesGhosts == TypeOK /\ HistoryInv => NoGhostDialog
<1>. SUFFICES ASSUME TypeOK, HistoryInv, Screen \in left
              PROVE  FALSE
  BY DEF NoGhostDialog
<1>. DEFINE d == Screen
<1>1. /\ view \in 0 .. Len(published) /\ Len(published) \in Nat
      /\ d # None /\ view # 0 /\ published[view] = d
  <2>. published \in Seq(Dialogs \cup {None})
    BY DEF TypeOK
  <2>. QED
    BY LenProperties, DialogsAssumption DEF TypeOK, Screen, Interaction
<1>2. PICK i \in 1 .. view, j \in 1 .. view : i < j /\ published[i] = d /\ published[j] # d
  BY DEF HistoryInv, WasLeft
<1>3. j < view
  BY <1>1, <1>2
<1>. QED
  BY <1>1, <1>2, <1>3 DEF HistoryInv, OneStretch

-----------------------------------------------------------------------------
(* One step at a time *)

\* The runtime starts open, with no dialog and nothing published.
LEMMA InitialState == Init => UiInv
<1>. SUFFICES ASSUME Init PROVE UiInv
  OBVIOUS
<1>0. published = <<>> /\ Len(published) = 0
  BY DEF Init
<1>1. TypeOK
  <2>1. published \in Seq(Dialogs \cup {None}) /\ view \in 0 .. Len(published)
    BY <1>0, EmptySeq DEF Init
  <2>2. changes \in 0 .. MaxChanges
    BY BoundAssumption DEF Init
  <2>. QED
    BY <2>1, <2>2 DEF Init, TypeOK, Stages
<1>2. FiberInv
  BY DialogsAssumption DEF Init, FiberInv, FiberInvOf, Admitted, Answers
<1>3. ClosingInv
  BY DEF Init, ClosingInv
<1>4. HistoryInv
  BY <1>0 DEF Init, HistoryInv, OneStretch, WasShown, WasLeft
<1>5. ScreenIsTrue
  BY <1>0 DEF Init, ScreenIsTrue, Projection, Interaction
<1>. QED
  BY <1>1, <1>2, <1>3, <1>4, <1>5 DEF UiInv

\* The fibers that publish nothing.
LEMMA AskKeeps ==
  ASSUME UiInv, NEW d \in Dialogs, Ask(d)
  PROVE  UiInv'
<1>. USE DEF Ask, Goes, Settles, server, browser
<1>1. TypeOK'
  BY DEF UiInv, TypeOK, Stages, Results
<1>2. FiberInv'
  BY DEF UiInv, TypeOK, FiberInv, FiberInvOf, Admitted, Answers
<1>3. ClosingInv'
  BY DEF UiInv, TypeOK, ClosingInv
<1>4. HistoryInv'
  BY HistorySame DEF UiInv, TypeOK
<1>5. ScreenIsTrue'
  BY DialogsAssumption DEF UiInv, TypeOK, ScreenIsTrue, Projection, Interaction, FiberInv, FiberInvOf
<1>. QED
  BY <1>1, <1>2, <1>3, <1>4, <1>5 DEF UiInv

\* Admission is refused once the runtime is closing, so admissionLock changes
\* hands only while it is open.
LEMMA EnterKeeps ==
  ASSUME UiInv, NEW d \in Dialogs, Enter(d)
  PROVE  UiInv'
<1>. USE DEF Enter, Goes, Settles, browser
<1>1. TypeOK'
  BY DEF UiInv, TypeOK, Stages, Results
<1>2. FiberInv'
  BY DialogsAssumption DEF UiInv, TypeOK, FiberInv, FiberInvOf, Admitted, Answers
<1>3. ClosingInv'
  BY DEF UiInv, TypeOK, ClosingInv
<1>4. HistoryInv'
  BY HistorySame DEF UiInv, TypeOK
<1>5. ScreenIsTrue'
  BY DEF UiInv, TypeOK, ScreenIsTrue, Projection, Interaction, FiberInv, FiberInvOf
<1>. QED
  BY <1>1, <1>2, <1>3, <1>4, <1>5 DEF UiInv

\* The fiber that registers holds admissionLock, so the runtime is still open.
LEMMA RegisterKeeps ==
  ASSUME UiInv, NEW d \in Dialogs, Register(d)
  PROVE  UiInv'
<1>. USE DEF Register, Goes, browser
<1>0. lifecycle = "Open" /\ admission = d
  BY DEF UiInv, ClosingInv, FiberInv, FiberInvOf
<1>1. TypeOK'
  BY DEF UiInv, TypeOK, Stages
<1>2. FiberInv'
  BY <1>0, DialogsAssumption DEF UiInv, TypeOK, FiberInv, FiberInvOf, Admitted, Answers
<1>3. ClosingInv'
  BY DEF UiInv, TypeOK, ClosingInv
<1>4. HistoryInv'
  BY HistorySame DEF UiInv, TypeOK
<1>5. ScreenIsTrue'
  BY DEF UiInv, TypeOK, ScreenIsTrue, Projection, Interaction, FiberInv, FiberInvOf
<1>. QED
  BY <1>1, <1>2, <1>3, <1>4, <1>5 DEF UiInv

\* The permit of interactionLock is free, so no other dialog is shown.
LEMMA TakeKeeps ==
  ASSUME UiInv, NEW d \in Dialogs, Take(d)
  PROVE  UiInv'
<1>. USE DEF Take, Goes, browser
<1>1. TypeOK'
  BY DEF UiInv, TypeOK, Stages
<1>2. FiberInv'
  BY DialogsAssumption DEF UiInv, TypeOK, FiberInv, FiberInvOf, Admitted, Answers
<1>3. ClosingInv'
  BY DEF UiInv, TypeOK, ClosingInv
<1>4. HistoryInv'
  BY HistorySame DEF UiInv, TypeOK
<1>5. ScreenIsTrue'
  BY DialogsAssumption
  DEF UiInv, TypeOK, ScreenIsTrue, Projection, Interaction, FiberInv, FiberInvOf
<1>. QED
  BY <1>1, <1>2, <1>3, <1>4, <1>5 DEF UiInv

\* A signal only makes a later step possible.
LEMMA AbortKeeps ==
  ASSUME UiInv, NEW d \in Dialogs, Abort(d)
  PROVE  UiInv'
<1>. USE DEF Abort, server, browser
<1>1. TypeOK'
  BY DEF UiInv, TypeOK
<1>2. FiberInv'
  BY DEF UiInv, FiberInv, FiberInvOf
<1>3. ClosingInv'
  BY DEF UiInv, ClosingInv
<1>4. HistoryInv'
  BY HistorySame DEF UiInv
<1>5. ScreenIsTrue'
  BY DEF UiInv, ScreenIsTrue, Projection, Interaction
<1>. QED
  BY <1>1, <1>2, <1>3, <1>4, <1>5 DEF UiInv

\* dispose only asks for admissionLock.
LEMMA DisposeKeeps ==
  ASSUME UiInv, Dispose
  PROVE  UiInv'
<1>. USE DEF Dispose, fibers, browser
<1>1. TypeOK'
  BY DEF UiInv, TypeOK
<1>2. FiberInv'
  BY DEF UiInv, FiberInv, FiberInvOf
<1>3. ClosingInv'
  BY DEF UiInv, ClosingInv
<1>4. HistoryInv'
  BY HistorySame DEF UiInv
<1>5. ScreenIsTrue'
  BY DEF UiInv, ScreenIsTrue, Projection, Interaction
<1>. QED
  BY <1>1, <1>2, <1>3, <1>4, <1>5 DEF UiInv

\* The tab moves on; the server does not notice.
LEMMA ReceiveKeeps ==
  ASSUME UiInv, NEW revision \in 1 .. Len(published), Receive(revision)
  PROVE  UiInv'
<1>. USE DEF Receive, server, fibers
<1>1. TypeOK'
  <2>1. /\ published \in Seq(Dialogs \cup {None})
        /\ Interaction(view) \in Dialogs \cup {None}
    BY ElementOfSeq DEF UiInv, TypeOK, Interaction
  <2>2. view' \in 0 .. Len(published') /\ left' \subseteq Dialogs
    BY <2>1 DEF UiInv, TypeOK, Screen
  <2>. QED
    BY <2>2 DEF UiInv, TypeOK
<1>2. FiberInv'
  BY DEF UiInv, FiberInv, FiberInvOf
<1>3. ClosingInv'
  BY DEF UiInv, ClosingInv
<1>4. HistoryInv'
  BY HistoryReceived DEF UiInv
<1>5. ScreenIsTrue'
  BY DEF UiInv, ScreenIsTrue, Projection, Interaction
<1>. QED
  BY <1>1, <1>2, <1>3, <1>4, <1>5 DEF UiInv

\* What a commit makes of the projection.
LEMMA Committed ==
  ASSUME TypeOK, NEW x \in Dialogs \cup {None}, Commit(x)
  PROVE  /\ published' \in Seq(Dialogs \cup {None})
         /\ Len(published) \in Nat /\ Len(published') \in Nat
         /\ Len(published) <= Len(published')
         /\ Projection' = IF lifecycle = "Open" THEN x ELSE Projection
         /\ \A i \in 1 .. Len(published') :
              \/ lifecycle = "Open" /\ published'[i] = x
              \/ i \in 1 .. Len(published) /\ published'[i] = published[i]
<1>1. CASE lifecycle = "Open"
  BY <1>1, AppendFacts DEF Commit, Projection, Interaction
<1>2. CASE lifecycle # "Open"
  BY <1>2, LenProperties DEF TypeOK, Commit, Projection, Interaction
<1>. QED
  BY <1>1, <1>2

\* What a commit keeps of the history, whether or not it publishes.
LEMMA HistoryCommitted ==
  ASSUME TypeOK, HistoryInv, NEW x \in Dialogs \cup {None}, Commit(x), UNCHANGED <<view, left>>,
         x = None \/ x = Projection \/ (\A i \in 1 .. Len(published) : published[i] # x),
         x # None => pc'[x] \in {"shown", "done"},
         \A d \in Dialogs : pc[d] \in {"shown", "done"} => pc'[d] \in {"shown", "done"}
  PROVE  HistoryInv'
BY HistorySame, HistoryAppended DEF Commit

\* The rest of the projection changes: the pending dialog is published again.
LEMMA ChangeKeeps ==
  ASSUME UiInv, Change
  PROVE  UiInv'
<1>. USE DEF Change, fibers, browser
<1>0. /\ Projection \in Dialogs \cup {None} /\ Projection = pending
      /\ Commit(Projection) /\ lifecycle = "Open"
      /\ pending # None => pc[pending] = "shown"
  BY DEF UiInv, TypeOK, ScreenIsTrue
<1>1. TypeOK'
  <2>1. published' \in Seq(Dialogs \cup {None}) /\ view \in 0 .. Len(published')
    BY <1>0, Committed DEF UiInv, TypeOK
  <2>2. changes' \in 0 .. MaxChanges
    BY BoundAssumption DEF UiInv, TypeOK
  <2>. QED
    BY <2>1, <2>2 DEF UiInv, TypeOK
<1>2. FiberInv'
  BY DEF UiInv, FiberInv, FiberInvOf
<1>3. ClosingInv'
  BY DEF UiInv, ClosingInv
<1>4. HistoryInv'
  BY <1>0, HistoryCommitted DEF UiInv
<1>5. ScreenIsTrue'
  <2>1. Projection' = pending
    BY <1>0, Committed DEF UiInv
  <2>. QED
    BY <2>1 DEF UiInv, ScreenIsTrue
<1>. QED
  BY <1>1, <1>2, <1>3, <1>4, <1>5 DEF UiInv

\* A fiber shows its dialog once, so the dialog was never published before.
LEMMA ShowKeeps ==
  ASSUME UiInv, NEW d \in Dialogs, Show(d)
  PROVE  UiInv'
<1>. USE DEF Show, Goes, browser
<1>0. /\ Commit(d) /\ d # None
      /\ pc[d] = "turn" /\ pc' = [pc EXCEPT ![d] = "shown"]
      /\ \A i \in 1 .. Len(published) : published[i] # d
  BY DialogsAssumption DEF UiInv, HistoryInv, WasShown
<1>1. TypeOK'
  <2>1. published' \in Seq(Dialogs \cup {None}) /\ view \in 0 .. Len(published')
    BY <1>0, Committed DEF UiInv, TypeOK
  <2>. QED
    BY <2>1 DEF UiInv, TypeOK, Stages
<1>2. FiberInv'
  BY DEF UiInv, TypeOK, FiberInv, FiberInvOf, Admitted, Answers
<1>3. ClosingInv'
  BY <1>0 DEF UiInv, TypeOK, ClosingInv, Commit
<1>4. HistoryInv'
  BY <1>0, HistoryCommitted DEF UiInv, TypeOK
<1>5. ScreenIsTrue'
  <2>1. Projection' = IF lifecycle = "Open" THEN d ELSE Projection
    BY <1>0, Committed DEF UiInv
  <2>2. turn = d /\ (lifecycle = "Open" => deferred[d] = "empty")
    BY DEF UiInv, FiberInv, FiberInvOf
  <2>. QED
    BY <1>0, <2>1, <2>2 DEF UiInv, TypeOK, ScreenIsTrue
<1>. QED
  BY <1>1, <1>2, <1>3, <1>4, <1>5 DEF UiInv

\* The finalizers of a dialog that is settled with the answer in its deferred.
LEMMA LeaveKeeps ==
  ASSUME UiInv, NEW d \in Dialogs, pc[d] \in {"queue", "shown"}, NEW answer \in Answers,
         deferred' = [deferred EXCEPT ![d] = answer],
         deferred[d] \in Answers => answer = deferred[d],
         deferred[d] \notin Answers => answer = "cancelled",
         Settles(d, answer), Leave(d),
         UNCHANGED <<lifecycle, disposal, admission, live, changes, aborted, browser>>
  PROVE  UiInv'
<1>. USE DEF Settles, Goes, Leave, Released, browser
<1>0. /\ pending # d => published' = published
      /\ pending = d => Commit(None)
      /\ lifecycle = "Open" => Projection' = pending'
      /\ lifecycle # "Open" => published' = published
      /\ published' \in Seq(Dialogs \cup {None})
      /\ view \in 0 .. Len(published')
  <2>1. CASE pending = d
    <3>1. Commit(None) /\ pending' = None
      BY <2>1
    <3>2. /\ Projection' = IF lifecycle = "Open" THEN None ELSE Projection
          /\ published' \in Seq(Dialogs \cup {None}) /\ view \in 0 .. Len(published')
      BY <3>1, Committed DEF UiInv, TypeOK
    <3>3. lifecycle # "Open" => published' = published
      BY <3>1 DEF Commit
    <3>. QED
      BY <2>1, <3>1, <3>2, <3>3
  <2>2. CASE pending # d
    BY <2>2 DEF UiInv, TypeOK, ScreenIsTrue, Projection, Interaction
  <2>. QED
    BY <2>1, <2>2
<1>1. TypeOK'
  BY <1>0 DEF UiInv, TypeOK, Stages, Answers, Results
<1>2. FiberInv'
  BY DialogsAssumption DEF UiInv, TypeOK, FiberInv, FiberInvOf, Admitted, Answers
<1>3. ClosingInv'
  BY <1>0 DEF UiInv, TypeOK, ClosingInv
<1>4. HistoryInv'
  <2>1. CASE pending = d
    BY <1>0, <2>1, HistoryCommitted DEF UiInv, TypeOK
  <2>2. CASE pending # d
    BY <1>0, <2>2, HistorySame DEF UiInv, TypeOK
  <2>. QED
    BY <2>1, <2>2
<1>5. ScreenIsTrue'
  <2>1. CASE lifecycle = "Open"
    BY <1>0, <2>1 DEF UiInv, TypeOK, ScreenIsTrue
  <2>2. CASE lifecycle # "Open"
    BY <1>0, <2>2 DEF UiInv, ScreenIsTrue, Projection, Interaction
  <2>. QED
    BY <2>1, <2>2
<1>. QED
  BY <1>1, <1>2, <1>3, <1>4, <1>5 DEF UiInv

\* A fiber whose deferred is filled takes the answer that is there.
LEMMA FinishKeeps ==
  ASSUME UiInv, NEW d \in Dialogs, Finish(d)
  PROVE  UiInv'
<1>1. /\ pc[d] \in {"queue", "shown"} /\ deferred[d] \in Answers
      /\ deferred' = [deferred EXCEPT ![d] = deferred[d]]
      /\ Settles(d, deferred[d]) /\ Leave(d)
      /\ UNCHANGED <<lifecycle, disposal, admission, live, changes, aborted, browser>>
  BY DEF Finish, UiInv, TypeOK
<1>. QED
  BY <1>1, LeaveKeeps

\* A timeout or an abort cancels the dialog unless an answer was first.
LEMMA WithdrawKeeps ==
  ASSUME UiInv, NEW d \in Dialogs, Withdraw(d)
  PROVE  UiInv'
<1>1. /\ pc[d] \in {"queue", "shown"}
      /\ deferred' = [deferred EXCEPT ![d] = Cancelled(d)]
      /\ Settles(d, Cancelled(d)) /\ Leave(d)
      /\ UNCHANGED <<lifecycle, disposal, admission, live, changes, aborted, browser>>
  BY DEF Withdraw
<1>2. /\ Cancelled(d) \in Answers
      /\ deferred[d] \in Answers => Cancelled(d) = deferred[d]
      /\ deferred[d] \notin Answers => Cancelled(d) = "cancelled"
  BY <1>1 DEF UiInv, TypeOK, FiberInv, FiberInvOf, Admitted, Answers, Cancelled
<1>. QED
  BY <1>1, <1>2, LeaveKeeps

\* An answer that names a dialog seen in a projection finds the runtime open:
\* what is shown later is published to nobody.
LEMMA RespondKeeps ==
  ASSUME UiInv, NEW d \in Dialogs, NEW tag \in Tags, Respond(d, tag)
  PROVE  UiInv'
<1>. DEFINE answer == Meaning(tag)
<1>0. /\ pending = d /\ pending' = None /\ Commit(None) /\ answer \in Answers
      /\ lifecycle = "Open" /\ pc[d] = "shown" /\ deferred[d] = "empty"
      /\ deferred' = [deferred EXCEPT ![d] = answer]
      /\ accepted' = [accepted EXCEPT ![d] = answer]
      /\ UNCHANGED <<lifecycle, disposal, admission, turn, requests, live, changes,
                      pc, result, aborted, view, left>>
  <2>1. lifecycle = "Open"
    BY DialogsAssumption DEF Respond, Contains, UiInv, ClosingInv
  <2>2. pc[d] = "shown" /\ deferred[d] = "empty"
    BY <2>1, DialogsAssumption DEF Respond, UiInv, ScreenIsTrue
  <2>3. answer \in Answers
    BY DEF Meaning, Answers
  <2>. QED
    BY <2>1, <2>2, <2>3 DEF Respond, UiInv, TypeOK
<1>. HIDE DEF answer
<1>1. TypeOK'
  <2>1. published' \in Seq(Dialogs \cup {None}) /\ view \in 0 .. Len(published')
    BY <1>0, Committed DEF UiInv, TypeOK
  <2>. QED
    BY <1>0, <2>1 DEF UiInv, TypeOK
<1>2. FiberInv'
  BY <1>0, DialogsAssumption DEF UiInv, TypeOK, FiberInv, FiberInvOf, Admitted, Answers
<1>3. ClosingInv'
  BY <1>0 DEF UiInv, ClosingInv
<1>4. HistoryInv'
  BY <1>0, HistoryCommitted DEF UiInv
<1>5. ScreenIsTrue'
  <2>1. Projection' = None
    BY <1>0, Committed DEF UiInv
  <2>. QED
    BY <1>0, <2>1 DEF ScreenIsTrue
<1>. QED
  BY <1>1, <1>2, <1>3, <1>4, <1>5 DEF UiInv

\* Every admitted request that has no answer is cancelled, and the projection
\* is emptied.
LEMMA BeginClosingKeeps ==
  ASSUME UiInv, BeginClosing
  PROVE  UiInv'
<1>0. /\ lifecycle = "Open" /\ disposal = "asked" /\ admission = None
      /\ disposal' = "cancelled" /\ lifecycle' = "Closing"
      /\ requests' = {} /\ pending' = None /\ live' = FALSE
      /\ deferred' = [d \in Dialogs |->
            IF d \in requests /\ deferred[d] = "empty" THEN "cancelled" ELSE deferred[d]]
      /\ UNCHANGED <<admission, turn, changes, pc, result, aborted, view, left, accepted>>
  BY DEF BeginClosing, UiInv, ClosingInv, browser
<1>1. \/ Commit(None)
      \/ pending = None /\ published' = published
  BY <1>0 DEF BeginClosing, Commit
<1>2. Projection' = None
  <2>1. CASE Commit(None)
    BY <1>0, <2>1, Committed DEF UiInv
  <2>2. CASE pending = None /\ published' = published
    BY <1>0, <2>2 DEF UiInv, ScreenIsTrue, Projection, Interaction
  <2>. QED
    BY <1>1, <2>1, <2>2
<1>3. TypeOK'
  <2>1. published' \in Seq(Dialogs \cup {None}) /\ view \in 0 .. Len(published')
    BY <1>1, Committed DEF UiInv, TypeOK
  <2>2. deferred' \in [Dialogs -> Answers \cup {"absent", "empty"}]
    BY <1>0 DEF UiInv, TypeOK, Answers
  <2>. QED
    BY <1>0, <2>1, <2>2 DEF UiInv, TypeOK
<1>4. FiberInv'
  BY <1>0, DialogsAssumption DEF UiInv, TypeOK, FiberInv, FiberInvOf, Admitted, Answers
<1>5. ClosingInv'
  BY <1>0, DialogsAssumption DEF UiInv, ClosingInv, FiberInv, FiberInvOf
<1>6. HistoryInv'
  BY <1>0, <1>1, HistoryCommitted, HistorySame DEF UiInv
<1>7. ScreenIsTrue'
  BY <1>0, <1>2 DEF ScreenIsTrue
<1>. QED
  BY <1>3, <1>4, <1>5, <1>6, <1>7 DEF UiInv

\* The fibers that are interrupted are those that were never admitted.
LEMMA EndClosingKeeps ==
  ASSUME UiInv, EndClosing
  PROVE  UiInv'
<1>. USE DEF EndClosing, Yielded, Interrupted, Settled, browser
<1>0. lifecycle # "Open"
  BY DEF UiInv, ClosingInv
<1>1. TypeOK'
  BY DEF UiInv, TypeOK, Stages, Results
<1>2. FiberInv'
  <2>. SUFFICES ASSUME NEW d \in Dialogs PROVE FiberInvOf(d)'
    BY DEF FiberInv
  <2>1. deferred[d] # "empty" /\ pc[d] # "naming"
    BY <1>0 DEF UiInv, FiberInv, FiberInvOf, ClosingInv
  <2>2. CASE Interrupted(d)
    BY <1>0, <2>1, <2>2 DEF UiInv, TypeOK, FiberInv, FiberInvOf, Admitted, Answers
  <2>3. CASE ~Interrupted(d)
    BY <1>0, <2>1, <2>3 DEF UiInv, TypeOK, FiberInv, FiberInvOf, Admitted, Answers
  <2>. QED
    BY <2>2, <2>3
<1>3. ClosingInv'
  BY <1>0 DEF UiInv, TypeOK, ClosingInv
<1>4. HistoryInv'
  BY HistorySame DEF UiInv, TypeOK
<1>5. ScreenIsTrue'
  BY <1>0 DEF UiInv, ScreenIsTrue, Projection, Interaction
<1>. QED
  BY <1>1, <1>2, <1>3, <1>4, <1>5 DEF UiInv

\* The invariant is inductive.
LEMMA NextKeeps == UiInv /\ [Next]_vars => UiInv'
<1>. SUFFICES ASSUME UiInv, [Next]_vars
              PROVE  UiInv'
  OBVIOUS
<1>1. ASSUME NEW d \in Dialogs, Ask(d)
      PROVE  UiInv'
  BY <1>1, AskKeeps
<1>2. ASSUME NEW d \in Dialogs, Proceed(d)
      PROVE  UiInv'
  BY <1>2, EnterKeeps, RegisterKeeps, TakeKeeps, ShowKeeps, FinishKeeps, WithdrawKeeps DEF Proceed
<1>3. ASSUME NEW d \in Dialogs, Abort(d)
      PROVE  UiInv'
  BY <1>3, AbortKeeps
<1>4. ASSUME NEW d \in Dialogs, NEW tag \in Tags, Respond(d, tag)
      PROVE  UiInv'
  BY <1>4, RespondKeeps
<1>5. ASSUME NEW revision \in 1 .. Len(published), Receive(revision)
      PROVE  UiInv'
  BY <1>5, ReceiveKeeps
<1>6. CASE Change \/ Dispose \/ BeginClosing \/ EndClosing
  BY <1>6, ChangeKeeps, DisposeKeeps, BeginClosingKeeps, EndClosingKeeps
<1>7. CASE UNCHANGED vars
  <2>. USE <1>7 DEF vars, server, fibers, browser
  <2>1. TypeOK' /\ ScreenIsTrue'
    BY DEF UiInv, TypeOK, ScreenIsTrue, Projection, Interaction
  <2>2. FiberInv' /\ ClosingInv'
    BY DEF UiInv, FiberInv, FiberInvOf, ClosingInv
  <2>3. HistoryInv'
    BY HistorySame DEF UiInv
  <2>. QED
    BY <2>1, <2>2, <2>3 DEF UiInv
<1>. QED
  BY <1>1, <1>2, <1>3, <1>4, <1>5, <1>6, <1>7 DEF Next

\* The invariant holds in every state.
LEMMA UiInvariant == Spec => []UiInv
BY InitialState, NextKeeps, PTL DEF Spec

-----------------------------------------------------------------------------
(* What the runtime promises *)

\* Every variable keeps its type, whatever the dialogs are.
THEOREM TypeCorrect == Spec => []TypeOK
<1>1. UiInv => TypeOK
  BY DEF UiInv
<1>. QED
  BY <1>1, UiInvariant, PTL

\* While the runtime is open, its last projection names exactly the dialog
\* that an answer resolves, whose fiber holds interactionLock and has no
\* answer yet; once it closes, the projection names none.
THEOREM ScreenTrue == Spec => []ScreenIsTrue
<1>1. UiInv => ScreenIsTrue
  BY DEF UiInv
<1>. QED
  BY <1>1, UiInvariant, PTL

\* A browser that was told its answer is accepted was told what the extension
\* gets, the extension gets no answer that nobody gave, and a request that was
\* admitted ends with an answer, never with a rejection, for any interleaving
\* of answers, timeouts, aborts and dispose.
THEOREM AnswersDoArrive == Spec => []AnswersArrive
<1>1. UiInv => AnswersArrive
  BY DEF UiInv, TypeOK, FiberInv, FiberInvOf, AnswersArrive, Results, Answers
<1>. QED
  BY <1>1, UiInvariant, PTL

\* The tab never shows again a dialog that has left its screen, in whatever
\* order and with whatever gaps the revisions reach it.
THEOREM GhostsStayAway == Spec => []NoGhostDialog
<1>1. UiInv => NoGhostDialog
  BY HistoryHidesGhosts DEF UiInv
<1>. QED
  BY <1>1, UiInvariant, PTL
=============================================================================
