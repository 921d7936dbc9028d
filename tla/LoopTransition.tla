--------------------------- MODULE LoopTransition ---------------------------
(***************************************************************************)
(* The temporal state of one loop of the loop extension, and the pure      *)
(* functions that move it: createLoop (domain/model.ts), tick and arm      *)
(* (domain/transition.ts).                                                 *)
(*                                                                         *)
(* Prompts, labels and time zones are left out: no transition reads them.  *)
(* The jittered period of an interval and the next instant of a cron       *)
(* expression are abstracted to a distance drawn from Steps, so tick is a  *)
(* set of possible successors.                                             *)
(***************************************************************************)
EXTENDS Naturals

CONSTANTS
  NoLoop,     \* stands for an id without a loop
  Steps,      \* distances the schedules put between a claim and the next due
  MaxAge      \* recurringMaxAgeMs; 0 means recurring loops never expire

ASSUME StepsAssumption == Steps \subseteq Nat \ {0}
ASSUME MaxAgeAssumption == MaxAge \in Nat

Tags == {"Once", "Cron", "Interval", "Manual"}
Recurring == {"Cron", "Interval"}

\* waiting = TRUE is the phase Waiting, FALSE the phase AwaitingArm, whose due
\* is 0; until = 0 when the field is absent.
Loop == [tag: Tags, enabled: BOOLEAN, waiting: BOOLEAN, due: Nat,
         cursor: Nat, manualCursor: Nat, until: Nat]

ASSUME NoLoopAssumption == NoLoop \notin Loop

LoopOrNone == Loop \cup {NoLoop}

\* The first due instants a schedule of this kind may be given.
FirstDues(tag, now) ==
  (IF tag \in {"Interval", "Manual"} THEN {now} ELSE {})
    \cup (IF tag = "Manual" THEN {} ELSE {now + step : step \in Steps})

\* createLoop with the due instant and the creation time of the caller.
NewLoop(tag, createdAt, due) ==
  [tag |-> tag, enabled |-> TRUE, waiting |-> TRUE, due |-> due,
   cursor |-> 0, manualCursor |-> 0,
   until |-> IF tag \in Recurring /\ MaxAge > 0 THEN createdAt + MaxAge ELSE 0]

\* tick produces an occurrence exactly for these loops when admission is open.
IsDue(loop, at) == loop.enabled /\ loop.waiting /\ at >= loop.due

Expired(loop, at) == loop.until # 0 /\ at >= loop.until

\* Mutant: the cursor stays.
SuccessorsSameCursor(loop, at) ==
  IF loop.tag = "Once" THEN {NoLoop}
  ELSE IF loop.tag = "Manual" THEN {[loop EXCEPT !.waiting = FALSE, !.due = 0]}
  ELSE {[loop EXCEPT !.due = at + step] : step \in Steps}

\* What tick may leave of a loop it claims an occurrence of. A recurring loop
\* coalesces every missed instant: the next due counts from the claim.
Successors(loop, at) ==
  LET next == {[loop EXCEPT !.due = at + step, !.cursor = @ + 1] : step \in Steps}
  IN CASE loop.tag = "Once" -> {NoLoop}
       [] loop.tag = "Manual" ->
            {[loop EXCEPT !.waiting = FALSE, !.due = 0, !.cursor = @ + 1]}
       [] loop.tag \in Recurring /\ Expired(loop, at) -> {NoLoop}
       [] loop.tag = "Interval" /\ ~Expired(loop, at) -> next
       [] loop.tag = "Cron" /\ ~Expired(loop, at) -> next \cup {NoLoop}

Armable(loop) == loop.tag = "Manual" /\ ~loop.waiting

Armed(loop, at) == [loop EXCEPT !.waiting = TRUE, !.due = at]
=============================================================================
