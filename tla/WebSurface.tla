----------------------------- MODULE WebSurface -----------------------------
(***************************************************************************)
(* The web surface of one package in one session: the controller that the  *)
(* extension registers with the host (makeExtensionHostCapabilities), the  *)
(* stream of projections of every session runtime, the channel of the      *)
(* extension page (connectWebSurface), the document in its frame           *)
(* (connectWebSurfaceBrowser), and the actions that go back to the         *)
(* controller through the dispatch route.                                  *)
(*                                                                         *)
(* The package does not change, so the candidate hash always agrees. The   *)
(* page connects its frame once: the document stops listening for a port   *)
(* after the first one.                                                    *)
(***************************************************************************)
EXTENDS Naturals, Sequences, SequencesExt

CONSTANTS
  Actions,       \* calls of dispatch in the frame
  Nobody,        \* no action
  MaxRuntimes,   \* bound: runtimes of the session, one after the other
  MaxSurfaces,   \* bound: registrations, in all runtimes
  MaxRevision    \* bound: revisions of a registration

ASSUME NobodyAssumption == Nobody \notin Actions
ASSUME BoundsAssumption ==
  MaxRuntimes \in Nat \ {0} /\ MaxSurfaces \in Nat \ {0} /\ MaxRevision \in Nat \ {0}

VARIABLES
  phase,         \* the runtimes: absent, active in the table, unlisted, disposed
  surface,       \* the registration in the projection of a runtime
  registrations, \* how many there have been (bound)
  holder,        \* the action whose abort controller is the active one
  log,           \* the projections of the surface a runtime has published
  stream,        \* the event stream of the channel: its runtime and position
  channel,       \* WebSurfaceSessionChannelState
  frame,         \* what the document in the frame was last given
  stage,         \* the actions: idle, posted, running, over, void
  target,        \* the runtime an action was posted for
  place,         \* the runtime and registration it runs in
  told,          \* what the frame was told
  gone,          \* actions whose HTTP call has no client any more
  orphan,        \* running actions whose handler was interrupted
  aborted        \* running actions whose signal was aborted

host == <<phase, surface, registrations, holder, log>>
page == <<stream, channel, frame>>
actions == <<stage, target, place, told, gone, orphan, aborted>>
vars == <<host, page, actions>>

-----------------------------------------------------------------------------
(* Types *)

Runtimes == 1 .. MaxRuntimes

\* WebSurfaceProjection: the registration and its revision, or none.
Projection == [id : 0 .. MaxSurfaces, revision : 0 .. MaxRevision]
NoSurface == [id |-> 0, revision |-> 0]

\* The state of the channel; revision 0 stands for -1.
Channel == [runtime : Runtimes, revision : 0 .. MaxRevision, initialized : BOOLEAN]
NoChannel == [runtime |-> 1, revision |-> 0, initialized |-> FALSE]

\* The frame before the first projection and after a close.
Blank == [runtime |-> 0, surface |-> NoSurface]
Stream == [tag : {"before", "on", "ended", "closed"}, runtime : 0 .. MaxRuntimes, pos : Nat]

Place == [runtime : 0 .. MaxRuntimes, id : 0 .. MaxSurfaces]
Nowhere == [runtime |-> 0, id |-> 0]

Init ==
  /\ phase = [r \in Runtimes |-> IF r = 1 THEN "active" ELSE "absent"]
  /\ surface = [r \in Runtimes |-> NoSurface]
  /\ registrations = 0
  /\ holder = [r \in Runtimes |-> Nobody]
  /\ log = [r \in Runtimes |-> <<>>]
  /\ stream = [tag |-> "before", runtime |-> 0, pos |-> 0]
  /\ channel = NoChannel /\ frame = Blank
  /\ stage = [a \in Actions |-> "idle"]
  /\ target = [a \in Actions |-> 0]
  /\ place = [a \in Actions |-> Nowhere]
  /\ told = [a \in Actions |-> "none"]
  /\ gone = {} /\ orphan = {} /\ aborted = {}

-----------------------------------------------------------------------------
(* Runtimes and the extension *)

\* A request for the session starts its next runtime.
StartRuntime(r) ==
  /\ phase[r] = "absent" /\ \A q \in Runtimes : phase[q] # "active" /\ (q < r => phase[q] # "absent")
  /\ phase' = [phase EXCEPT ![r] = "active"]
  /\ UNCHANGED <<surface, registrations, holder, log, page, actions>>

\* The registry frees the slot first and disposes the runtime later.
Unlist(r) ==
  /\ phase[r] = "active" /\ r < MaxRuntimes
  /\ phase' = [phase EXCEPT ![r] = "unlisted"]
  /\ UNCHANGED <<surface, registrations, holder, log, page, actions>>

\* The actions that are told to stop when a controller of r is released.
ActiveIn(r) == {holder[r]} \ {Nobody}

\* dispose of the capabilities: controllers are released, nothing is
\* published, because the user interface runtime is closing already.
DisposeRuntime(r) ==
  /\ phase[r] = "unlisted"
  /\ phase' = [phase EXCEPT ![r] = "disposed"]
  /\ surface' = [surface EXCEPT ![r] = NoSurface]
  /\ aborted' = aborted \cup ActiveIn(r)
  /\ holder' = [holder EXCEPT ![r] = Nobody]
  /\ UNCHANGED <<registrations, log, page, stage, target, place, told, gone, orphan>>

Open(r) == phase[r] \in {"active", "unlisted"}
Published(r, s) == surface' = [surface EXCEPT ![r] = s] /\ log' = [log EXCEPT ![r] = Append(@, s)]

\* register: refused while the package has a surface; the new controller
\* counts its revisions from the beginning.
Register(r) ==
  /\ Open(r) /\ surface[r] = NoSurface /\ registrations < MaxSurfaces
  /\ registrations' = registrations + 1
  /\ Published(r, [id |-> registrations + 1, revision |-> 1])
  /\ UNCHANGED <<phase, holder, page, actions>>

\* replace: ignored by a handle that was released.
ReplaceableByAny(r) == TRUE
Replaceable(r) == surface[r] # NoSurface
Replace(r) ==
  /\ Open(r) /\ Replaceable(r) /\ surface[r].revision < MaxRevision
  /\ Published(r, [surface[r] EXCEPT !.revision = @ + 1])
  /\ UNCHANGED <<phase, registrations, holder, page, actions>>

Release(r) ==
  /\ Open(r) /\ surface[r] # NoSurface
  /\ Published(r, NoSurface)
  /\ aborted' = aborted \cup ActiveIn(r)
  /\ holder' = [holder EXCEPT ![r] = Nobody]
  /\ UNCHANGED <<phase, registrations, page, stage, target, place, told, gone, orphan>>

-----------------------------------------------------------------------------
(* The page *)

\* advanceWebSurfaceSessionChannel: what becomes of the state.
AdvancedKeeping(c, r, s) ==
  IF s = NoSurface THEN [runtime |-> r, revision |-> c.revision, initialized |-> FALSE]
  ELSE IF c.runtime = r /\ s.revision <= c.revision THEN c
  ELSE [runtime |-> r, revision |-> s.revision, initialized |-> TRUE]
Advanced(c, r, s) ==
  IF s = NoSurface THEN [runtime |-> r, revision |-> 0, initialized |-> FALSE]
  ELSE IF c.runtime = r /\ s.revision <= c.revision THEN c
  ELSE [runtime |-> r, revision |-> s.revision, initialized |-> TRUE]

\* A projection reaches the channel, and the frame as init, projection or
\* session-closed, or not at all.
Advance(r, s) ==
  /\ channel' = Advanced(channel, r, s)
  /\ frame' = IF s = NoSurface THEN Blank
              ELSE IF channel' = channel THEN frame
              ELSE [runtime |-> r, surface |-> s]

\* events: the channel subscribes, reads the projection (RuntimeActivated)
\* and goes on with what the subscription holds: some of the last events, up
\* to all of them, published before the projection was read. The handle was
\* taken from the table, which may have freed the slot by now.
Subscribe(r, pos) ==
  /\ stream.tag = "before" /\ Open(r) /\ pos \in 0 .. Len(log[r])
  /\ stream' = [tag |-> "on", runtime |-> r, pos |-> pos]
  /\ Advance(r, surface[r])
  /\ UNCHANGED <<host, actions>>

Deliver ==
  /\ stream.tag = "on" /\ stream.pos < Len(log[stream.runtime])
  /\ stream' = [stream EXCEPT !.pos = @ + 1]
  /\ Advance(stream.runtime, log[stream.runtime][stream.pos + 1])
  /\ UNCHANGED <<host, actions>>

\* The runtime is disposed and its stream ends; nothing subscribes again.
StreamEnds ==
  /\ stream.tag = "on" /\ phase[stream.runtime] = "disposed"
  /\ stream' = [stream EXCEPT !.tag = "ended"]
  /\ UNCHANGED <<channel, frame, host, actions>>

\* The stream fails: the session is closed for the frame.
StreamFails ==
  /\ stream.tag \in {"before", "on"}
  /\ stream' = [stream EXCEPT !.tag = "ended"]
  /\ channel' = NoChannel /\ frame' = Blank
  /\ UNCHANGED <<host, actions>>

Waiting == {a \in Actions : stage[a] # "idle" /\ told[a] = "none"}

\* The route is left, or the page connects anew: the scope closes, calls are
\* interrupted, and the frame settles everything that waits.
SettledOnCloseIfPosted(a) == a \in Waiting /\ stage[a] = "posted"
SettledOnClose(a) == a \in Waiting /\ stage[a] # "void"
Close ==
  /\ stream.tag # "closed"
  /\ stream' = [stream EXCEPT !.tag = "closed"]
  /\ channel' = NoChannel /\ frame' = Blank
  /\ told' = [a \in Actions |-> IF SettledOnClose(a) THEN "closed" ELSE told[a]]
  /\ gone' = gone \cup {a \in Actions : stage[a] \in {"posted", "running"}}
  /\ UNCHANGED <<host, stage, target, place, orphan, aborted>>

-----------------------------------------------------------------------------
(* Actions *)

\* The frame is told, if the call still has a client.
Tell(a, outcome) == told' = IF a \in gone THEN told ELSE [told EXCEPT ![a] = outcome]

\* dispatch in the frame: posted to a closed port it is never answered;
\* otherwise the channel calls the route, for the runtime it knows.
Dispatch(a) ==
  /\ stage[a] = "idle"
  /\ CASE stream.tag = "closed" ->
            stage' = [stage EXCEPT ![a] = "void"] /\ UNCHANGED <<target, told>>
       [] stream.tag # "closed" /\ ~channel.initialized ->
            /\ stage' = [stage EXCEPT ![a] = "over"]
            /\ Tell(a, "session-not-active")
            /\ UNCHANGED target
       [] OTHER ->
            /\ stage' = [stage EXCEPT ![a] = "posted"]
            /\ target' = [target EXCEPT ![a] = channel.runtime]
            /\ UNCHANGED told
  /\ UNCHANGED <<host, page, place, gone, orphan, aborted>>

\* The call breaks on its way or while the action runs.
LoseCall(a) ==
  /\ stage[a] \in {"posted", "running"} /\ a \notin gone
  /\ gone' = gone \cup {a}
  /\ told' = [told EXCEPT ![a] = "failed"]
  /\ UNCHANGED <<host, page, stage, target, place, orphan, aborted>>

\* A call without a client need not arrive any more.
Vanish(a) ==
  /\ stage[a] = "posted" /\ a \in gone
  /\ stage' = [stage EXCEPT ![a] = "over"]
  /\ UNCHANGED <<host, page, target, place, told, gone, orphan, aborted>>

Ends(a, outcome) ==
  /\ stage' = [stage EXCEPT ![a] = "over"]
  /\ Tell(a, outcome)
  /\ UNCHANGED <<holder, place>>

\* The dispatch route, which starts no runtime: the one that is active now
\* must be the one the frame meant; its controller takes one action at a time.
SameRuntimeAlways(a, r) == TRUE
SameRuntime(a, r) == target[a] = r
BusyNever(r) == FALSE
Busy(r) == holder[r] # Nobody
Arrive(a, r) ==
  /\ stage[a] = "posted" /\ phase[r] = "active"
  /\ CASE ~SameRuntime(a, r) -> Ends(a, "failed")
       [] SameRuntime(a, r) /\ surface[r] = NoSurface -> Ends(a, "closed")
       [] SameRuntime(a, r) /\ surface[r] # NoSurface /\ Busy(r) -> Ends(a, "busy")
       [] OTHER ->
            /\ stage' = [stage EXCEPT ![a] = "running"]
            /\ place' = [place EXCEPT ![a] = [runtime |-> r, id |-> surface[r].id]]
            /\ holder' = [holder EXCEPT ![r] = a]
            /\ UNCHANGED told
  /\ UNCHANGED <<phase, surface, registrations, log, page, target, gone, orphan, aborted>>

\* The session has no active runtime.
NotActive(a) ==
  /\ stage[a] = "posted" /\ \A r \in Runtimes : phase[r] # "active"
  /\ Ends(a, "failed")
  /\ UNCHANGED <<phase, surface, registrations, log, page, target, gone, orphan, aborted>>

\* The active abort controller is put down, if it is that of a.
PutDown(a) == holder' = [r \in Runtimes |-> IF holder[r] = a THEN Nobody ELSE holder[r]]

\* The extension ends an action, well or not.
Finish(a) ==
  /\ stage[a] = "running"
  /\ stage' = [stage EXCEPT ![a] = "over"]
  /\ PutDown(a)
  /\ Tell(a, "outcome")
  /\ UNCHANGED <<phase, surface, registrations, log, page, target, place, gone, orphan, aborted>>

\* The handler of a call without a client is interrupted: the controller is
\* free again, while the extension goes on with the action.
Interrupt(a) ==
  /\ stage[a] = "running" /\ a \in gone \ orphan
  /\ orphan' = orphan \cup {a}
  /\ PutDown(a)
  /\ UNCHANGED <<phase, surface, registrations, log, page, stage, target, place, told, gone, aborted>>

-----------------------------------------------------------------------------
Arrives(a) == NotActive(a) \/ \E r \in Runtimes : Arrive(a, r)

Step(a) ==
  \/ Dispatch(a) \/ LoseCall(a) \/ Vanish(a) \/ Arrives(a)
  \/ Finish(a) \/ Interrupt(a)

Next ==
  \/ \E r \in Runtimes :
       \/ StartRuntime(r) \/ Unlist(r) \/ DisposeRuntime(r)
       \/ Register(r) \/ Replace(r) \/ Release(r)
       \/ \E pos \in 0 .. Len(log[r]) : Subscribe(r, pos)
  \/ Deliver \/ StreamEnds \/ StreamFails \/ Close
  \/ \E a \in Actions : Step(a)

Spec == Init /\ [][Next]_vars

\* Calls reach the server, and the extension ends what it runs. The page may
\* stay open for ever, connections need not break and runtimes not start.
FairSpec ==
  /\ Spec
  /\ \A a \in Actions : WF_vars(Arrives(a)) /\ WF_vars(Finish(a))

-----------------------------------------------------------------------------
(* Properties *)

TypeOK ==
  /\ phase \in [Runtimes -> {"absent", "active", "unlisted", "disposed"}]
  /\ surface \in [Runtimes -> Projection]
  /\ \A r \in Runtimes : surface[r].id = 0 <=> surface[r].revision = 0
  /\ registrations \in 0 .. MaxSurfaces
  /\ holder \in [Runtimes -> Actions \cup {Nobody}]
  /\ log \in [Runtimes -> Seq(Projection)]
  /\ stream \in Stream /\ channel \in Channel
  /\ frame \in [runtime : 0 .. MaxRuntimes, surface : Projection]
  /\ stage \in [Actions -> {"idle", "posted", "running", "over", "void"}]
  /\ target \in [Actions -> 0 .. MaxRuntimes] /\ place \in [Actions -> Place]
  /\ told \in [Actions -> {"none", "outcome", "closed", "busy", "failed", "session-not-active"}]
  /\ gone \subseteq Actions /\ orphan \subseteq Actions /\ aborted \subseteq Actions

\* An action never runs in a runtime that replaced the one whose projection
\* the frame showed when the user acted, however long the call takes.
RightRuntime ==
  \A a \in Actions : place[a] # Nowhere => place[a].runtime = target[a]

\* The extension runs one action of a surface at a time: another one only
\* starts when the first has been told to stop, by the release of its
\* registration, or has lost its client.
OneAtATime ==
  \A a, b \in Actions :
    /\ a # b /\ stage[a] = "running" /\ stage[b] = "running"
    /\ place[a].runtime = place[b].runtime
    => {a, b} \cap (orphan \cup aborted) # {}

\* When the channel has taken every event of its stream the frame shows the
\* surface as it is, or nothing if there is none: neither the replay of old
\* events after the first projection nor a registration whose revisions start
\* again leaves it with an old view.
FrameIsCurrent ==
  stream.tag = "on" /\ stream.pos = Len(log[stream.runtime]) /\ Open(stream.runtime) =>
    frame = IF surface[stream.runtime] = NoSurface THEN Blank
            ELSE [runtime |-> stream.runtime, surface |-> surface[stream.runtime]]

\* Every action is answered in the frame, whatever becomes of the surface,
\* the runtime, the call or the page, unless the page had closed before.
EveryActionAnswered ==
  []<>(\A a \in Actions : stage[a] \in {"idle", "void"} \/ told[a] # "none")
=============================================================================
