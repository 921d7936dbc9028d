-------------------------- MODULE WebSurfaceProofs --------------------------
(***************************************************************************)
(* Proofs about WebSurface, for any actions of the frame and any number of *)
(* runtimes, registrations and revisions.                                  *)
(***************************************************************************)
EXTENDS WebSurface, SequenceTheorems, TLAPS

\* An action has no place before it arrives, and one that runs and was not
\* told to stop is the one its controller knows.
ActionInvOf(a) ==
  /\ stage[a] \in {"idle", "posted"} => place[a] = Nowhere
  /\ place[a] # Nowhere => place[a].runtime = target[a]
  /\ stage[a] = "running" => place[a] # Nowhere /\ place[a].runtime \in Runtimes
  /\ stage[a] = "running" /\ a \notin orphan \cup aborted => holder[place[a].runtime] = a

ActionInv == \A a \in Actions : ActionInvOf(a)

\* The last projection of the surface that r has published.
Latest(r) == IF log[r] = <<>> THEN NoSurface ELSE log[r][Len(log[r])]

\* A runtime that is not disposed has published its surface; a projection without a
\* revision is no surface; revisions rise from one release to the next.
Proper(s) == s.id = 0 <=> s.revision = 0
LogInvOf(r) ==
  /\ phase[r] # "disposed" => surface[r] = Latest(r)
  /\ \A i \in 1 .. Len(log[r]) : Proper(log[r][i])
  /\ \A i, j \in 1 .. Len(log[r]) :
       i < j /\ (\A k \in i .. j : log[r][k] # NoSurface) => log[r][i].revision < log[r][j].revision

LogInv == \A r \in Runtimes : LogInvOf(r)

\* What the channel has of the registration that is the latest of its
\* stream, when no release is left to deliver: all of it, with the frame, or
\* less than what is still to come.
CaughtUp(r) ==
  LET s == Latest(r) IN
  \/ s = NoSurface /\ channel.revision = 0 /\ frame = Blank
  \/ s # NoSurface /\ channel.revision = s.revision /\ frame = [runtime |-> r, surface |-> s]
  \/ s # NoSurface /\ channel.revision < s.revision /\ stream.pos < Len(log[r])

ChannelInv ==
  /\ stream.tag = "before" => channel = NoChannel /\ frame = Blank
  /\ stream.tag = "on" =>
       LET r == stream.runtime IN
       /\ r \in Runtimes /\ stream.pos \in 0 .. Len(log[r])
       /\ channel.runtime = r
       /\ (\A i \in stream.pos + 1 .. Len(log[r]) : log[r][i] # NoSurface) => CaughtUp(r)

SurfaceInv == TypeOK /\ ActionInv /\ LogInv /\ ChannelInv

-----------------------------------------------------------------------------
(* Projections *)

\* No surface is a projection, and any other proper one has a revision.
LEMMA NoSurfaceFacts ==
  /\ NoSurface \in Projection /\ Proper(NoSurface)
  /\ \A s \in Projection : Proper(s) /\ s # NoSurface => s.revision \in 1 .. MaxRevision
<1>1. NoSurface \in Projection /\ Proper(NoSurface)
  BY BoundsAssumption DEF NoSurface, Projection, Proper
<1>2. ASSUME NEW s \in Projection, Proper(s), s # NoSurface
      PROVE  s.revision \in 1 .. MaxRevision
  <2>1. s = [id |-> s.id, revision |-> s.revision] /\ s.revision \in 0 .. MaxRevision
    BY DEF Projection
  <2>2. s.revision # 0
    BY <1>2, <2>1 DEF Proper, NoSurface
  <2>. QED
    BY <2>1, <2>2
<1>. QED
  BY <1>1, <1>2

\* What a runtime has published.
LEMMA LogFacts ==
  ASSUME SurfaceInv, NEW r \in Runtimes
  PROVE  /\ log[r] \in Seq(Projection) /\ Len(log[r]) \in Nat
         /\ \A i \in 1 .. Len(log[r]) : log[r][i] \in Projection /\ Proper(log[r][i])
         /\ Latest(r) = IF Len(log[r]) = 0 THEN NoSurface ELSE log[r][Len(log[r])]
         /\ Latest(r) \in Projection /\ Proper(Latest(r))
<1>1. log[r] \in Seq(Projection)
  BY DEF SurfaceInv, TypeOK
<1>2. /\ Len(log[r]) \in Nat
      /\ \A i \in 1 .. Len(log[r]) : log[r][i] \in Projection
      /\ log[r] = <<>> <=> Len(log[r]) = 0
  BY <1>1, LenProperties, ElementOfSeq, EmptySeq
<1>3. \A i \in 1 .. Len(log[r]) : Proper(log[r][i])
  BY DEF SurfaceInv, LogInv, LogInvOf
<1>. QED
  BY <1>1, <1>2, <1>3, NoSurfaceFacts DEF Latest

\* One more projection, later than the latest of its registration.
LEMMA PublishedKeeps ==
  ASSUME SurfaceInv, NEW r \in Runtimes, Open(r), NEW s \in Projection, Proper(s),
         Published(r, s), UNCHANGED <<phase, page>>,
         s = NoSurface \/ surface[r] = NoSurface \/ surface[r].revision < s.revision
  PROVE  /\ surface' \in [Runtimes -> Projection]
         /\ \A q \in Runtimes : surface'[q].id = 0 <=> surface'[q].revision = 0
         /\ log' \in [Runtimes -> Seq(Projection)]
         /\ LogInv' /\ ChannelInv'
<1>. DEFINE n == Len(log[r])
<1>1. /\ log[r] \in Seq(Projection) /\ n \in Nat
      /\ \A i \in 1 .. n : log[r][i] \in Projection /\ Proper(log[r][i])
      /\ Latest(r) = IF n = 0 THEN NoSurface ELSE log[r][n]
      /\ Latest(r) = surface[r]
  BY LogFacts DEF SurfaceInv, LogInv, LogInvOf, Open
<1>2. /\ surface'[r] = s /\ log'[r] = Append(log[r], s)
      /\ \A q \in Runtimes : q # r => surface'[q] = surface[q] /\ log'[q] = log[q]
      /\ surface' \in [Runtimes -> Projection]
  BY DEF SurfaceInv, TypeOK, Published
<1>3. /\ log'[r] \in Seq(Projection) /\ Len(log'[r]) = n + 1 /\ log'[r] # <<>>
      /\ \A i \in 1 .. n : log'[r][i] = log[r][i]
      /\ log'[r][n + 1] = s
  BY <1>1, <1>2, AppendProperties
<1>4. log' \in [Runtimes -> Seq(Projection)]
  BY <1>1, AppendProperties DEF SurfaceInv, TypeOK, Published
<1>5. \A q \in Runtimes : surface'[q].id = 0 <=> surface'[q].revision = 0
  BY <1>2 DEF SurfaceInv, TypeOK, Proper
<1>6. Latest(r)' = s /\ \A q \in Runtimes : q # r => Latest(q)' = Latest(q)
  BY <1>2, <1>3 DEF Latest
<1>7. LogInv'
  <2>1. LogInvOf(r)'
    <3>1. \A i \in 1 .. Len(log'[r]) : Proper(log'[r][i])
      <4>. TAKE i \in 1 .. Len(log'[r])
      <4>1. i \in 1 .. n \/ i = n + 1
        BY <1>1, <1>3
      <4>. QED
        BY <1>1, <1>3, <4>1
    <3>2. ASSUME NEW i \in 1 .. n + 1, NEW j \in 1 .. n + 1, i < j,
                 \A k \in i .. j : log'[r][k] # NoSurface
          PROVE  log'[r][i].revision < log'[r][j].revision
      <4>0. i \in 1 .. n
        BY <1>1, <3>2
      <4>1. CASE j \in 1 .. n
        <5>1. \A k \in i .. j : log[r][k] # NoSurface
          BY <1>1, <1>3, <3>2, <4>0, <4>1
        <5>2. log[r][i].revision < log[r][j].revision
          BY <3>2, <4>0, <4>1, <5>1 DEF SurfaceInv, LogInv, LogInvOf
        <5>. QED
          BY <1>3, <4>0, <4>1, <5>2
      <4>2. CASE j = n + 1
        <5>1. \A k \in i .. n : log[r][k] # NoSurface
          BY <1>1, <1>3, <3>2, <4>0, <4>2
        <5>2. log[r][n] # NoSurface /\ surface[r] = log[r][n]
          BY <1>1, <4>0, <5>1
        <5>3. s # NoSurface
          BY <1>1, <1>3, <3>2, <4>2
        <5>4. log[r][n].revision < s.revision
          BY <5>2, <5>3
        <5>5. i = n \/ log[r][i].revision < log[r][n].revision
          BY <1>1, <4>0, <5>1 DEF SurfaceInv, LogInv, LogInvOf
        <5>6. log[r][i] \in Projection /\ log[r][n] \in Projection
          <6>1. n \in 1 .. n
            BY <1>1, <4>0
          <6>. QED
            BY <1>1, <4>0, <6>1
        <5>7. /\ log[r][i].revision \in Nat /\ log[r][n].revision \in Nat /\ s.revision \in Nat
          BY <5>6 DEF Projection
        <5>8. log[r][i].revision < s.revision
          BY <5>4, <5>5, <5>7
        <5>. QED
          BY <1>3, <4>0, <4>2, <5>8
      <4>. QED
        BY <1>1, <4>1, <4>2
    <3>. QED
      BY <1>2, <1>3, <1>6, <3>1, <3>2 DEF LogInvOf
  <2>2. ASSUME NEW q \in Runtimes, q # r
        PROVE  LogInvOf(q)'
    BY <1>2, <1>6, <2>2 DEF SurfaceInv, LogInv, LogInvOf
  <2>. QED
    BY <2>1, <2>2 DEF LogInv
<1>8. ChannelInv'
  <2>0. UNCHANGED <<stream, channel, frame>>
    BY DEF page
  <2>1. CASE stream.tag = "on" /\ stream.runtime = r
    <3>1. /\ stream.pos \in 0 .. n /\ channel.runtime = r
          /\ (\A i \in stream.pos + 1 .. n : log[r][i] # NoSurface) => CaughtUp(r)
      BY <2>1 DEF SurfaceInv, ChannelInv
    <3>2. ASSUME \A i \in stream.pos + 1 .. n + 1 : log'[r][i] # NoSurface
          PROVE  CaughtUp(r)'
      <4>1. \A i \in stream.pos + 1 .. n : log[r][i] # NoSurface
        <5>. TAKE i \in stream.pos + 1 .. n
        <5>1. i \in 1 .. n /\ i \in stream.pos + 1 .. n + 1
          BY <1>1, <3>1
        <5>. QED
          BY <1>3, <3>2, <5>1
      <4>2. CaughtUp(r)
        BY <3>1, <4>1
      <4>3. s # NoSurface /\ stream.pos < n + 1
        BY <1>1, <1>3, <3>1, <3>2
      <4>4. s.revision \in 1 .. MaxRevision /\ channel.revision \in Nat
        BY <4>3, NoSurfaceFacts DEF SurfaceInv, TypeOK, Channel
      <4>5. surface[r] # NoSurface => surface[r].revision \in Nat
        BY DEF SurfaceInv, TypeOK, Projection
      <4>6. channel.revision < s.revision
        BY <1>1, <4>2, <4>3, <4>4, <4>5 DEF CaughtUp
      <4>. QED
        BY <1>3, <1>6, <2>0, <4>3, <4>6 DEF CaughtUp
    <3>. QED
      BY <1>1, <1>3, <2>0, <2>1, <3>1, <3>2 DEF ChannelInv
  <2>2. CASE stream.tag = "on" /\ stream.runtime # r
    BY <1>2, <1>6, <2>0, <2>2 DEF SurfaceInv, ChannelInv, CaughtUp
  <2>3. CASE stream.tag # "on"
    BY <2>0, <2>3 DEF SurfaceInv, ChannelInv
  <2>. QED
    BY <2>1, <2>2, <2>3
<1>. QED
  BY <1>2, <1>4, <1>5, <1>7, <1>8

\* A step that publishes nothing keeps what was published.
LEMMA LogSame ==
  ASSUME SurfaceInv, UNCHANGED log,
         \A r \in Runtimes : phase'[r] # "disposed" => phase[r] # "disposed" /\ surface'[r] = surface[r]
  PROVE  LogInv'
BY DEF SurfaceInv, LogInv, LogInvOf, Latest

\* A page and logs that do not change keep what the page has seen in order.
LEMMA ChannelSame ==
  ASSUME SurfaceInv, UNCHANGED <<log, page>>
  PROVE  ChannelInv'
BY DEF SurfaceInv, ChannelInv, CaughtUp, Latest, page

\* The runtimes that release the controller of an action tell it to stop.
LEMMA ReleasedKeeps ==
  ASSUME SurfaceInv, NEW r \in Runtimes,
         aborted' = aborted \cup ActiveIn(r), holder' = [holder EXCEPT ![r] = Nobody],
         UNCHANGED <<stage, target, place, orphan>>
  PROVE  ActionInv' /\ holder' \in [Runtimes -> Actions \cup {Nobody}] /\ aborted' \subseteq Actions
<1>1. holder' \in [Runtimes -> Actions \cup {Nobody}] /\ aborted' \subseteq Actions
  BY DEF SurfaceInv, TypeOK, ActiveIn
<1>2. ASSUME NEW a \in Actions
      PROVE  ActionInvOf(a)'
  <2>1. ActionInvOf(a)
    BY DEF SurfaceInv, ActionInv
  <2>2. ASSUME stage[a] = "running", a \notin orphan \cup aborted'
        PROVE  holder'[place[a].runtime] = a
    <3>1. a \notin orphan \cup aborted /\ a # Nobody
      BY <2>2, NobodyAssumption
    <3>2. holder[place[a].runtime] = a /\ place[a].runtime \in Runtimes
      BY <2>1, <2>2, <3>1 DEF ActionInvOf
    <3>3. place[a].runtime # r
      BY <2>2, <3>1, <3>2 DEF ActiveIn
    <3>. QED
      BY <3>2, <3>3 DEF SurfaceInv, TypeOK
  <2>. QED
    BY <2>1, <2>2 DEF ActionInvOf
<1>. QED
  BY <1>1, <1>2 DEF ActionInv

\* Steps that change no action, controller or history of actions.
LEMMA ActionsSame ==
  ASSUME SurfaceInv, UNCHANGED <<stage, target, place, orphan, aborted, holder>>
  PROVE  ActionInv'
BY DEF SurfaceInv, ActionInv, ActionInvOf

-----------------------------------------------------------------------------
(* Steps of the runtimes and the extension *)

\* A runtime of the session that starts.
LEMMA StartRuntimeKeeps ==
  ASSUME SurfaceInv, NEW r \in Runtimes, StartRuntime(r)
  PROVE  SurfaceInv'
<1>. USE DEF StartRuntime, page, actions
<1>1. TypeOK'
  BY DEF SurfaceInv, TypeOK
<1>2. LogInv'
  BY LogSame DEF SurfaceInv, TypeOK
<1>. QED
  BY <1>1, <1>2, ChannelSame, ActionsSame DEF SurfaceInv

\* A runtime that leaves the table of sessions.
LEMMA UnlistKeeps ==
  ASSUME SurfaceInv, NEW r \in Runtimes, Unlist(r)
  PROVE  SurfaceInv'
<1>. USE DEF Unlist, page, actions
<1>1. TypeOK'
  BY DEF SurfaceInv, TypeOK
<1>2. LogInv'
  BY LogSame DEF SurfaceInv, TypeOK
<1>. QED
  BY <1>1, <1>2, ChannelSame, ActionsSame DEF SurfaceInv

\* A runtime that is disposed, with its surface and its actions.
LEMMA DisposeRuntimeKeeps ==
  ASSUME SurfaceInv, NEW r \in Runtimes, DisposeRuntime(r)
  PROVE  SurfaceInv'
<1>. USE DEF DisposeRuntime
<1>1. ActionInv' /\ holder' \in [Runtimes -> Actions \cup {Nobody}] /\ aborted' \subseteq Actions
  BY ReleasedKeeps
<1>2. /\ surface' \in [Runtimes -> Projection]
      /\ \A q \in Runtimes : surface'[q].id = 0 <=> surface'[q].revision = 0
  BY NoSurfaceFacts DEF SurfaceInv, TypeOK, Proper
<1>3. TypeOK'
  BY <1>1, <1>2 DEF SurfaceInv, TypeOK, page
<1>4. LogInv'
  BY LogSame DEF SurfaceInv, TypeOK
<1>. QED
  BY <1>1, <1>3, <1>4, ChannelSame DEF SurfaceInv

\* A registration starts where the runtime has no surface.
LEMMA RegisterKeeps ==
  ASSUME SurfaceInv, NEW r \in Runtimes, Register(r)
  PROVE  SurfaceInv'
<1>. DEFINE i == registrations + 1
            s == [id |-> i, revision |-> 1]
<1>1. i \in 1 .. MaxSurfaces
  BY BoundsAssumption DEF Register, SurfaceInv, TypeOK
<1>. HIDE DEF i
<1>2. s \in Projection /\ Proper(s)
  BY <1>1, BoundsAssumption DEF Projection, Proper
<1>3. /\ Open(r) /\ surface[r] = NoSurface /\ Published(r, s) /\ registrations' = i
      /\ UNCHANGED <<phase, holder, page, actions>>
  BY DEF Register, i
<1>. HIDE DEF s
<1>4. /\ surface' \in [Runtimes -> Projection]
      /\ \A q \in Runtimes : surface'[q].id = 0 <=> surface'[q].revision = 0
      /\ log' \in [Runtimes -> Seq(Projection)]
      /\ LogInv' /\ ChannelInv'
  BY <1>2, <1>3, PublishedKeeps
<1>5. TypeOK'
  BY <1>1, <1>3, <1>4 DEF SurfaceInv, TypeOK, page, actions
<1>. QED
  BY <1>3, <1>4, <1>5, ActionsSame DEF SurfaceInv, actions

\* A replacement has the next revision of the same registration.
LEMMA ReplaceKeeps ==
  ASSUME SurfaceInv, NEW r \in Runtimes, Replace(r)
  PROVE  SurfaceInv'
<1>. DEFINE old == surface[r]
            s == [old EXCEPT !.revision = old.revision + 1]
<1>1. /\ old \in Projection /\ Proper(old) /\ old # NoSurface /\ old.revision < MaxRevision
      /\ Open(r) /\ Published(r, s) /\ UNCHANGED <<phase, registrations, holder, page, actions>>
  BY DEF Replace, Replaceable, SurfaceInv, TypeOK, Proper
<1>2. old.revision \in 1 .. MaxRevision
  BY <1>1, NoSurfaceFacts
<1>. HIDE DEF old
<1>3. s \in Projection /\ s.id = old.id /\ s.revision = old.revision + 1
  BY <1>1, <1>2, BoundsAssumption DEF Projection
<1>. HIDE DEF s
<1>4. Proper(s) /\ old.revision < s.revision
  BY <1>1, <1>2, <1>3 DEF Proper
<1>5. /\ surface' \in [Runtimes -> Projection]
      /\ \A q \in Runtimes : surface'[q].id = 0 <=> surface'[q].revision = 0
      /\ log' \in [Runtimes -> Seq(Projection)]
      /\ LogInv' /\ ChannelInv'
  BY <1>1, <1>3, <1>4, PublishedKeeps DEF old
<1>6. TypeOK'
  BY <1>1, <1>5 DEF SurfaceInv, TypeOK, page, actions
<1>. QED
  BY <1>1, <1>5, <1>6, ActionsSame DEF SurfaceInv, actions

\* An extension that releases its surface.
LEMMA ReleaseKeeps ==
  ASSUME SurfaceInv, NEW r \in Runtimes, Release(r)
  PROVE  SurfaceInv'
<1>1. ActionInv' /\ holder' \in [Runtimes -> Actions \cup {Nobody}] /\ aborted' \subseteq Actions
  BY ReleasedKeeps DEF Release
<1>2. /\ surface' \in [Runtimes -> Projection]
      /\ \A q \in Runtimes : surface'[q].id = 0 <=> surface'[q].revision = 0
      /\ log' \in [Runtimes -> Seq(Projection)]
      /\ LogInv' /\ ChannelInv'
  BY NoSurfaceFacts, PublishedKeeps DEF Release
<1>3. TypeOK'
  BY <1>1, <1>2 DEF Release, SurfaceInv, TypeOK, page
<1>. QED
  BY <1>1, <1>2, <1>3 DEF SurfaceInv

-----------------------------------------------------------------------------
(* Steps of the page *)

\* What a projection makes of the channel and the frame.
LEMMA AdvanceFacts ==
  ASSUME SurfaceInv, NEW r \in Runtimes, NEW s \in Projection, Proper(s), Advance(r, s)
  PROVE  /\ channel' \in Channel /\ channel.revision \in Nat
         /\ frame' \in [runtime : 0 .. MaxRuntimes, surface : Projection]
         /\ s = NoSurface => channel'.runtime = r /\ channel'.revision = 0 /\ frame' = Blank
         /\ s # NoSurface /\ channel.runtime = r /\ s.revision <= channel.revision =>
              channel' = channel /\ frame' = frame
         /\ s # NoSurface /\ (channel.runtime # r \/ channel.revision < s.revision) =>
              /\ channel'.runtime = r /\ channel'.revision = s.revision
              /\ frame' = [runtime |-> r, surface |-> s]
<1>0. /\ channel \in Channel /\ channel.revision \in Nat /\ s.revision \in Nat
      /\ frame \in [runtime : 0 .. MaxRuntimes, surface : Projection]
      /\ r \in 0 .. MaxRuntimes
  BY DEF SurfaceInv, TypeOK, Channel, Projection, Runtimes
<1>1. CASE s = NoSurface
  <2>1. channel' = [runtime |-> r, revision |-> 0, initialized |-> FALSE] /\ frame' = Blank
    BY <1>1 DEF Advance, Advanced
  <2>2. /\ [runtime |-> r, revision |-> 0, initialized |-> FALSE] \in Channel
        /\ Blank \in [runtime : 0 .. MaxRuntimes, surface : Projection]
    BY BoundsAssumption, NoSurfaceFacts DEF Channel, Blank
  <2>. QED
    BY <1>0, <1>1, <2>1, <2>2
<1>2. CASE s # NoSurface /\ channel.runtime = r /\ s.revision <= channel.revision
  <2>1. channel' = channel /\ frame' = frame
    BY <1>2 DEF Advance, Advanced
  <2>. QED
    BY <1>0, <1>2, <2>1
<1>3. CASE s # NoSurface /\ (channel.runtime # r \/ channel.revision < s.revision)
  <2>1. channel' = [runtime |-> r, revision |-> s.revision, initialized |-> TRUE]
    BY <1>0, <1>3 DEF Advance, Advanced
  <2>2. channel' # channel
    BY <1>0, <1>3, <2>1
  <2>3. frame' = [runtime |-> r, surface |-> s]
    BY <1>3, <2>2 DEF Advance
  <2>4. [runtime |-> r, revision |-> s.revision, initialized |-> TRUE] \in Channel
    BY DEF Channel, Projection
  <2>. QED
    BY <1>0, <1>3, <2>1, <2>3, <2>4
<1>. QED
  BY <1>0, <1>1, <1>2, <1>3

\* The first projection is the surface as it is; the channel is new, so it
\* takes it.
LEMMA SubscribeKeeps ==
  ASSUME SurfaceInv, NEW r \in Runtimes, NEW pos \in 0 .. Len(log[r]), Subscribe(r, pos)
  PROVE  SurfaceInv'
<1>. DEFINE s == surface[r]
<1>0. /\ stream.tag = "before" /\ stream' = [tag |-> "on", runtime |-> r, pos |-> pos]
      /\ Advance(r, s) /\ UNCHANGED <<host, actions>>
      /\ channel = NoChannel /\ channel.revision = 0
      /\ s \in Projection /\ Proper(s) /\ s = Latest(r)
  BY DEF Subscribe, Open, SurfaceInv, TypeOK, ChannelInv, NoChannel, LogInv, LogInvOf, Proper
<1>1. s # NoSurface => s.revision \in 1 .. MaxRevision
  BY <1>0, NoSurfaceFacts
<1>. HIDE DEF s
<1>2. /\ channel' \in Channel
      /\ frame' \in [runtime : 0 .. MaxRuntimes, surface : Projection]
      /\ channel'.runtime = r
      /\ s = NoSurface => channel'.revision = 0 /\ frame' = Blank
      /\ s # NoSurface => channel'.revision = s.revision /\ frame' = [runtime |-> r, surface |-> s]
  BY <1>0, <1>1, AdvanceFacts
<1>3. stream' \in Stream
  BY <1>0, LogFacts DEF Stream, Runtimes
<1>4. TypeOK'
  BY <1>0, <1>2, <1>3 DEF SurfaceInv, TypeOK, host, actions
<1>5. Latest(r)' = s /\ UNCHANGED log
  BY <1>0 DEF Latest, host
<1>6. ChannelInv'
  BY <1>0, <1>2, <1>5 DEF ChannelInv, CaughtUp
<1>7. ActionInv'
  BY <1>0, ActionsSame DEF host, actions
<1>8. LogInv'
  BY <1>0, LogSame DEF host
<1>. QED
  BY <1>4, <1>6, <1>7, <1>8 DEF SurfaceInv

\* The next event: a release empties the frame, an old revision is dropped,
\* and one of an older registration is followed by its release.
LEMMA DeliverKeeps ==
  ASSUME SurfaceInv, Deliver
  PROVE  SurfaceInv'
<1>. DEFINE r == stream.runtime
            p == stream.pos
            n == Len(log[r])
            e == log[r][p + 1]
            s == Latest(r)
<1>0. /\ stream.tag = "on" /\ p < n /\ stream' = [stream EXCEPT !.pos = p + 1]
      /\ Advance(r, e) /\ UNCHANGED <<host, actions>>
  BY DEF Deliver
<1>1. /\ r \in Runtimes /\ p \in 0 .. n /\ channel.runtime = r /\ n \in Nat
      /\ (\A i \in p + 1 .. n : log[r][i] # NoSurface) => CaughtUp(r)
  BY <1>0, LogFacts DEF SurfaceInv, ChannelInv
<1>2. /\ \A i \in 1 .. n : log[r][i] \in Projection /\ Proper(log[r][i])
      /\ s = log[r][n] /\ s \in Projection /\ Proper(s)
      /\ p + 1 \in 1 .. n /\ n \in 1 .. n
  BY <1>0, <1>1, LogFacts
<1>3. e \in Projection /\ Proper(e)
  BY <1>2
<1>4. /\ channel' \in Channel /\ channel.revision \in Nat
      /\ frame' \in [runtime : 0 .. MaxRuntimes, surface : Projection]
      /\ e = NoSurface => channel'.runtime = r /\ channel'.revision = 0 /\ frame' = Blank
      /\ e # NoSurface /\ e.revision <= channel.revision => channel' = channel /\ frame' = frame
      /\ e # NoSurface /\ channel.revision < e.revision =>
           /\ channel'.runtime = r /\ channel'.revision = e.revision
           /\ frame' = [runtime |-> r, surface |-> e]
  BY <1>0, <1>1, <1>3, AdvanceFacts
<1>5. /\ e # NoSurface => e.revision \in 1 .. MaxRevision
      /\ s # NoSurface => s.revision \in 1 .. MaxRevision
  BY <1>2, <1>3, NoSurfaceFacts
<1>6. channel'.runtime = r
  BY <1>1, <1>4, <1>5
<1>7. /\ stream' \in Stream /\ stream'.tag = "on" /\ stream'.runtime = r /\ stream'.pos = p + 1
      /\ log' = log /\ Latest(r)' = s
  BY <1>0, <1>1 DEF SurfaceInv, TypeOK, Stream, host, Latest
<1>8. ASSUME \A i \in p + 2 .. n : log[r][i] # NoSurface
      PROVE  \/ s = NoSurface /\ channel'.revision = 0 /\ frame' = Blank
             \/ s # NoSurface /\ channel'.revision = s.revision /\ frame' = [runtime |-> r, surface |-> s]
             \/ s # NoSurface /\ channel'.revision < s.revision /\ p + 1 < n
  <2>1. CASE e = NoSurface
    <3>1. CASE p + 1 = n
      BY <1>2, <1>4, <2>1, <3>1
    <3>2. CASE p + 1 < n
      <4>1. s # NoSurface
        BY <1>1, <1>2, <1>8, <3>2
      <4>. QED
        BY <1>4, <1>5, <2>1, <3>2, <4>1
    <3>. QED
      BY <1>0, <1>1, <3>1, <3>2
  <2>2. CASE e # NoSurface
    <3>1. \A i \in p + 1 .. n : log[r][i] # NoSurface
      <4>. TAKE i \in p + 1 .. n
      <4>1. i = p + 1 \/ i \in p + 2 .. n
        BY <1>1
      <4>. QED
        BY <1>8, <2>2, <4>1
    <3>2. CaughtUp(r) /\ s # NoSurface
      BY <1>1, <1>2, <3>1
    <3>3. \/ channel.revision = s.revision /\ frame = [runtime |-> r, surface |-> s]
          \/ channel.revision < s.revision
      BY <3>2 DEF CaughtUp
    <3>4. CASE p + 1 = n
      BY <1>2, <1>4, <1>5, <2>2, <3>2, <3>3, <3>4
    <3>5. CASE p + 1 < n
      <4>1. e.revision < s.revision
        BY <1>1, <1>2, <3>1, <3>5 DEF SurfaceInv, LogInv, LogInvOf
      <4>. HIDE DEF e, s
      <4>. QED
        BY <1>4, <1>5, <2>2, <3>2, <3>3, <3>5, <4>1
    <3>. QED
      BY <1>0, <1>1, <3>4, <3>5
  <2>. QED
    BY <2>1, <2>2
<1>9. ChannelInv'
  <2>1. (\A i \in p + 2 .. n : log[r][i] # NoSurface) => CaughtUp(r)'
    BY <1>7, <1>8 DEF CaughtUp
  <2>2. p + 1 \in 0 .. n /\ (p + 1) + 1 = p + 2
    BY <1>0, <1>1
  <2>. QED
    BY <1>1, <1>6, <1>7, <2>1, <2>2 DEF ChannelInv
<1>10. TypeOK'
  BY <1>0, <1>4, <1>7 DEF SurfaceInv, TypeOK, host, actions
<1>11. ActionInv'
  BY <1>0, ActionsSame DEF host, actions
<1>12. LogInv'
  BY <1>0, LogSame DEF host
<1>. QED
  BY <1>9, <1>10, <1>11, <1>12 DEF SurfaceInv

\* The stream is over: the frame keeps what it has, or is blank.
LEMMA StreamOverKeeps ==
  ASSUME SurfaceInv, StreamEnds \/ StreamFails
  PROVE  SurfaceInv'
<1>0. /\ stream' = [stream EXCEPT !.tag = "ended"] /\ UNCHANGED <<host, actions>>
      /\ UNCHANGED <<channel, frame>> \/ (channel' = NoChannel /\ frame' = Blank)
  BY DEF StreamEnds, StreamFails
<1>1. stream' \in Stream /\ stream'.tag = "ended"
  BY <1>0 DEF SurfaceInv, TypeOK, Stream
<1>2. /\ NoChannel \in Channel
      /\ Blank \in [runtime : 0 .. MaxRuntimes, surface : Projection]
  BY BoundsAssumption, NoSurfaceFacts DEF NoChannel, Channel, Runtimes, Blank
<1>3. TypeOK'
  BY <1>0, <1>1, <1>2 DEF SurfaceInv, TypeOK, host, actions
<1>4. ChannelInv'
  BY <1>1 DEF ChannelInv
<1>5. ActionInv' /\ LogInv'
  BY <1>0, ActionsSame, LogSame DEF host, actions
<1>. QED
  BY <1>3, <1>4, <1>5 DEF SurfaceInv

\* A page that is closed.
LEMMA CloseKeeps ==
  ASSUME SurfaceInv, Close
  PROVE  SurfaceInv'
<1>0. /\ stream' = [stream EXCEPT !.tag = "closed"]
      /\ channel' = NoChannel /\ frame' = Blank
      /\ UNCHANGED <<host, stage, target, place, orphan, aborted>>
  BY DEF Close
<1>1. stream' \in Stream /\ stream'.tag = "closed"
  BY <1>0 DEF SurfaceInv, TypeOK, Stream
<1>2. /\ NoChannel \in Channel
      /\ Blank \in [runtime : 0 .. MaxRuntimes, surface : Projection]
  BY BoundsAssumption, NoSurfaceFacts DEF NoChannel, Channel, Runtimes, Blank
<1>3. /\ told' \in [Actions -> {"none", "outcome", "closed", "busy", "failed", "session-not-active"}]
      /\ gone' \subseteq Actions
  BY DEF Close, SurfaceInv, TypeOK
<1>4. TypeOK'
  BY <1>0, <1>1, <1>2, <1>3 DEF SurfaceInv, TypeOK, host
<1>5. ChannelInv'
  BY <1>1 DEF ChannelInv
<1>6. ActionInv' /\ LogInv'
  BY <1>0, ActionsSame, LogSame DEF host
<1>. QED
  BY <1>4, <1>5, <1>6 DEF SurfaceInv

-----------------------------------------------------------------------------
(* Steps of an action *)

\* What the frame is told of an action.
LEMMA TellType ==
  ASSUME SurfaceInv, NEW a \in Actions,
         NEW outcome \in {"outcome", "closed", "busy", "failed", "session-not-active"},
         Tell(a, outcome)
  PROVE  told' \in [Actions -> {"none", "outcome", "closed", "busy", "failed", "session-not-active"}]
BY DEF SurfaceInv, TypeOK, Tell

\* Actions move no surface, projection or stream.
LEMMA HostSame ==
  ASSUME SurfaceInv, UNCHANGED <<phase, surface, log, page>>
  PROVE  LogInv' /\ ChannelInv'
BY LogSame, ChannelSame

\* A page that posts an action.
LEMMA DispatchKeeps ==
  ASSUME SurfaceInv, NEW a \in Actions, Dispatch(a)
  PROVE  SurfaceInv'
<1>0. /\ stage[a] = "idle" /\ UNCHANGED <<host, page, place, gone, orphan, aborted>>
      /\ \/ stage' = [stage EXCEPT ![a] = "void"] /\ UNCHANGED <<target, told>>
         \/ /\ stage' = [stage EXCEPT ![a] = "over"]
            /\ Tell(a, "session-not-active") /\ UNCHANGED target
         \/ /\ stage' = [stage EXCEPT ![a] = "posted"]
            /\ target' = [target EXCEPT ![a] = channel.runtime] /\ UNCHANGED told
  BY DEF Dispatch
<1>1. told' \in [Actions -> {"none", "outcome", "closed", "busy", "failed", "session-not-active"}]
  BY <1>0, TellType DEF SurfaceInv, TypeOK
<1>2. channel.runtime \in 0 .. MaxRuntimes
  BY DEF SurfaceInv, TypeOK, Channel, Runtimes
<1>3. /\ stage' \in [Actions -> {"idle", "posted", "running", "over", "void"}]
      /\ target' \in [Actions -> 0 .. MaxRuntimes]
      /\ stage'[a] \in {"posted", "over", "void"}
      /\ \A b \in Actions : b # a => stage'[b] = stage[b] /\ target'[b] = target[b]
  BY <1>0, <1>2 DEF SurfaceInv, TypeOK
<1>4. TypeOK'
  BY <1>0, <1>1, <1>3 DEF SurfaceInv, TypeOK, host, page
<1>5. ActionInv'
  <2>1. ActionInvOf(a)'
    BY <1>0, <1>3 DEF SurfaceInv, ActionInv, ActionInvOf
  <2>2. \A b \in Actions : b # a => ActionInvOf(b)'
    BY <1>0, <1>3 DEF SurfaceInv, ActionInv, ActionInvOf, host
  <2>. QED
    BY <2>1, <2>2 DEF ActionInv
<1>. QED
  BY <1>0, <1>4, <1>5, HostSame DEF SurfaceInv, host

\* The call of an action that is lost.
LEMMA LoseCallKeeps ==
  ASSUME SurfaceInv, NEW a \in Actions, LoseCall(a)
  PROVE  SurfaceInv'
<1>. USE DEF LoseCall, host, page
<1>1. TypeOK'
  BY DEF SurfaceInv, TypeOK
<1>. QED
  BY <1>1, HostSame, ActionsSame DEF SurfaceInv

\* A call without a client that never arrives.
LEMMA VanishKeeps ==
  ASSUME SurfaceInv, NEW a \in Actions, Vanish(a)
  PROVE  SurfaceInv'
<1>. USE DEF Vanish, host, page
<1>1. TypeOK'
  BY DEF SurfaceInv, TypeOK
<1>2. ActionInv'
  BY DEF SurfaceInv, TypeOK, ActionInv, ActionInvOf
<1>. QED
  BY <1>1, <1>2, HostSame DEF SurfaceInv

\* An action that ends before it runs.
LEMMA EndsKeeps ==
  ASSUME SurfaceInv, NEW a \in Actions, stage[a] = "posted",
         NEW outcome \in {"failed", "closed", "busy"}, Ends(a, outcome),
         UNCHANGED <<phase, surface, registrations, log, page, target, gone, orphan, aborted>>
  PROVE  SurfaceInv'
<1>. USE DEF Ends
<1>1. TypeOK'
  BY TellType DEF SurfaceInv, TypeOK, page
<1>2. ActionInv'
  BY DEF SurfaceInv, TypeOK, ActionInv, ActionInvOf
<1>. QED
  BY <1>1, <1>2, HostSame DEF SurfaceInv

\* An action that starts runs in the runtime it was meant for, and finds the
\* controller free.
LEMMA ArriveKeeps ==
  ASSUME SurfaceInv, NEW a \in Actions, NEW r \in Runtimes, Arrive(a, r)
  PROVE  SurfaceInv'
<1>. DEFINE here == [runtime |-> r, id |-> surface[r].id]
<1>0. /\ stage[a] = "posted"
      /\ UNCHANGED <<phase, surface, registrations, log, page, target, gone, orphan, aborted>>
      /\ \/ \E outcome \in {"failed", "closed", "busy"} : Ends(a, outcome)
         \/ /\ target[a] = r /\ holder[r] = Nobody
            /\ stage' = [stage EXCEPT ![a] = "running"]
            /\ place' = [place EXCEPT ![a] = here]
            /\ holder' = [holder EXCEPT ![r] = a]
            /\ UNCHANGED told
  BY DEF Arrive, SameRuntime, Busy
<1>1. CASE \E outcome \in {"failed", "closed", "busy"} : Ends(a, outcome)
  BY <1>0, <1>1, EndsKeeps
<1>2. CASE /\ target[a] = r /\ holder[r] = Nobody
           /\ stage' = [stage EXCEPT ![a] = "running"]
           /\ place' = [place EXCEPT ![a] = here]
           /\ holder' = [holder EXCEPT ![r] = a]
           /\ UNCHANGED told
  <2>1. here \in Place /\ here # Nowhere /\ here.runtime = r
    <3>. DEFINE i == surface[r].id
    <3>1. i \in 0 .. MaxSurfaces /\ r \in 1 .. MaxRuntimes
      BY DEF SurfaceInv, TypeOK, Projection, Runtimes
    <3>. HIDE DEF i
    <3>2. [runtime |-> r, id |-> i] \in Place /\ [runtime |-> r, id |-> i] # Nowhere
      BY <3>1 DEF Place, Nowhere
    <3>. QED
      BY <3>2 DEF i
  <2>. HIDE DEF here
  <2>2. TypeOK'
    BY <1>0, <1>2, <2>1 DEF SurfaceInv, TypeOK, page
  <2>3. /\ stage'[a] = "running" /\ place'[a] = here /\ holder'[r] = a
        /\ \A b \in Actions : b # a => stage'[b] = stage[b] /\ place'[b] = place[b]
        /\ \A q \in Runtimes : q # r => holder'[q] = holder[q]
    BY <1>2 DEF SurfaceInv, TypeOK
  <2>4. ActionInvOf(a)'
    BY <1>0, <1>2, <2>1, <2>3 DEF ActionInvOf
  <2>5. ASSUME NEW b \in Actions, b # a
        PROVE  ActionInvOf(b)'
    <3>1. ActionInvOf(b) /\ b # Nobody
      BY NobodyAssumption DEF SurfaceInv, ActionInv
    <3>. QED
      BY <1>0, <1>2, <2>3, <2>5, <3>1 DEF ActionInvOf
  <2>. QED
    BY <1>0, <2>2, <2>4, <2>5, HostSame DEF SurfaceInv, ActionInv
<1>. QED
  BY <1>0, <1>1, <1>2

\* An action that finds no runtime.
LEMMA NotActiveKeeps ==
  ASSUME SurfaceInv, NEW a \in Actions, NotActive(a)
  PROVE  SurfaceInv'
BY EndsKeeps DEF NotActive

\* The controller of an action that ended, or of one without a client, is
\* free for another.
LEMMA PutDownKeeps ==
  ASSUME SurfaceInv, NEW a \in Actions, PutDown(a),
         \/ stage' = [stage EXCEPT ![a] = "over"] /\ UNCHANGED orphan
         \/ orphan' = orphan \cup {a} /\ UNCHANGED stage,
         stage[a] = "running",
         UNCHANGED <<target, place, aborted>>
  PROVE  ActionInv' /\ holder' \in [Runtimes -> Actions \cup {Nobody}]
<1>1. holder' \in [Runtimes -> Actions \cup {Nobody}]
  BY DEF SurfaceInv, TypeOK, PutDown
<1>2. ASSUME NEW b \in Actions, b # a
      PROVE  ActionInvOf(b)'
  <2>1. ActionInvOf(b) /\ stage'[b] = stage[b]
    BY <1>2 DEF SurfaceInv, TypeOK, ActionInv
  <2>. QED
    BY <1>2, <2>1 DEF ActionInvOf, PutDown
<1>3. ActionInvOf(a)'
  BY DEF SurfaceInv, TypeOK, ActionInv, ActionInvOf
<1>. QED
  BY <1>1, <1>2, <1>3 DEF ActionInv

\* An action that ends by itself.
LEMMA FinishKeeps ==
  ASSUME SurfaceInv, NEW a \in Actions, Finish(a)
  PROVE  SurfaceInv'
<1>1. ActionInv' /\ holder' \in [Runtimes -> Actions \cup {Nobody}]
  BY PutDownKeeps DEF Finish
<1>2. TypeOK'
  BY <1>1, TellType DEF Finish, SurfaceInv, TypeOK, page
<1>. QED
  BY <1>1, <1>2, HostSame DEF Finish, SurfaceInv

\* An action whose caller is gone: its place is free, while the extension goes on with it.
LEMMA InterruptKeeps ==
  ASSUME SurfaceInv, NEW a \in Actions, Interrupt(a)
  PROVE  SurfaceInv'
<1>1. ActionInv' /\ holder' \in [Runtimes -> Actions \cup {Nobody}]
  BY PutDownKeeps DEF Interrupt
<1>2. TypeOK'
  BY <1>1 DEF Interrupt, SurfaceInv, TypeOK, page
<1>. QED
  BY <1>1, <1>2, HostSame DEF Interrupt, SurfaceInv

-----------------------------------------------------------------------------
(* The invariant *)

\* The invariant holds initially.
LEMMA InitialState == Init => SurfaceInv
<1>. SUFFICES ASSUME Init PROVE SurfaceInv
  OBVIOUS
<1>0. \A r \in Runtimes : log[r] = <<>> /\ Len(log[r]) = 0
  BY DEF Init
<1>1. TypeOK
  <2>1. /\ 0 \in 0 .. MaxSurfaces /\ 0 \in 0 .. MaxRuntimes /\ 1 \in Runtimes
        /\ NoSurface \in Projection /\ 0 \in 0 .. MaxRevision
    BY BoundsAssumption, NoSurfaceFacts DEF Runtimes
  <2>2. <<>> \in Seq(Projection)
    BY EmptySeq
  <2>3. /\ stream \in Stream /\ channel \in Channel
        /\ frame \in [runtime : 0 .. MaxRuntimes, surface : Projection]
    BY <2>1 DEF Init, Stream, NoChannel, Channel, Blank
  <2>4. Nowhere \in Place
    BY <2>1 DEF Nowhere, Place
  <2>5. /\ log \in [Runtimes -> Seq(Projection)]
        /\ place \in [Actions -> Place] /\ surface \in [Runtimes -> Projection]
        /\ \A r \in Runtimes : surface[r].id = 0 <=> surface[r].revision = 0
    BY <2>1, <2>2, <2>4 DEF Init, NoSurface
  <2>. QED
    BY <2>1, <2>3, <2>5 DEF Init, TypeOK
<1>2. ActionInv
  BY DEF Init, ActionInv, ActionInvOf
<1>3. LogInv
  BY <1>0 DEF Init, LogInv, LogInvOf, Latest
<1>4. ChannelInv
  BY DEF Init, ChannelInv
<1>. QED
  BY <1>1, <1>2, <1>3, <1>4 DEF SurfaceInv

\* Every step keeps it.
LEMMA NextKeeps == SurfaceInv /\ [Next]_vars => SurfaceInv'
<1>. SUFFICES ASSUME SurfaceInv, [Next]_vars
              PROVE  SurfaceInv'
  OBVIOUS
<1>1. ASSUME NEW r \in Runtimes, StartRuntime(r) \/ Unlist(r) \/ DisposeRuntime(r)
      PROVE  SurfaceInv'
  BY <1>1, StartRuntimeKeeps, UnlistKeeps, DisposeRuntimeKeeps
<1>2. ASSUME NEW r \in Runtimes, Register(r) \/ Replace(r) \/ Release(r)
      PROVE  SurfaceInv'
  BY <1>2, RegisterKeeps, ReplaceKeeps, ReleaseKeeps
<1>3. ASSUME NEW r \in Runtimes, NEW pos \in 0 .. Len(log[r]), Subscribe(r, pos)
      PROVE  SurfaceInv'
  BY <1>3, SubscribeKeeps
<1>4. CASE Deliver \/ StreamEnds \/ StreamFails \/ Close
  BY <1>4, DeliverKeeps, StreamOverKeeps, CloseKeeps
<1>5. ASSUME NEW a \in Actions, Step(a)
      PROVE  SurfaceInv'
  BY <1>5, DispatchKeeps, LoseCallKeeps, VanishKeeps, NotActiveKeeps, ArriveKeeps, FinishKeeps,
     InterruptKeeps
  DEF Step, Arrives
<1>6. CASE UNCHANGED vars
  <2>. USE <1>6 DEF vars, host, page, actions
  <2>1. TypeOK'
    BY DEF SurfaceInv, TypeOK
  <2>. QED
    BY <2>1, HostSame, ActionsSame DEF SurfaceInv
<1>. QED
  BY <1>1, <1>2, <1>3, <1>4, <1>5, <1>6 DEF Next

\* So it holds always.
LEMMA SurfaceInvariant == Spec => []SurfaceInv
BY InitialState, NextKeeps, PTL DEF Spec

-----------------------------------------------------------------------------
(* What the host and the channel promise *)

\* Every variable keeps its type, whatever the bounds are.
THEOREM TypeCorrect == Spec => []TypeOK
<1>1. SurfaceInv => TypeOK
  BY DEF SurfaceInv
<1>. QED
  BY <1>1, SurfaceInvariant, PTL

\* An action runs only in the runtime whose projection the frame showed when
\* it was dispatched, however many runtimes have come since.
THEOREM RuntimeIsRight == Spec => []RightRuntime
<1>1. SurfaceInv => RightRuntime
  BY DEF SurfaceInv, ActionInv, ActionInvOf, RightRuntime
<1>. QED
  BY <1>1, SurfaceInvariant, PTL

\* Of two actions that run in one runtime, one was told to stop or has lost
\* its client.
THEOREM NeverTwoAtATime == Spec => []OneAtATime
<1>1. SurfaceInv => OneAtATime
  BY DEF SurfaceInv, ActionInv, ActionInvOf, OneAtATime
<1>. QED
  BY <1>1, SurfaceInvariant, PTL

\* A channel that has taken every event of an open runtime leaves the frame
\* with the surface as it is, wherever the replay of the stream began.
THEOREM FrameEndsCurrent == Spec => []FrameIsCurrent
<1>1. SurfaceInv => FrameIsCurrent
  <2>. SUFFICES ASSUME SurfaceInv, stream.tag = "on", stream.pos = Len(log[stream.runtime]),
                       Open(stream.runtime)
                PROVE  frame = IF surface[stream.runtime] = NoSurface THEN Blank
                               ELSE [runtime |-> stream.runtime, surface |-> surface[stream.runtime]]
    BY DEF FrameIsCurrent
  <2>. DEFINE r == stream.runtime
  <2>1. /\ r \in Runtimes /\ Len(log[r]) \in Nat
        /\ (\A i \in stream.pos + 1 .. Len(log[r]) : log[r][i] # NoSurface) => CaughtUp(r)
    BY LogFacts DEF SurfaceInv, ChannelInv
  <2>2. CaughtUp(r)
    BY <2>1
  <2>3. surface[r] = Latest(r)
    BY <2>1 DEF SurfaceInv, LogInv, LogInvOf, Open
  <2>. QED
    BY <2>1, <2>2, <2>3 DEF CaughtUp
<1>. QED
  BY <1>1, SurfaceInvariant, PTL
=============================================================================
