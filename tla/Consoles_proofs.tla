--------------------------- MODULE Consoles_proofs ---------------------------
(***************************************************************************)
(* Theorems about the programs of Consoles, for every value of their       *)
(* constants.  Each program has an invariant of its own; the others leave  *)
(* it alone, since they do not touch what it speaks of (Only), except that *)
(* the terminal and the autonomy share the robots' topics and the two      *)
(* parts of the page the choice of the robot.                              *)
(***************************************************************************)
EXTENDS Consoles, RuntimeConfig_proofs, SequenceFacts, SequenceTheorems, TLAPS

\* A step of a program, and what it leaves alone.
LEMMA Steps ==
  ASSUME [Next]_vars
  PROVE  /\ (part = "terminal" /\ TeleopNext) \/ UNCHANGED teleopVars
         /\ (part = "autonomy" /\ AutonomyNext) \/ UNCHANGED <<cameraVars, waited>>
         /\ (part = "video" /\ VideoNext) \/ UNCHANGED videoVars
         /\ (part = "feeds" /\ FeedsNext) \/ UNCHANGED feedVars
         /\ (part = "drive" /\ DriveNext) \/ UNCHANGED handlers
         /\ (part = "peers" /\ PeersNext) \/ UNCHANGED peerVars
         /\ (part = "config" /\ ConfigNext) \/ UNCHANGED configVars
         /\ part \in {"drive", "video"} \/ UNCHANGED choice
         /\ part \in {"terminal", "autonomy"} \/ UNCHANGED topics
         /\ UNCHANGED part
<1>1. CASE part = "terminal" /\ Terminal
  BY <1>1 DEF Terminal, Only, Rests
<1>2. CASE part = "autonomy" /\ Autonomy
  BY <1>2 DEF Autonomy, Only, Rests
<1>3. CASE part = "drive" /\ Page
  BY <1>3 DEF Page, Only, Rests
<1>4. CASE part = "video" /\ Videos
  BY <1>4 DEF Videos, Only, Rests
<1>5. CASE part = "feeds" /\ Feeds
  BY <1>5 DEF Feeds, Only, Rests
<1>6. CASE part = "peers" /\ Sessions
  BY <1>6 DEF Sessions, Only, Rests
<1>7. CASE part = "config" /\ Tools
  BY <1>7 DEF Tools, Only, Rests
<1>8. CASE UNCHANGED vars
  BY <1>8 DEF vars
<1> QED BY <1>1, <1>2, <1>3, <1>4, <1>5, <1>6, <1>7, <1>8 DEF Next
-----------------------------------------------------------------------------
(* The video on the page.  What is on the screen came with the connection  *)
(* in use, so there is nothing without one, and it goes with the robot.    *)

ConnType == conn \in Connection \cup {None}

AttemptType ==
  attempt = None \/ attempt \in [of : Robot, current : BOOLEAN, at : Phase]

VideoInv ==
  /\ activeRobot \in Robot \cup {None} /\ pending \in Robot \cup {None}
  /\ listed \subseteq Robot
  /\ ConnType /\ AttemptType
  /\ attempt # None /\ attempt.current => conn # None
  /\ conn = None => shown = None
  /\ ~loaded \/ part # "video" => conn = None /\ attempt = None
  /\ ShowsTheActive

\* Whoever changes the choice, the active robot stays one of the fleet.
LEMMA ChoiceStep ==
  ASSUME activeRobot \in Robot \cup {None}, pending \in Robot \cup {None},
         listed \subseteq Robot,
         ChoiceNext \/ Exit \/ \E r \in Robot \cup {None}, a \in SUBSET Robot : Load(r, a)
  PROVE  /\ activeRobot' \in Robot \cup {None} /\ pending' \in Robot \cup {None}
         /\ listed' \subseteq Robot
<1>1. CASE Settle \/ \E r \in Robot : Pick(r)
  BY <1>1 DEF Settle, Pick
<1>2. CASE ServerNext
  <2>1. PICK r \in Robot \cup {None} :
          \/ r # None /\ ServerRobot(r)
          \/ \E available \in SUBSET Robot : ServerState(TRUE, r, available) \/ ServerState(FALSE, r, available)
    BY <1>2 DEF ServerNext, Greeted, Polled
  <2>2. CASE r # None /\ ServerRobot(r)
    BY <2>2 DEF ServerRobot, Propose
  <2>3. ASSUME NEW available \in SUBSET Robot, NEW greeting \in BOOLEAN,
               ServerState(greeting, r, available)
        PROVE  /\ activeRobot' \in Robot \cup {None} /\ pending' \in Robot \cup {None}
               /\ listed' \subseteq Robot
    <3>1. PICK preferred \in Robot \cup {None} :
            \E next \in Reconciled(preferred, activeRobot, available) :
              IF next = activeRobot THEN UNCHANGED <<activeRobot, pending>>
              ELSE /\ pending' = None
                   /\ activeRobot' = IF pinned' /\ activeRobot \in available
                                     THEN activeRobot ELSE next
      BY <2>3 DEF ServerState
    <3>2. Reconciled(preferred, activeRobot, available) \subseteq Robot \cup {None}
      BY DEF Reconciled
    <3> QED BY <2>3, <3>1, <3>2 DEF ServerState
  <2> QED BY <2>1, <2>2, <2>3
<1>3. CASE Exit
  BY <1>3 DEF Exit
<1>4. ASSUME NEW r \in Robot \cup {None}, NEW a \in SUBSET Robot, Load(r, a)
      PROVE  /\ activeRobot' \in Robot \cup {None} /\ pending' \in Robot \cup {None}
             /\ listed' \subseteq Robot
  <2>1. Reconciled(r, None, a) \subseteq Robot \cup {None}
    BY DEF Reconciled
  <2> QED BY <1>4, <2>1 DEF Load
<1> QED BY <1>1, <1>2, <1>3, <1>4 DEF ChoiceNext

LEMMA NewConnection == \A r \in Robot : Begin(r) => ConnType' /\ AttemptType' /\ conn' # None
<1> SUFFICES ASSUME NEW r \in Robot, Begin(r)
             PROVE  ConnType' /\ AttemptType' /\ conn' # None
  OBVIOUS
<1>1. conn' \in Connection
  BY DEF Begin, Connection
<1>2. AttemptType'
  BY DEF Begin, AttemptType, Phase
<1> QED BY <1>1, <1>2, VideoAssumption DEF ConnType, Connection

LEMMA VideoActs ==
  ASSUME VideoInv, part = "video", UNCHANGED part, VideoNext
  PROVE  VideoInv'
<1> USE VideoAssumption, FleetAssumption
<1>1. CASE Offered \/ Posted \/ Aborted \/ Answered \/ Failed
  <2>1. /\ UNCHANGED <<choice, conn, screen>> /\ loaded
        /\ attempt # None
        /\ attempt' = None \/ \E phase \in Phase : attempt' = [attempt EXCEPT !.at = phase]
    BY <1>1 DEF Offered, Posted, Aborted, Answered, Failed, Trying, Proceed, Over, Phase
  <2>2. attempt \in [of : Robot, current : BOOLEAN, at : Phase]
    BY <2>1 DEF VideoInv, AttemptType
  <2>3. AttemptType' /\ (attempt' # None => attempt'.current = attempt.current)
    BY <2>1, <2>2 DEF AttemptType
  <2> QED BY <2>1, <2>3 DEF VideoInv, ConnType, ShowsTheActive, choice, screen
<1>2. CASE Applied
  <2>1. /\ UNCHANGED <<choice, screen>> /\ loaded /\ attempt' = None /\ attempt # None
        /\ conn' = IF attempt.current THEN [conn EXCEPT !.state = "answered"] ELSE conn
    BY <1>2 DEF Applied, Trying, Over
  <2>2. ConnType' /\ (conn' = None => conn = None)
    BY <2>1 DEF VideoInv, ConnType, Connection
  <2> QED BY <2>1, <2>2 DEF VideoInv, AttemptType, ShowsTheActive, choice, screen
<1>3. CASE Track
  BY <1>3 DEF Track, VideoInv, ConnType, AttemptType, ShowsTheActive, choice, peer
<1>4. CASE Break
  <2>1. /\ UNCHANGED <<choice, attempt, screen>> /\ conn # None
        /\ conn' = [conn EXCEPT !.state = "broken"]
    BY <1>4 DEF Break
  <2>2. ConnType' /\ conn' # None
    BY <2>1 DEF VideoInv, ConnType, Connection
  <2> QED BY <2>1, <2>2 DEF VideoInv, AttemptType, ShowsTheActive, choice, screen
<1>5. CASE Flow \/ WaitOver \/ GraceOver
  BY <1>5 DEF Flow, WaitOver, GraceOver, VideoInv, ConnType, AttemptType, ShowsTheActive,
              choice, peer, screen
<1>6. CASE RetryLoop \/ FallbackLoop
  <2>1. Renew
    BY <1>6 DEF RetryLoop, FallbackLoop
  <2>2. ConnType' /\ AttemptType' /\ conn' # None
    BY <2>1, NewConnection DEF Renew, Begin, VideoInv
  <2> QED BY <2>1, <2>2 DEF Renew, VideoInv, ShowsTheActive, choice
<1>7. CASE ChooseShown
  <2>1. /\ activeRobot' \in Robot \cup {None} /\ pending' \in Robot \cup {None}
        /\ listed' \subseteq Robot
    BY <1>7, ChoiceStep DEF ChooseShown, VideoInv
  <2>2. loaded /\ loaded'
    BY <1>7 DEF ChooseShown, ChoiceNext, Settle, Pick, ServerNext, ServerRobot,
                Greeted, Polled, ServerState
  <2>3. CASE ~Changed
    BY <1>7, <2>1, <2>2, <2>3 DEF ChooseShown, Changed, VideoInv, ConnType, AttemptType,
       ShowsTheActive, videoVars, peer, screen
  <2>4. CASE Changed
    <3>1. Switch
      BY <1>7, <2>4 DEF ChooseShown
    <3>2. shown' = None
      BY <3>1 DEF Switch, ClearShown, VideoInv
    <3>3. CASE attempt # None
      <4>1. conn' = None /\ AttemptType' /\ ~attempt'.current
        <5>1. attempt \in [of : Robot, current : BOOLEAN, at : Phase]
          BY <3>3 DEF VideoInv, AttemptType
        <5> QED BY <3>1, <3>3, <5>1 DEF Switch, AttemptType, Phase
      <4> QED BY <2>1, <2>2, <3>2, <4>1 DEF VideoInv, ConnType, ShowsTheActive
    <3>4. CASE attempt = None /\ activeRobot' = None
      BY <2>1, <2>2, <3>1, <3>2, <3>4 DEF Switch, VideoInv, ConnType, AttemptType, ShowsTheActive
    <3>5. CASE attempt = None /\ activeRobot' # None
      <4>1. ConnType' /\ AttemptType' /\ conn' # None
        <5>1. Begin(activeRobot') /\ activeRobot' \in Robot
          BY <2>1, <3>1, <3>5 DEF Switch
        <5> QED BY <5>1, NewConnection DEF Begin
      <4> QED BY <2>1, <2>2, <3>2, <4>1 DEF VideoInv, ShowsTheActive
    <3> QED BY <3>3, <3>4, <3>5
  <2> QED BY <2>3, <2>4
<1>8. CASE VideoExit
  <2>1. /\ activeRobot' \in Robot \cup {None} /\ pending' \in Robot \cup {None}
        /\ listed' \subseteq Robot
    BY <1>8, ChoiceStep DEF VideoExit, VideoInv
  <2> QED BY <1>8, <2>1 DEF VideoExit, VideoInv, ConnType, AttemptType, ShowsTheActive
<1>9. CASE VideoLoad
  <2>1. /\ activeRobot' \in Robot \cup {None} /\ pending' \in Robot \cup {None}
        /\ listed' \subseteq Robot
    BY <1>9, ChoiceStep DEF VideoLoad, VideoInv
  <2>2. ~loaded /\ loaded' /\ UNCHANGED shown
    BY <1>9 DEF VideoLoad, Load, screen
  <2>3. CASE activeRobot' # None
    <3>1. ConnType' /\ AttemptType' /\ conn' # None
      <4>1. Begin(activeRobot') /\ activeRobot' \in Robot
        BY <1>9, <2>1, <2>3 DEF VideoLoad
      <4> QED BY <4>1, NewConnection DEF Begin
    <3> QED BY <2>1, <2>2, <3>1 DEF VideoInv, ShowsTheActive
  <2>4. CASE activeRobot' = None
    BY <1>9, <2>1, <2>2, <2>4 DEF VideoLoad, peer, VideoInv, ConnType, AttemptType, ShowsTheActive
  <2> QED BY <2>3, <2>4
<1> QED BY <1>1, <1>2, <1>3, <1>4, <1>5, <1>6, <1>7, <1>8, <1>9 DEF VideoNext

LEMMA VideoStart == Init => VideoInv
BY DEF Init, VideoInit, ChoiceInit, VideoInv, ConnType, AttemptType, ShowsTheActive

LEMMA VideoStep == VideoInv /\ [Next]_vars => VideoInv'
<1> SUFFICES ASSUME VideoInv, [Next]_vars PROVE VideoInv'
  OBVIOUS
<1>1. CASE part = "video" /\ VideoNext
  BY <1>1, Steps, VideoActs
<1>2. CASE UNCHANGED <<videoVars, choice>>
  BY <1>2, Steps DEF VideoInv, ConnType, Connection, AttemptType, ShowsTheActive,
                     videoVars, choice, peer, screen
<1>3. CASE part = "drive" /\ Page /\ UNCHANGED videoVars
  <2>1. \/ UNCHANGED choice
        \/ ChoiceNext \/ Exit \/ \E r \in Robot \cup {None}, a \in SUBSET Robot : Load(r, a)
    BY <1>3 DEF Page, DriveNext, HoldTick, StopHolds, ScreenStop, Return, Opened, Closed,
                Choose, PageExit, PageLoad, PressKey, PressOther, PressButton, Press,
                ReleaseKey, ReleaseShifted, ReleaseButton, Release, Leave, LockUpdate
  <2>2. /\ activeRobot' \in Robot \cup {None} /\ pending' \in Robot \cup {None}
        /\ listed' \subseteq Robot
    BY <2>1, ChoiceStep DEF VideoInv, choice
  <2>3. conn = None /\ attempt = None /\ shown = None
    BY <1>3 DEF VideoInv
  <2> QED BY <1>3, <2>2, <2>3, Steps DEF VideoInv, ConnType, Connection, AttemptType,
                                         ShowsTheActive, videoVars, peer, screen
<1>4. \/ part = "video" /\ VideoNext
      \/ part = "drive" /\ Page /\ UNCHANGED videoVars
      \/ UNCHANGED <<videoVars, choice>>
  <2>1. CASE part = "drive" /\ Page
    BY <2>1, Steps
  <2>2. CASE UNCHANGED vars
    BY <2>2 DEF vars
  <2> QED BY <2>1, <2>2, Steps DEF Next, Terminal, Autonomy, Videos, Feeds, Sessions,
                                   Tools, Only, Rests
<1> QED BY <1>1, <1>2, <1>3, <1>4

\* However choices, offers, answers and tracks fall together, the video shown
\* is that of the robot the page drives (setupWebRTC, setActiveRobot).
THEOREM TheVideoIsOfTheRobotDriven == Spec => []ShowsTheActive
<1>1. VideoInv => ShowsTheActive
  BY DEF VideoInv
<1> QED BY <1>1, VideoStart, VideoStep, PTL DEF Spec
-----------------------------------------------------------------------------
(* The choice of the robot is typed, whichever part of the page makes it.  *)

LEMMA ChoiceIsMade ==
  ASSUME [Next]_vars
  PROVE  \/ UNCHANGED choice
         \/ ChoiceNext \/ Exit \/ \E r \in Robot \cup {None}, a \in SUBSET Robot : Load(r, a)
<1>1. CASE part = "drive" /\ DriveNext
  BY <1>1 DEF DriveNext, HoldTick, StopHolds, ScreenStop, Return, Opened, Closed,
              Choose, PageExit, PageLoad, PressKey, PressOther, PressButton, Press, ReleaseKey,
              ReleaseShifted, ReleaseButton, Release, Leave, LockUpdate
<1>2. CASE part = "video" /\ VideoNext
  BY <1>2 DEF VideoNext, Offered, Posted, Aborted, Answered, Applied, Failed, Track, Break,
              Flow, WaitOver, GraceOver, RetryLoop, FallbackLoop, Renew, ChooseShown,
              VideoExit, VideoLoad
<1>3. (part = "drive" /\ DriveNext) \/ (part = "video" /\ VideoNext) \/ UNCHANGED choice
  BY DEF Next, Terminal, Autonomy, Page, Videos, Feeds, Sessions, Tools, Only, Rests, vars
<1> QED BY <1>1, <1>2, <1>3

LEMMA ChoiceIsTyped == ChoiceTypeOK /\ [Next]_vars => ChoiceTypeOK'
<1> SUFFICES ASSUME ChoiceTypeOK, [Next]_vars PROVE ChoiceTypeOK'
  OBVIOUS
<1>1. CASE UNCHANGED choice
  BY <1>1 DEF ChoiceTypeOK, choice
<1>2. CASE ChoiceNext \/ Exit \/ \E r \in Robot \cup {None}, a \in SUBSET Robot : Load(r, a)
  <2>1. /\ activeRobot' \in Robot \cup {None} /\ pending' \in Robot \cup {None}
        /\ listed' \subseteq Robot
    BY <1>2, ChoiceStep DEF ChoiceTypeOK
  <2>2. loaded' \in BOOLEAN /\ pinned' \in BOOLEAN
    BY <1>2 DEF ChoiceTypeOK, ChoiceNext, Settle, ServerNext, ServerRobot, Greeted, Polled,
                ServerState, Pick, Exit, Load
  <2> QED BY <2>1, <2>2 DEF ChoiceTypeOK
<1> QED BY <1>1, <1>2, ChoiceIsMade
-----------------------------------------------------------------------------
(* The camera's pictures.  A frame is stored before it is marked, so the   *)
(* latest of each format is at least as new as any mark of that format, or *)
(* was forgotten.                                                          *)

LoopTyped ==
  \/ loop = AtRest
  \/ loop \in [at : {"adding", "lost"}, format : Format]
  \/ loop \in [at : {"looking"}, mark : 0 .. MaxFrames]

MarkingWhat == executor = "marking" => kinds # <<>>

FeedsTyped == FeedsTypeOK /\ LoopTyped /\ MarkingWhat

LEMMA FeedsTypedActs == FeedsTyped /\ FeedsNext => FeedsTyped'
<1> SUFFICES ASSUME FeedsTyped, FeedsNext PROVE FeedsTyped'
  OBVIOUS
<1>1. Empty \in FiledPicture /\ MaxFrames \in Nat
  BY FeedsAssumption DEF Empty, FiledPicture
<1>2. Target \in Format
  BY DEF Target, FeedsTyped, FeedsTypeOK, Format
<1>3. LoopTyped' => loop'.at \in {"idle", "adding", "lost", "looking"}
  BY DEF LoopTyped, AtRest
<1> USE DEF FeedsTyped, FeedsTypeOK, MarkingWhat
<1>4. ASSUME NEW kind \in Format, OnFrame(kind) PROVE FeedsTyped'
  <2>1. /\ UNCHANGED <<world, viewers, subscription, loop, marked, silent, cache>>
        /\ executor' = "marking" /\ Len(kinds) < MaxFrames /\ kinds' = Append(kinds, kind)
        /\ stored' = [stored EXCEPT ![kind] = Len(kinds) + 1]
    BY <1>4 DEF OnFrame, Serves, Stores, InOrder, subscription
  <2>2. kinds' \in Seq(Format) /\ Len(kinds') = Len(kinds) + 1 /\ Len(kinds) \in Nat
        /\ kinds' # <<>>
    BY <2>1, AppendProperties
  <2>3. Len(kinds') <= MaxFrames /\ stored' \in [Format -> 0 .. MaxFrames]
    BY <1>1, <2>1, <2>2
  <2>4. LoopTyped'
    BY <2>1 DEF LoopTyped, AtRest, Format
  <2> QED BY <1>3, <2>1, <2>2, <2>3, <2>4 DEF world, viewers, subscription, FiledPicture, Format
<1>5. CASE MarkFrame
  <2>1. /\ UNCHANGED <<world, viewers, tracked, subs, untracked, kinds, loop, stored, cache>>
        /\ executor = "marking" /\ executor' = "idle" /\ marked' = Len(kinds)
        /\ topic' = kinds[Len(kinds)] /\ silent' = FALSE
    BY <1>5 DEF MarkFrame, Serves, Stores, InOrder
  <2>2. marked' \in 0 .. MaxFrames /\ topic' \in Format
    <3>1. Len(kinds) \in Nat \ {0} /\ Len(kinds) <= MaxFrames
      BY <2>1
    <3>2. Len(kinds) \in DOMAIN kinds
      BY <3>1
    <3> QED BY <1>1, <2>1, <3>1, <3>2
  <2>3. LoopTyped'
    BY <2>1 DEF LoopTyped, AtRest, Format
  <2> QED BY <1>3, <2>1, <2>2, <2>3 DEF world, viewers, FiledPicture, Format
<1>6. CASE SyncRead \/ SyncPop \/ SyncEnsure
  <2>1. /\ UNCHANGED <<world, chosen, untracked, loop, pictures, cache>>
        /\ executor' \in {"idle", "popping", "wanted", "unwanted"}
        /\ interest' \in {interest, FALSE}
        /\ tracked' \in {tracked, TRUE} /\ topic' \in {topic, Target}
        /\ subs' \in {subs, subs \cup {Target}}
    BY <1>6 DEF SyncRead, SyncPop, SyncEnsure, Serves, viewers, subscription
  <2>2. LoopTyped'
    BY <2>1 DEF LoopTyped, AtRest, Format
  <2>3. subs' \subseteq Format /\ topic' \in Format \cup {"none"}
    BY <1>2, <2>1
  <2> QED BY <1>3, <2>1, <2>2, <2>3 DEF world, pictures, FiledPicture, Format
<1>7. CASE SyncDrop
  <2>1. /\ UNCHANGED <<world, viewers, untracked, marked, kinds, silent>>
        /\ executor' = "idle"
        /\ tracked' \in {tracked, FALSE} /\ subs' \in {subs, {}} /\ topic' \in {topic, "none"}
        /\ stored' \in {stored, [stored EXCEPT !["raw"] = 0]} /\ cache' \in {cache, Empty}
        /\ loop' = loop \/ (loop.at = "adding" /\ loop' = [loop EXCEPT !.at = "lost"])
    BY <1>7 DEF SyncDrop, Serves
  <2>2. LoopTyped'
    BY <2>1 DEF LoopTyped, AtRest, Format
  <2>3. stored' \in [Format -> 0 .. MaxFrames]
    BY <1>1, <2>1
  <2> QED BY <1>1, <1>3, <2>1, <2>2, <2>3 DEF world, viewers, FiledPicture, Format
<1>8. CASE MarkInterest \/ SetActive \/ OnActiveRobot \/ Expire \/ Silence
           \/ \E kind \in Format : Publishes(kind)
  <2>1. UNCHANGED <<mute, subscription, executor, loop, stored, marked, kinds, cache>>
    BY <1>8 DEF MarkInterest, SetActive, OnActiveRobot, Publishes, Expire, Silence, Outside,
                world, pictures
  <2>2. advertised' \subseteq Format /\ {chosen', interest', silent'} \subseteq BOOLEAN
    BY <1>8 DEF MarkInterest, SetActive, OnActiveRobot, Publishes, Expire, Silence, Interested,
                world, viewers, pictures
  <2>3. LoopTyped'
    BY <2>1 DEF LoopTyped, AtRest, Format
  <2> QED BY <1>3, <2>1, <2>2, <2>3 DEF subscription, FiledPicture, Format
<1>9. CASE CameraHealth \/ Added
  <2>1. /\ UNCHANGED <<world, viewers, tracked, executor, pictures, cache>>
        /\ topic' \in {topic, Target}
    BY <1>9 DEF CameraHealth, Added
  <2>2. subs' \subseteq Format /\ untracked' \subseteq Format
    BY <1>2, <1>9 DEF CameraHealth, Added, LoopTyped, AtRest
  <2>3. LoopTyped'
    BY <1>2, <1>9 DEF CameraHealth, Added, LoopTyped, AtRest, Format
  <2>4. topic' \in Format \cup {"none"}
    BY <1>2, <2>1
  <2> QED BY <1>3, <2>1, <2>2, <2>3, <2>4 DEF world, viewers, pictures, FiledPicture, Format
<1>10. CASE Look \/ Decode
  <2>1. UNCHANGED <<world, viewers, subscription, executor, pictures>>
    BY <1>10 DEF Look, Decode
  <2>2. ASSUME NEW n \in ToDecode \cup {0} PROVE n \in 0 .. MaxFrames
    BY <1>1, <2>2 DEF ToDecode, Format
  <2>3. loop.at = "looking" => loop.mark \in 0 .. MaxFrames
    BY DEF LoopTyped, AtRest
  <2>4. cache' \in FiledPicture
    BY <1>10, <2>2, <2>3 DEF Look, Decode, FiledPicture
  <2>5. LoopTyped'
    BY <1>10 DEF Look, Decode, LoopTyped, AtRest, Format
  <2> QED BY <1>3, <2>1, <2>4, <2>5 DEF world, viewers, subscription, pictures, FiledPicture, Format
<1> QED BY <1>4, <1>5, <1>6, <1>7, <1>8, <1>9, <1>10 DEF FeedsNext, ExecutorNext

\* What is kept of each format, and what a viewer looks at, came in this order.
KeptAreLatest ==
  /\ marked <= Len(kinds)
  /\ \A f \in Format : stored[f] > 0 => stored[f] <= Len(kinds) /\ kinds[stored[f]] = f
  /\ \A i \in 1 .. Len(kinds) : stored[kinds[i]] = 0 \/ stored[kinds[i]] >= i

FiledInOrder ==
  \/ cache = Empty
  \/ /\ cache.picture \in 1 .. Len(kinds) /\ cache.mark \in 1 .. Len(kinds)
     /\ kinds[cache.picture] = kinds[cache.mark] => cache.picture >= cache.mark

LooksAtMark == loop.at = "looking" => loop.mark \in 1 .. Len(kinds)

FeedsInv == FeedsTyped /\ KeptAreLatest /\ LooksAtMark /\ FiledInOrder

LEMMA OnFrameKeeps ==
  ASSUME FeedsInv, NEW kind \in Format, OnFrame(kind)
  PROVE  KeptAreLatest' /\ LooksAtMark' /\ FiledInOrder'
<1> DEFINE n == Len(kinds)
<1>1. /\ UNCHANGED <<loop, marked, cache>> /\ kinds' = Append(kinds, kind)
      /\ stored' = [stored EXCEPT ![kind] = n + 1]
  BY DEF OnFrame, Stores, InOrder
<1>2. /\ n \in Nat /\ Len(kinds') = n + 1 /\ kinds'[n + 1] = kind
      /\ \A i \in 1 .. n : kinds'[i] = kinds[i] /\ kinds[i] \in Format
  BY <1>1, AppendProperties DEF FeedsInv, FeedsTyped, FeedsTypeOK
<1>3. stored \in [Format -> Nat] /\ marked \in Nat /\ cache.picture \in Nat /\ cache.mark \in Nat
  BY DEF FeedsInv, FeedsTyped, FeedsTypeOK, FiledPicture
<1> HIDE DEF n
<1>4. \A i \in 1 .. n + 1 : i = n + 1 \/ i \in 1 .. n
  BY <1>2
<1>5. \A f \in Format : stored'[f] = IF f = kind THEN n + 1 ELSE stored[f]
  BY <1>1, <1>3
<1>6. /\ marked <= n
      /\ \A f \in Format : stored[f] > 0 => stored[f] <= n /\ kinds[stored[f]] = f
      /\ \A i \in 1 .. n : stored[kinds[i]] = 0 \/ stored[kinds[i]] >= i
  BY DEF FeedsInv, KeptAreLatest, n
<1>7. \A f \in Format : stored'[f] > 0 => stored'[f] <= n + 1 /\ kinds'[stored'[f]] = f
  <2> SUFFICES ASSUME NEW f \in Format, stored'[f] > 0
               PROVE  stored'[f] <= n + 1 /\ kinds'[stored'[f]] = f
    OBVIOUS
  <2>1. CASE f = kind
    BY <1>2, <1>5, <2>1
  <2>2. CASE f # kind
    <3>1. stored'[f] = stored[f] /\ stored[f] \in 1 .. n /\ kinds[stored[f]] = f
      BY <1>2, <1>3, <1>5, <1>6, <2>2
    <3> QED BY <1>2, <3>1
  <2> QED BY <2>1, <2>2
<1>8. \A i \in 1 .. n + 1 : stored'[kinds'[i]] = 0 \/ stored'[kinds'[i]] >= i
  <2> SUFFICES ASSUME NEW i \in 1 .. n + 1
               PROVE  stored'[kinds'[i]] = 0 \/ stored'[kinds'[i]] >= i
    OBVIOUS
  <2>1. CASE kinds'[i] = kind
    BY <1>2, <1>5, <2>1
  <2>2. CASE kinds'[i] # kind
    <3>1. i \in 1 .. n /\ kinds'[i] = kinds[i] /\ kinds[i] \in Format
      BY <1>2, <1>4, <2>2
    <3> QED BY <1>5, <1>6, <2>2, <3>1
  <2> QED BY <2>1, <2>2
<1>9. KeptAreLatest'
  BY <1>1, <1>2, <1>3, <1>6, <1>7, <1>8 DEF KeptAreLatest
<1>10. LooksAtMark'
  BY <1>1, <1>2 DEF FeedsInv, LooksAtMark, n
<1>11. FiledInOrder'
  BY <1>1, <1>2 DEF FeedsInv, FiledInOrder, Empty, n
<1> QED BY <1>9, <1>10, <1>11

\* What is decoded is the latest of its format, so no older than the mark if that
\* is of the same format.
LEMMA DecodeKeeps ==
  ASSUME FeedsInv, Decode
  PROVE  KeptAreLatest' /\ LooksAtMark' /\ FiledInOrder'
<1>1. /\ loop.at = "looking" /\ loop' = AtRest /\ UNCHANGED <<stored, marked, kinds>>
      /\ \E n \in ToDecode \cup {0} :
           cache' = IF n > 0 THEN [picture |-> n, mark |-> loop.mark] ELSE cache
  BY DEF Decode, pictures
<1>2. KeptAreLatest' /\ LooksAtMark'
  BY <1>1 DEF FeedsInv, KeptAreLatest, LooksAtMark, AtRest
<1>3. PICK n \in ToDecode \cup {0} :
        cache' = IF n > 0 THEN [picture |-> n, mark |-> loop.mark] ELSE cache
  BY <1>1
<1>4. CASE ~(n > 0)
  BY <1>1, <1>2, <1>3, <1>4 DEF FeedsInv, FiledInOrder
<1>5. CASE n > 0
  <2> DEFINE m == loop.mark
  <2>1. cache'.picture = n /\ cache'.mark = m
    BY <1>3, <1>5
  <2>2. PICK f \in Format : n = stored[f]
    BY <1>3, <1>5 DEF ToDecode, Format
  <2>3. /\ Len(kinds) \in Nat /\ stored[f] \in Nat /\ m \in 1 .. Len(kinds)
        /\ \A i \in 1 .. Len(kinds) : kinds[i] \in Format
    BY <1>1 DEF FeedsInv, FeedsTyped, FeedsTypeOK, LooksAtMark
  <2>4. n \in 1 .. Len(kinds) /\ kinds[n] = f
    BY <1>5, <2>2, <2>3 DEF FeedsInv, KeptAreLatest
  <2>5. kinds[m] = f => n >= m
    BY <1>5, <2>2, <2>3 DEF FeedsInv, KeptAreLatest
  <2> HIDE DEF m
  <2> QED BY <1>1, <1>2, <2>1, <2>3, <2>4, <2>5 DEF FiledInOrder
<1> QED BY <1>4, <1>5

LEMMA FeedsActs == FeedsInv /\ FeedsNext => FeedsInv'
<1> SUFFICES ASSUME FeedsInv, FeedsNext PROVE KeptAreLatest' /\ LooksAtMark' /\ FiledInOrder'
  BY FeedsTypedActs DEF FeedsInv
<1>1. ASSUME NEW kind \in Format, OnFrame(kind)
      PROVE  KeptAreLatest' /\ LooksAtMark' /\ FiledInOrder'
  BY <1>1, OnFrameKeeps
<1>2. CASE MarkFrame
  <2>1. marked' = Len(kinds) /\ UNCHANGED <<stored, kinds, loop, cache>>
    BY <1>2 DEF MarkFrame, Stores, InOrder
  <2>2. Len(kinds) \in Nat
    BY DEF FeedsInv, FeedsTyped, FeedsTypeOK
  <2> QED BY <2>1, <2>2 DEF FeedsInv, KeptAreLatest, LooksAtMark, FiledInOrder
<1>3. CASE SyncDrop
  <2>1. /\ UNCHANGED <<marked, kinds>> /\ cache' \in {cache, Empty}
        /\ stored' \in {stored, [stored EXCEPT !["raw"] = 0]}
        /\ loop' = loop \/ (loop.at = "adding" /\ loop' = [loop EXCEPT !.at = "lost"])
    BY <1>3 DEF SyncDrop
  <2>2. loop' = loop \/ loop'.at # "looking"
    BY <2>1 DEF FeedsInv, FeedsTyped, LoopTyped, AtRest
  <2>3. \A f \in Format : stored'[f] = stored[f] \/ stored'[f] = 0
    BY <2>1 DEF FeedsInv, FeedsTyped, FeedsTypeOK
  <2>4. \A i \in 1 .. Len(kinds) : kinds[i] \in Format
    BY DEF FeedsInv, FeedsTyped, FeedsTypeOK
  <2>5. KeptAreLatest'
    BY <2>1, <2>3, <2>4 DEF FeedsInv, KeptAreLatest
  <2> QED BY <2>1, <2>2, <2>5 DEF FeedsInv, LooksAtMark, FiledInOrder
<1>4. CASE Look
  <2>1. /\ UNCHANGED <<stored, marked, kinds, cache>> /\ marked > 0
        /\ loop' = [at |-> "looking", mark |-> marked]
    BY <1>4 DEF Look, pictures
  <2>2. marked \in Nat /\ Len(kinds) \in Nat /\ marked <= Len(kinds)
    BY DEF FeedsInv, FeedsTyped, FeedsTypeOK, KeptAreLatest
  <2> QED BY <2>1, <2>2 DEF FeedsInv, KeptAreLatest, LooksAtMark, FiledInOrder
<1>5. CASE Decode
  BY <1>5, DecodeKeeps
<1>6. CASE UNCHANGED <<stored, marked, kinds, cache>> /\ (loop' = loop \/ loop'.at # "looking")
  BY <1>6 DEF FeedsInv, KeptAreLatest, LooksAtMark, FiledInOrder
<1>7. \/ \E kind \in Format : OnFrame(kind)
      \/ MarkFrame \/ SyncDrop \/ Look \/ Decode
      \/ /\ UNCHANGED <<stored, marked, kinds, cache>>
         /\ loop' = loop \/ loop'.at # "looking"
  BY DEF FeedsNext, ExecutorNext, SyncRead, SyncPop, SyncEnsure, OnActiveRobot, MarkInterest,
         SetActive, CameraHealth, Added, Publishes, Expire, Silence, Outside, pictures, AtRest
<1> QED BY <1>1, <1>2, <1>3, <1>4, <1>5, <1>6, <1>7

LEMMA FeedsStart == Init => FeedsInv
<1> SUFFICES ASSUME Init PROVE FeedsInv
  OBVIOUS
<1>1. FeedsInit
  BY DEF Init
<1>2. Empty \in FiledPicture /\ 0 \in 0 .. MaxFrames /\ MaxFrames \in Nat
  BY FeedsAssumption DEF Empty, FiledPicture
<1>3. LoopTyped /\ loop.at = "idle"
  BY <1>1 DEF FeedsInit, LoopTyped, AtRest
<1>4. FeedsTyped
  <2>1. kinds \in Seq(Format) /\ Len(kinds) <= MaxFrames
    BY <1>1, <1>2 DEF FeedsInit
  <2>2. executor = "idle" /\ cache \in FiledPicture /\ marked \in 0 .. MaxFrames
        /\ stored \in [Format -> 0 .. MaxFrames]
    BY <1>1, <1>2 DEF FeedsInit
  <2>3. /\ mute \subseteq Format /\ advertised \subseteq Format
        /\ topic \in Format \cup {"none"}
        /\ {chosen, interest, tracked, silent} \subseteq BOOLEAN
        /\ subs \subseteq Format /\ untracked \subseteq Format
    BY <1>1 DEF FeedsInit, Format
  <2> QED BY <1>3, <2>1, <2>2, <2>3 DEF FeedsTyped, FeedsTypeOK, MarkingWhat
<1> QED BY <1>1, <1>3, <1>4 DEF FeedsInit, FeedsInv, KeptAreLatest, LooksAtMark, FiledInOrder

LEMMA FeedsStep == FeedsInv /\ [Next]_vars => FeedsInv'
<1> SUFFICES ASSUME FeedsInv, [Next]_vars PROVE FeedsInv'
  OBVIOUS
<1>1. CASE UNCHANGED feedVars
  <2>1. UNCHANGED <<mute, advertised, chosen, interest, tracked, subs, untracked, topic,
                    executor, loop, stored, marked, kinds, silent, cache>>
    BY <1>1 DEF feedVars, world, viewers, subscription, pictures
  <2> QED BY <2>1 DEF FeedsInv, FeedsTyped, FeedsTypeOK, LoopTyped, MarkingWhat, AtRest, Format,
                      FiledPicture, KeptAreLatest, LooksAtMark, FiledInOrder
<1> QED BY <1>1, Steps, FeedsActs

\* However frames, looks at them, decoding and dropped subscriptions overlap: no
\* picture is filed under the time of a later frame of its format (latest_rgb,
\* _mark_frame, _drop_image_subscription).
THEOREM PicturesAreAsNewAsTheirTime == Spec => []SeenIsCurrent
<1>1. FeedsInv => SeenIsCurrent
  BY DEF FeedsInv, FiledInOrder, SeenIsCurrent
<1> QED BY <1>1, FeedsStart, FeedsStep, PTL DEF Spec
-----------------------------------------------------------------------------
(* Driving from the page.  Only the robot in use moves, only while one of  *)
(* the holds does, and a hold is something the operator holds down and was *)
(* not away from since; but for a key whose release was not seen, and a    *)
(* robot that had left the list.                                           *)

HandlersTyped ==
  /\ down \subseteq Holds /\ missed \subseteq Shifted
  /\ holds \in Seq(Holds) /\ IsInjective(holds)
  /\ away \in {"no", "blurred", "hidden"}
  /\ socket \in {"connecting", "open", "closed"}
  /\ taken \subseteq Robot
  /\ sent \in [Robot -> Twist \cup {"none"}]
  /\ lost \subseteq Robot

\* What the page sent to robot r is still what it moves by.
InUse(r) == r = activeRobot /\ r \in Operable /\ Heeded(r)

MovedByAHold ==
  \A r \in Robot : sent[r] = "moving" => r \in lost \/ (InUse(r) /\ holds # <<>>)

HoldsAreHeld ==
  /\ Range(holds) \subseteq down \cup missed
  /\ holds # <<>> =>
       part = "drive" /\ away = "no" /\ loaded /\ MayDrive(activeRobot, listed)

DriveInv == ChoiceTypeOK /\ HandlersTyped /\ MovedByAHold /\ HoldsAreHeld

LEMMA RemainingHolds ==
  ASSUME holds \in Seq(Holds), IsInjective(holds), NEW over
  PROVE  /\ Remaining(over) \in Seq(Holds) /\ IsInjective(Remaining(over))
         /\ Range(Remaining(over)) = Range(holds) \ over
<1> DEFINE each == [i \in DOMAIN holds |-> IF holds[i] \in over THEN <<>> ELSE <<holds[i]>>]
           R == {p \in Holds \X Holds : p[1] # p[2]}
<1>1. DOMAIN holds = 1 .. Len(holds) /\ Len(holds) \in Nat
      /\ \A i \in DOMAIN holds : holds[i] \in Holds
  OBVIOUS
<1>2. \A i \in DOMAIN holds :
        /\ each[i] \in Seq(Holds)
        /\ ToSet(each[i]) = {holds[i]} \ over
        /\ \A a, b \in DOMAIN each[i] : ~(a < b)
  <2> SUFFICES ASSUME NEW i \in DOMAIN holds
               PROVE  /\ each[i] \in Seq(Holds)
                      /\ ToSet(each[i]) = {holds[i]} \ over
                      /\ \A a, b \in DOMAIN each[i] : ~(a < b)
    OBVIOUS
  <2>1. CASE holds[i] \in over
    BY <2>1 DEF ToSet
  <2>2. CASE holds[i] \notin over
    <3>1. each[i] = <<holds[i]>> /\ DOMAIN <<holds[i]>> = {1}
      BY <2>2
    <3> QED BY <1>1, <2>2, <3>1 DEF ToSet
  <2> QED BY <2>1, <2>2
<1>3. each \in Seq(Seq(Holds)) /\ DOMAIN each = DOMAIN holds
  BY <1>1, <1>2
<1>4. Remaining(over) = FlattenSeq(each)
  BY DEF Remaining
<1> HIDE DEF each
<1>5. \A i \in DOMAIN each : Ordered(each[i], R)
  BY <1>2, <1>3 DEF Ordered
<1>6. \A i, j \in DOMAIN each : i < j =>
        \A x \in ToSet(each[i]), y \in ToSet(each[j]) : <<x, y>> \in R
  <2> SUFFICES ASSUME NEW i \in DOMAIN each, NEW j \in DOMAIN each, i < j,
                      NEW x \in ToSet(each[i]), NEW y \in ToSet(each[j])
               PROVE  <<x, y>> \in R
    OBVIOUS
  <2>1. x = holds[i] /\ y = holds[j] /\ x \in Holds /\ y \in Holds
    BY <1>1, <1>2, <1>3
  <2>2. i # j
    BY <1>1, <1>3
  <2>3. x # y
    BY <1>3, <2>1, <2>2 DEF IsInjective
  <2> QED BY <2>1, <2>3
<1>7. /\ FlattenSeq(each) \in Seq(Holds)
      /\ ToSet(FlattenSeq(each)) = UNION {ToSet(each[i]) : i \in DOMAIN each}
      /\ Ordered(FlattenSeq(each), R)
  BY <1>3, <1>5, <1>6, Flattened
<1> DEFINE rest == FlattenSeq(each)
<1>8. DOMAIN rest = 1 .. Len(rest) /\ Len(rest) \in Nat
  BY <1>7
<1> HIDE DEF rest
<1>9. IsInjective(rest)
  <2> SUFFICES ASSUME NEW a \in DOMAIN rest, NEW b \in DOMAIN rest, rest[a] = rest[b], a # b
               PROVE  FALSE
    BY DEF IsInjective
  <2>1. a < b \/ b < a
    BY <1>8
  <2>2. <<rest[a], rest[b]>> \in R \/ <<rest[b], rest[a]>> \in R
    BY <1>7, <2>1 DEF Ordered, rest
  <2> QED BY <2>2
<1>10. Range(rest) = Range(holds) \ over
  <2>1. Range(rest) = UNION {ToSet(each[i]) : i \in DOMAIN each}
    BY <1>7 DEF Range, ToSet, rest
  <2>2. UNION {ToSet(each[i]) : i \in DOMAIN each} = UNION {{holds[i]} \ over : i \in DOMAIN holds}
    BY <1>2, <1>3
  <2>3. \A x : x \in UNION {{holds[i]} \ over : i \in DOMAIN holds} <=> x \in Range(holds) \ over
    BY DEF Range
  <2> QED BY <2>1, <2>2, <2>3
<1> QED BY <1>4, <1>7, <1>9, <1>10 DEF rest

\* After a stop no robot moves but one that was not stopped.
LEMMA Stopped ==
  ASSUME DriveInv, NEW list, SendTo(activeRobot, "still", list)
  PROVE  /\ sent' \in [Robot -> Twist \cup {"none"}] /\ lost' \subseteq Robot
         /\ \A r \in Robot : sent'[r] = "moving" => r \in lost'
<1>1. CASE MayDrive(activeRobot, list) /\ Heeded(activeRobot)
  BY <1>1 DEF DriveInv, HandlersTyped, MovedByAHold, InUse, SendTo, Twist
<1>2. CASE ~(MayDrive(activeRobot, list) /\ Heeded(activeRobot))
  <2>1. /\ sent' = sent
        /\ lost' = lost \cup {q \in Robot \ list : q = activeRobot /\ sent[q] = "moving"}
    BY <1>2 DEF SendTo
  <2>2. ASSUME NEW r \in Robot, sent[r] = "moving" PROVE r \in lost'
    BY <1>2, <2>1, <2>2 DEF DriveInv, MovedByAHold, InUse, MayDrive
  <2> QED BY <2>1, <2>2 DEF DriveInv, HandlersTyped
<1> QED BY <1>1, <1>2

\* After a motion was sent the robot in use may move.
LEMMA Moving ==
  ASSUME DriveInv, Send("moving")
  PROVE  /\ sent' \in [Robot -> Twist \cup {"none"}] /\ lost' \subseteq Robot
         /\ \A r \in Robot : sent'[r] = "moving" => r \in lost' \/ InUse(r)
<1>1. CASE MayDrive(activeRobot, listed) /\ Heeded(activeRobot)
  BY <1>1 DEF DriveInv, HandlersTyped, MovedByAHold, InUse, MayDrive, Send, SendTo, Twist
<1>2. CASE ~(MayDrive(activeRobot, listed) /\ Heeded(activeRobot))
  BY <1>2 DEF DriveInv, HandlersTyped, MovedByAHold, Send, SendTo
<1> QED BY <1>1, <1>2

LEMMA NoHolds == <<>> \in Seq(Holds) /\ IsInjective(<<>>) /\ Range(<<>>) = {}
BY DEF IsInjective, Range

\* A step that changes neither the choice nor what decides whom the server heeds
\* keeps the invariant, if it keeps what it sent and the holds in step.
LEMMA HandlersKeep ==
  ASSUME DriveInv, part = "drive", UNCHANGED <<part, choice, socket, taken>>,
         HandlersTyped',
         \A r \in Robot : sent'[r] = "moving" => r \in lost' \/ (InUse(r) /\ holds' # <<>>),
         Range(holds') \subseteq down' \cup missed',
         holds' # <<>> => away' = "no" /\ loaded /\ MayDrive(activeRobot, listed)
  PROVE  DriveInv'
<1>1. ChoiceTypeOK'
  BY DEF DriveInv, ChoiceTypeOK, choice
<1>2. MovedByAHold'
  BY DEF MovedByAHold, InUse, Heeded, choice
<1>3. HoldsAreHeld'
  BY DEF HoldsAreHeld, MayDrive, choice
<1> QED BY <1>1, <1>2, <1>3 DEF DriveInv

LEMMA PressKeeps ==
  ASSUME DriveInv, part = "drive", UNCHANGED part, NEW h \in Holds, Press(h),
         (StartHold(h) /\ MayDrive(activeRobot, listed)) \/ Ignored
  PROVE  DriveInv'
<1>1. /\ HereNow /\ down' = down \cup {h} /\ missed' = missed \ {h}
      /\ UNCHANGED <<choice, away, socket, taken>>
  BY DEF Press
<1>2. CASE UNCHANGED <<holds, sent, lost>>
  <2>1. HandlersTyped' /\ Range(holds) \subseteq down' \cup missed'
    BY <1>1, <1>2 DEF DriveInv, HandlersTyped, HoldsAreHeld
  <2> QED BY <1>1, <1>2, <2>1, HandlersKeep DEF DriveInv, MovedByAHold, HoldsAreHeld
<1>3. CASE /\ h \notin Range(holds) /\ holds' = Append(holds, h) /\ Send("moving")
           /\ MayDrive(activeRobot, listed)
  <2>1. /\ holds \in Seq(Holds) /\ Len(holds) \in Nat /\ DOMAIN holds = 1 .. Len(holds)
        /\ DOMAIN holds' = 1 .. Len(holds) + 1 /\ holds'[Len(holds) + 1] = h
        /\ \A i \in DOMAIN holds : holds'[i] = holds[i]
        /\ holds' \in Seq(Holds) /\ holds' # <<>>
    BY <1>3 DEF DriveInv, HandlersTyped
  <2>2. \A i \in DOMAIN holds' : i \in DOMAIN holds \/ i = Len(holds) + 1
    BY <2>1
  <2>3. \A i \in DOMAIN holds : holds[i] # h
    BY <1>3 DEF Range
  <2>4. IsInjective(holds')
    BY <2>1, <2>2, <2>3 DEF DriveInv, HandlersTyped, IsInjective
  <2>5. Range(holds') \subseteq Range(holds) \cup {h}
    BY <2>1, <2>2 DEF Range
  <2>6. HandlersTyped'
    BY <1>1, <1>3, <2>1, <2>4, Moving DEF DriveInv, HandlersTyped
  <2>7. Range(holds') \subseteq down' \cup missed'
    BY <1>1, <2>5 DEF DriveInv, HoldsAreHeld
  <2>8. away' = "no" /\ loaded
    BY <1>1 DEF HereNow
  <2> QED BY <1>1, <1>3, <2>1, <2>6, <2>7, <2>8, Moving, HandlersKeep
<1> QED BY <1>2, <1>3 DEF StartHold, Ignored, told

LEMMA LetGoKeeps ==
  ASSUME DriveInv, part = "drive", UNCHANGED <<part, missed>>, NEW h \in Holds, Release(h),
         NEW over, h \in over, LetGo(over)
  PROVE  DriveInv'
<1>1. down' = down \ {h} /\ UNCHANGED <<choice, away, socket, taken>>
  BY DEF Release
<1>2. holds' = Remaining(over)
  BY DEF LetGo
<1>3. /\ holds' \in Seq(Holds) /\ IsInjective(holds')
      /\ Range(holds') = Range(holds) \ over
  BY <1>2, RemainingHolds DEF DriveInv, HandlersTyped
<1>4. holds' # <<>> => holds # <<>>
  BY <1>3, NoHolds DEF Range
<1>5. \/ holds' = <<>> /\ SendTo(activeRobot, "still", listed)
      \/ holds' # <<>> /\ (Send("moving") \/ UNCHANGED <<sent, lost>>)
  BY DEF LetGo, Send, told
<1>6. /\ sent' \in [Robot -> Twist \cup {"none"}] /\ lost' \subseteq Robot
      /\ \A r \in Robot : sent'[r] = "moving" => r \in lost' \/ (InUse(r) /\ holds' # <<>>)
  BY <1>5, Stopped, Moving DEF DriveInv, HandlersTyped, MovedByAHold
<1>7. HandlersTyped'
  BY <1>1, <1>3, <1>6 DEF DriveInv, HandlersTyped
<1>8. Range(holds') \subseteq down' \cup missed'
  BY <1>1, <1>3 DEF DriveInv, HoldsAreHeld
<1>9. holds' # <<>> => away' = "no" /\ loaded /\ MayDrive(activeRobot, listed)
  BY <1>1, <1>4 DEF DriveInv, HoldsAreHeld
<1> QED BY <1>1, <1>6, <1>7, <1>8, <1>9, HandlersKeep

\* A release that is ignored: there is no hold, or its key is missed.
LEMMA IgnoredKeeps ==
  ASSUME DriveInv, part = "drive", UNCHANGED part, NEW h \in Holds, Release(h), Ignored,
         \/ holds = <<>> /\ UNCHANGED missed
         \/ h \in Shifted /\ missed' = missed \cup {h}
  PROVE  DriveInv'
<1>1. /\ down' = down \ {h} /\ UNCHANGED <<choice, away, socket, taken, holds, sent, lost>>
  BY DEF Release, Ignored, told
<1>2. HandlersTyped'
  BY <1>1 DEF DriveInv, HandlersTyped
<1>3. Range(holds) \subseteq down' \cup missed'
  BY <1>1, NoHolds DEF DriveInv, HoldsAreHeld
<1> QED BY <1>1, <1>2, <1>3, HandlersKeep DEF DriveInv, MovedByAHold, HoldsAreHeld

LEMMA ReleaseKeeps ==
  ASSUME DriveInv, part = "drive", UNCHANGED part, NEW h \in Holds,
         ReleaseKey(h) \/ ReleaseShifted(h) \/ ReleaseButton(h)
  PROVE  DriveInv'
<1>1. CASE ReleaseKey(h)
  <2>1. ~(HereNow /\ MayDrive(activeRobot, listed)) => holds = <<>>
    BY DEF DriveInv, HoldsAreHeld, HereNow
  <2> QED BY <1>1, <2>1, LetGoKeeps, IgnoredKeeps DEF ReleaseKey
<1>2. CASE ReleaseShifted(h)
  BY <1>2, IgnoredKeeps DEF ReleaseShifted
<1>3. CASE ReleaseButton(h)
  <2>1. ~HereNow => holds = <<>>
    BY DEF DriveInv, HoldsAreHeld, HereNow
  <2> QED BY <1>3, <2>1, LetGoKeeps, IgnoredKeeps DEF ReleaseButton
<1> QED BY <1>1, <1>2, <1>3

\* A robot that stays in use stays in the list.
LEMMA TheRobotStaysListed ==
  ASSUME ChoiceNext, ~Changed, activeRobot \in listed, activeRobot # None
  PROVE  activeRobot' \in listed'
<1>1. CASE Settle \/ \E r \in Robot : Pick(r)
  BY <1>1 DEF Settle, Pick, Changed
<1>2. ASSUME NEW r \in Robot \cup {None}, ServerRobot(r) PROVE activeRobot' \in listed'
  BY <1>2 DEF ServerRobot, Changed
<1>3. ASSUME NEW r \in Robot \cup {None}, NEW available \in SUBSET Robot,
             NEW greeting \in BOOLEAN, ServerState(greeting, r, available)
      PROVE  activeRobot' \in listed'
  <2>1. PICK preferred \in {r, activeRobot} :
          \E next \in Reconciled(preferred, activeRobot, available) :
            IF next = activeRobot THEN TRUE
            ELSE activeRobot' = IF pinned' /\ activeRobot \in available
                                THEN activeRobot ELSE next
    BY <1>3 DEF ServerState
  <2>2. listed' = available /\ activeRobot' = activeRobot
    BY <1>3 DEF ServerState, Changed
  <2>3. CASE activeRobot \in available
    BY <2>2, <2>3
  <2>4. CASE activeRobot \notin available
    <3>1. PICK next \in Reconciled(preferred, activeRobot, available) :
            IF next = activeRobot THEN TRUE ELSE activeRobot' = next
      BY <2>1, <2>4
    <3>2. next = activeRobot
      BY <2>2, <3>1
    <3>3. next \in available \/ (available = {} /\ next = None)
      BY <2>4 DEF Reconciled
    <3> QED BY <2>4, <3>2, <3>3
  <2> QED BY <2>3, <2>4
<1> QED BY <1>1, <1>2, <1>3 DEF ChoiceNext, ServerNext, Greeted, Polled

LEMMA ChooseKeeps ==
  ASSUME DriveInv, ChoiceTypeOK', part = "drive", UNCHANGED part, Choose
  PROVE  DriveInv'
<1>1. /\ ChoiceNext /\ UNCHANGED <<down, missed, away, socket, taken>>
      /\ IF Changed THEN OldRobotStops ELSE UNCHANGED <<holds, sent, lost>>
  BY DEF Choose, Ignored, told
<1>2. CASE Changed
  <2>1. holds' = <<>> /\ SendTo(activeRobot, "still", listed')
    BY <1>1, <1>2 DEF OldRobotStops, StopAll
  <2>2. /\ sent' \in [Robot -> Twist \cup {"none"}] /\ lost' \subseteq Robot
        /\ \A r \in Robot : sent'[r] = "moving" => r \in lost'
    BY <2>1, Stopped
  <2>3. HandlersTyped'
    BY <1>1, <2>1, <2>2, NoHolds DEF DriveInv, HandlersTyped
  <2> QED BY <2>1, <2>2, <2>3, NoHolds DEF DriveInv, MovedByAHold, HoldsAreHeld
<1>3. CASE ~Changed
  <2>1. loaded' = loaded /\ activeRobot' = activeRobot
    BY <1>1, <1>3 DEF Changed, ChoiceNext, Settle, Pick, ServerNext, ServerRobot, Greeted,
                      Polled, ServerState
  <2>2. HandlersTyped' /\ MovedByAHold'
    BY <1>1, <1>3, <2>1 DEF DriveInv, HandlersTyped, MovedByAHold, InUse, Heeded
  <2>3. holds # <<>> => MayDrive(activeRobot', listed')
    <3>1. holds # <<>> => activeRobot \in listed /\ activeRobot \in Operable /\ activeRobot # None
      BY FleetAssumption, PageDriveAssumption DEF DriveInv, HoldsAreHeld, MayDrive
    <3> QED BY <1>1, <1>3, <2>1, <3>1, TheRobotStaysListed DEF MayDrive
  <2> QED BY <1>1, <1>3, <2>1, <2>2, <2>3 DEF DriveInv, HoldsAreHeld
<1> QED BY <1>2, <1>3

LEMMA DriveActs ==
  ASSUME DriveInv, ChoiceTypeOK', part = "drive", UNCHANGED part, DriveNext
  PROVE  DriveInv'
<1> USE NoHolds
<1>1. CASE HoldTick
  <2>1. HandlersTyped'
    BY <1>1, Moving DEF HoldTick, DriveInv, HandlersTyped
  <2> QED BY <1>1, <2>1, Moving, HandlersKeep DEF HoldTick, DriveInv, HoldsAreHeld
<1>2. CASE StopHolds \/ ScreenStop \/ \E how \in {"blurred", "hidden"} : Leave(how)
  <2>1. /\ SendTo(activeRobot, "still", listed)
        /\ UNCHANGED <<choice, down, missed, socket, taken>>
        /\ \/ holds' = <<>> /\ away' \in {"no", "blurred", "hidden"}
           \/ UNCHANGED <<holds, away>>
    BY <1>2 DEF StopHolds, ScreenStop, Leave, LeaveHolds, StopAll, Send, DriveInv, HandlersTyped
  <2>2. /\ sent' \in [Robot -> Twist \cup {"none"}] /\ lost' \subseteq Robot
        /\ \A r \in Robot : sent'[r] = "moving" => r \in lost'
    BY <2>1, Stopped
  <2>3. HandlersTyped' /\ Range(holds') \subseteq down' \cup missed'
    BY <2>1, <2>2 DEF DriveInv, HandlersTyped, HoldsAreHeld
  <2> QED BY <2>1, <2>2, <2>3, HandlersKeep DEF DriveInv, HoldsAreHeld
<1>3. CASE Return \/ Opened
  <2>1. /\ UNCHANGED <<choice, down, missed, holds, taken, sent, lost>>
        /\ \/ away' = "no" /\ UNCHANGED socket
           \/ socket = "connecting" /\ socket' = "open" /\ UNCHANGED away
    BY <1>3 DEF Return, Opened, told
  <2> QED BY <2>1 DEF DriveInv, ChoiceTypeOK, HandlersTyped, MovedByAHold, HoldsAreHeld, InUse,
                      Heeded, MayDrive, choice
<1>4. CASE Closed \/ PageExit
  <2>1. /\ socket' = "closed" /\ sent' = Nothing /\ lost' = {}
        /\ UNCHANGED <<down, missed, away, taken>>
        /\ holds' = <<>> \/ UNCHANGED <<holds, choice>>
    BY <1>4 DEF Closed, PageExit
  <2>2. HandlersTyped' /\ MovedByAHold'
    BY <2>1 DEF DriveInv, HandlersTyped, MovedByAHold, Nothing
  <2> QED BY <2>1, <2>2 DEF DriveInv, HoldsAreHeld, MayDrive, choice
<1>5. CASE Choose
  BY <1>5, ChooseKeeps
<1>6. CASE PageLoad
  <2>1. /\ ~loaded /\ UNCHANGED <<down, missed, holds, away, sent, lost>>
        /\ socket' = "connecting" /\ taken' \subseteq Robot
    BY <1>6 DEF PageLoad, Load, told
  <2>2. holds = <<>>
    BY <2>1 DEF DriveInv, HoldsAreHeld
  <2> QED BY <2>1, <2>2 DEF DriveInv, HandlersTyped, MovedByAHold, HoldsAreHeld
<1>7. ASSUME NEW others \in SUBSET Robot, LockUpdate(others) PROVE DriveInv'
  <2>1. /\ taken' = others /\ lost' = lost \ others
        /\ sent' = [r \in Robot |-> IF r \in others THEN "none" ELSE sent[r]]
        /\ UNCHANGED <<choice, down, missed, holds, away, socket>>
    BY <1>7 DEF LockUpdate
  <2>2. HandlersTyped' /\ MovedByAHold'
    BY <2>1 DEF DriveInv, HandlersTyped, MovedByAHold, InUse, Heeded, choice
  <2> QED BY <2>1, <2>2 DEF DriveInv, HoldsAreHeld, MayDrive, choice
<1>8. ASSUME NEW h \in Holds, PressKey(h) \/ PressOther(h) \/ PressButton(h) PROVE DriveInv'
  BY <1>8, PressKeeps DEF PressKey, PressOther, PressButton
<1>9. ASSUME NEW h \in Holds, ReleaseKey(h) \/ ReleaseShifted(h) \/ ReleaseButton(h)
      PROVE  DriveInv'
  BY <1>9, ReleaseKeeps
<1> QED BY <1>1, <1>2, <1>3, <1>4, <1>5, <1>6, <1>7, <1>8, <1>9 DEF DriveNext, Holds

LEMMA DriveStart == Init => DriveInv
<1> SUFFICES ASSUME Init PROVE DriveInv
  OBVIOUS
<1>1. DriveInit /\ ChoiceInit
  BY DEF Init, DriveInit
<1>2. ChoiceTypeOK
  BY <1>1 DEF ChoiceInit, ChoiceTypeOK
<1>3. HandlersTyped /\ MovedByAHold /\ HoldsAreHeld
  BY <1>1, NoHolds DEF DriveInit, Nothing, HandlersTyped, MovedByAHold, HoldsAreHeld
<1> QED BY <1>2, <1>3 DEF DriveInv

LEMMA DriveStep == DriveInv /\ [Next]_vars => DriveInv'
<1> SUFFICES ASSUME DriveInv, [Next]_vars PROVE DriveInv'
  OBVIOUS
<1>1. ChoiceTypeOK'
  BY ChoiceIsTyped DEF DriveInv
<1>2. CASE part = "drive" /\ DriveNext
  BY <1>1, <1>2, Steps, DriveActs
<1>3. CASE UNCHANGED handlers /\ UNCHANGED choice
  BY <1>1, <1>3, Steps DEF DriveInv, HandlersTyped, MovedByAHold, HoldsAreHeld, InUse, Heeded,
                           MayDrive, handlers, told, choice
<1>4. CASE UNCHANGED handlers /\ part # "drive"
  BY <1>1, <1>4, Steps DEF DriveInv, HandlersTyped, MovedByAHold, HoldsAreHeld, handlers, told
<1>5. part = "drive" => DriveNext \/ (UNCHANGED handlers /\ UNCHANGED choice)
  BY DEF Next, Page, vars, handlers
<1> QED BY <1>2, <1>3, <1>4, <1>5, Steps

\* Whatever is pressed, let go, locked or chosen in between: a robot moves by the
\* page only while the operator is there and holds something down, or missed its
\* release under Shift, or the robot was off the list when it was to be stopped
\* (stopAllDriveHolds, setActiveRobot, stopDriveHold, canControlRobot).
THEOREM NothingMovesUnheld == Spec => []ReleasedMeansStopped
<1>1. DriveInv => ReleasedMeansStopped
  BY DEF DriveInv, MovedByAHold, HoldsAreHeld, ReleasedMeansStopped
<1> QED BY <1>1, DriveStart, DriveStep, PTL DEF Spec
-----------------------------------------------------------------------------
(* The peers.  That one client's do not disturb another's rests on whose a *)
(* peer is: it takes itself out of the map only under the client it was    *)
(* made for, and a number is used anew only when no client's newest peer   *)
(* has it.                                                                 *)

\* A closed peer, a client's newest, are somebody's.
Owned ==
  /\ \A p \in closed : owner[p] # "nobody"
  /\ \A c \in Client : newest[c] # NoPeer => owner[newest[c]] = c

\* The inductive invariant.
PeersInv == PeersTypeOK /\ Owned /\ PeersAreTracked

LEMMA Numbers ==
  /\ Peers \in Nat /\ Waiting \in Nat /\ "nobody" \notin Client
  /\ NoPeer \notin Peer /\ Peer \subseteq Nat
BY PeersAssumption DEF Peer, NoPeer

LEMMA PeersStart == PeersInit => PeersInv
BY Numbers DEF PeersInit, PeersInv, PeersTypeOK, Owned, PeersAreTracked

\* A client's peer is the newest made for it, is open and its own.
LEMMA MappedIsOwned ==
  ASSUME PeersInv, NEW c \in Client, mapped[c] # NoPeer
  PROVE  /\ mapped[c] = newest[c] /\ mapped[c] \in registered
         /\ mapped[c] \in Peer \ closed /\ owner[mapped[c]] = c
BY Numbers DEF PeersInv, PeersTypeOK, Owned, PeersAreTracked

\* Closing a peer is the same for a client's newest peer and for an older one.
LEMMA CloseKeeps ==
  ASSUME PeersInv, NEW p \in Peer, owner[p] # "nobody", Close(p),
         offers' \in [Client -> 0 .. Waiting], UNCHANGED <<owner, newest>>
  PROVE  PeersInv'
<1>1. owner[p] \in Client
  BY DEF PeersInv, PeersTypeOK
<1>2. CASE p \in closed
  <2>1. closed' = closed /\ UNCHANGED <<registered, mapped>>
    BY <1>2 DEF Close
  <2> QED BY <2>1 DEF PeersInv, PeersTypeOK, Owned, PeersAreTracked
<1>3. CASE p \notin closed
  <2>1. /\ closed' = closed \cup {p} /\ registered' = registered \ {p}
        /\ mapped' = Without(p, owner[p])
    BY <1>3 DEF Close
  <2>2. PeersTypeOK'
    BY <1>1, <2>1 DEF PeersInv, PeersTypeOK, Without
  <2>3. Owned'
    BY <2>1 DEF PeersInv, Owned
  <2>4. registered' = {q \in Peer : owner'[q] # "nobody"} \ closed'
    BY <2>1 DEF PeersInv, PeersAreTracked
  <2>5. ASSUME NEW c \in Client
        PROVE  IF newest[c] \in registered' THEN mapped'[c] = newest[c]
               ELSE mapped'[c] = NoPeer
    <3>1. CASE newest[c] = p
      <4>1. owner[p] = c /\ p \in registered /\ mapped[c] = p
        BY <1>3, <3>1, Numbers DEF PeersInv, Owned, PeersAreTracked
      <4>2. mapped'[c] = NoPeer
        BY <2>1, <4>1 DEF Without, PeersInv, PeersTypeOK
      <4> QED BY <2>1, <3>1, <4>2
    <3>2. CASE newest[c] # p
      <4>1. mapped[c] # p
        BY <3>2, Numbers DEF PeersInv, PeersAreTracked
      <4>2. mapped'[c] = mapped[c]
        BY <2>1, <4>1 DEF Without, PeersInv, PeersTypeOK
      <4> QED BY <2>1, <3>2, <4>2 DEF PeersInv, PeersAreTracked
    <3> QED BY <3>1, <3>2
  <2>6. PeersAreTracked'
    BY <2>4, <2>5 DEF PeersAreTracked
  <2> QED BY <2>2, <2>3, <2>6 DEF PeersInv
<1> QED BY <1>2, <1>3

LEMMA PeersActs == PeersInv /\ PeersNext => PeersInv'
<1> SUFFICES ASSUME PeersInv, PeersNext PROVE PeersInv'
  OBVIOUS
<1>1. ASSUME NEW p \in Peer, PeerFails(p) PROVE PeersInv'
  BY <1>1, CloseKeeps DEF PeerFails, PeersInv, PeersTypeOK
<1>2. ASSUME NEW p \in Peer, PeerGone(p) PROVE PeersInv'
  <2>1. /\ p \in closed /\ closed' = closed \ {p}
        /\ owner' = [owner EXCEPT ![p] = "nobody"]
        /\ newest' = [c \in Client |-> IF newest[c] = p THEN NoPeer ELSE newest[c]]
        /\ UNCHANGED <<registered, mapped, offers>>
    BY <1>2 DEF PeerGone
  <2>2. PeersTypeOK'
    BY <2>1 DEF PeersInv, PeersTypeOK
  <2>3. Owned'
    BY <2>1 DEF PeersInv, PeersTypeOK, Owned
  <2>4. p \notin registered
    BY <2>1 DEF PeersInv, PeersAreTracked
  <2>5. PeersAreTracked'
    BY <2>1, <2>4, Numbers DEF PeersInv, PeersTypeOK, PeersAreTracked
  <2> QED BY <2>2, <2>3, <2>5 DEF PeersInv
<1>3. ASSUME NEW p \in Peer, NEW c \in Client, Register(c, p) PROVE PeersInv'
  <2>1. /\ offers[c] > 0 /\ owner[p] = "nobody"
        /\ offers' = [offers EXCEPT ![c] = @ - 1]
        /\ owner' = [owner EXCEPT ![p] = c]
        /\ registered' = registered \cup {p}
        /\ mapped' = [mapped EXCEPT ![c] = p] /\ newest' = [newest EXCEPT ![c] = p]
        /\ UNCHANGED closed
    BY <1>3 DEF Register
  <2>2. offers[c] - 1 \in 0 .. Waiting
    BY <2>1, Numbers DEF PeersInv, PeersTypeOK
  <2>3. PeersTypeOK'
    BY <2>1, <2>2 DEF PeersInv, PeersTypeOK
  <2>4. p \notin closed /\ p \notin registered
    BY <2>1 DEF PeersInv, Owned, PeersAreTracked
  <2>5. \A d \in Client : newest[d] # p
    BY <2>1, Numbers DEF PeersInv, Owned
  <2>6. Owned'
    BY <2>1, <2>4, <2>5, Numbers DEF PeersInv, PeersTypeOK, Owned
  <2>7. PeersAreTracked'
    BY <2>1, <2>4, <2>5, Numbers DEF PeersInv, PeersTypeOK, PeersAreTracked
  <2> QED BY <2>3, <2>6, <2>7 DEF PeersInv
<1>4. ASSUME NEW c \in Client, Offer(c) PROVE PeersInv'
  <2>1. /\ offers[c] < Waiting /\ offers' = [offers EXCEPT ![c] = @ + 1]
        /\ UNCHANGED <<owner, newest>>
    BY <1>4 DEF Offer
  <2>2. offers' \in [Client -> 0 .. Waiting]
    BY <2>1, Numbers DEF PeersInv, PeersTypeOK
  <2>3. CASE mapped[c] = NoPeer
    <3>1. UNCHANGED <<closed, registered, mapped>>
      BY <1>4, <2>3 DEF Offer
    <3> QED BY <2>1, <2>2, <3>1 DEF PeersInv, PeersTypeOK, Owned, PeersAreTracked
  <2>4. CASE mapped[c] # NoPeer
    <3>1. Close(mapped[c])
      BY <1>4, <2>4 DEF Offer
    <3>2. mapped[c] \in Peer /\ owner[mapped[c]] # "nobody"
      BY <2>4, MappedIsOwned, Numbers
    <3> QED BY <2>1, <2>2, <3>1, <3>2, CloseKeeps
  <2> QED BY <2>3, <2>4
<1>5. ASSUME NEW c \in Client, SocketEnds(c) PROVE PeersInv'
  <2> DEFINE p == mapped[c]
  <2>1. /\ p # NoPeer /\ p \in registered /\ p \in Peer \ closed /\ owner[p] = c
    BY <1>5, MappedIsOwned DEF SocketEnds
  <2>2. /\ closed' = closed \cup {p} /\ registered' = registered \ {p}
        /\ mapped' = [mapped EXCEPT ![c] = NoPeer]
        /\ UNCHANGED <<owner, offers, newest>>
    BY <1>5, <2>1 DEF SocketEnds
  <2>3. Without(p, owner[p]) = [mapped EXCEPT ![c] = NoPeer]
    BY <2>1 DEF Without
  <2>4. Close(p)
    BY <2>1, <2>2, <2>3 DEF Close
  <2>5. owner[p] # "nobody" /\ offers' \in [Client -> 0 .. Waiting]
    BY <2>1, <2>2, Numbers DEF PeersInv, PeersTypeOK
  <2> QED BY <2>1, <2>2, <2>4, <2>5, CloseKeeps
<1> QED BY <1>1, <1>2, <1>3, <1>4, <1>5 DEF PeersNext

LEMMA PeersStep == PeersInv /\ [Next]_vars => PeersInv'
<1> SUFFICES ASSUME PeersInv, [Next]_vars PROVE PeersInv'
  OBVIOUS
<1>1. CASE UNCHANGED peerVars
  BY <1>1 DEF peerVars, PeersInv, PeersTypeOK, Owned, PeersAreTracked
<1> QED BY <1>1, Steps, PeersActs

\* However offers of a client, failing connections and the ends of its socket
\* overlap, the server counts the peers that are open and no others, and knows
\* the last one it made for a client until that is closed (_close_pc).
THEOREM OpenPeersAreKnown == Spec => []PeersAreTracked
<1>1. Init => PeersInv
  BY PeersStart DEF Init
<1>2. PeersInv => PeersAreTracked
  BY DEF PeersInv
<1> QED BY <1>1, <1>2, PeersStep, PTL DEF Spec
-----------------------------------------------------------------------------
(* The terminal.  The twist it repeats was asked for, of the robot in use  *)
(* or before that was chosen, and the settings in effect are those of the  *)
(* robot in use where it has any.                                          *)

TerminalInv ==
  /\ robot \in Robot \cup {None}
  /\ last \in Twist
  /\ tuned \in [Setting -> Robot \cup {None}]
  /\ last = "moving" => asked # None /\ (robot = None \/ robot \in {asked, heir})
  /\ OwnSettings

\* The settings after a choice: what a ROS parameter stands for is nobody's, and
\* with no speed given that way, what the robot has is its own.
LEMMA ChosenSettings ==
  ASSUME TerminalInv, NEW r \in Robot
  PROVE  /\ TunedFor(r) \in [Setting -> Robot \cup {None}]
         /\ \A s \in Overridden : TunedFor(r)[s] = None
         /\ r \in Profiled /\ Overridden \cap Speeds = {} =>
              \A s \in Given[r] \ Overridden : TunedFor(r)[s] = r
<1>1. TunedFor(r) = [s \in Setting |-> IF Takes(r, s) THEN r ELSE tuned[s]]
  BY DEF TunedFor
<1>2. \A s \in Overridden : s \in Setting /\ ~Takes(r, s) /\ tuned[s] = None
  BY TeleopAssumption DEF Takes, TerminalInv, OwnSettings
<1>3. r \in Profiled /\ Overridden \cap Speeds = {} =>
        \A s \in Given[r] \ Overridden : s \in Setting /\ Takes(r, s)
  BY TeleopAssumption DEF Takes, HasParameters
<1> QED BY <1>1, <1>2, <1>3 DEF TerminalInv

LEMMA TerminalActs == TerminalInv /\ TeleopNext => TerminalInv'
<1> SUFFICES ASSUME TerminalInv, TeleopNext PROVE TerminalInv'
  OBVIOUS
<1>0. ASSUME NEW r \in Robot
      PROVE  /\ TunedFor(r) \in [Setting -> Robot \cup {None}]
             /\ \A s \in Overridden : TunedFor(r)[s] = None
             /\ r \in Profiled /\ Overridden \cap Speeds = {} =>
                  \A s \in Given[r] \ Overridden : TunedFor(r)[s] = r
  BY ChosenSettings
<1> USE FleetAssumption, TeleopAssumption DEF TerminalInv, OwnSettings, Twist
<1>1. CASE UNCHANGED keyboard
  BY <1>1 DEF keyboard, motion
<1>2. ASSUME NEW r \in Robot, ChooseRobot(r) PROVE TerminalInv'
  <2>1. CASE UNCHANGED <<robot, tuned, motion>>
    BY <2>1 DEF motion
  <2>2. CASE /\ robot' = r /\ tuned' = TunedFor(r) /\ UNCHANGED <<last, asked>>
             /\ heir' = IF last = "still" THEN None ELSE r
    <3>1. UNCHANGED <<last, asked>>
      BY <2>2
    <3>2. last = "moving" => asked # None /\ heir' = r
      BY <2>2
    <3> HIDE DEF TunedFor
    <3>3. /\ tuned' \in [Setting -> Robot \cup {None}]
          /\ \A s \in Overridden : tuned'[s] = None
          /\ r \in Profiled /\ Overridden \cap Speeds = {} =>
               \A s \in Given[r] \ Overridden : tuned'[s] = r
      BY <1>0, <2>2
    <3> QED BY <2>2, <3>1, <3>2, <3>3
  <2> QED BY <1>2, <2>1, <2>2 DEF ChooseRobot, motion
<1>3. ASSUME NEW digit \in BOOLEAN, Move(digit) PROVE TerminalInv'
  BY <1>3 DEF Move, motion
<1>4. CASE OfflineWatchdog \/ StopKey \/ ToggleStrafe \/ Kill \/ Restart
  <2>1. CASE Rest
    <3>1. last' = "still" /\ robot' \in {robot, None}
      BY <1>4, <2>1 DEF Rest, OfflineWatchdog, StopKey, ToggleStrafe, Kill, Restart
    <3>2. tuned' = tuned \/ (robot' = None /\ tuned' = [s \in Setting |-> None])
      BY <1>4, <2>1 DEF OfflineWatchdog, StopKey, ToggleStrafe, Kill, Restart
    <3> QED BY <3>1, <3>2
  <2>2. CASE UNCHANGED <<robot, tuned, motion>>
    BY <2>2 DEF motion
  <2> QED BY <1>4, <2>1, <2>2 DEF OfflineWatchdog, StopKey, ToggleStrafe, Kill, Restart
<1>5. \/ UNCHANGED keyboard
      \/ OfflineWatchdog \/ StopKey \/ ToggleStrafe \/ Kill \/ Restart
      \/ \E r \in Robot : ChooseRobot(r)
      \/ \E digit \in BOOLEAN : Move(digit)
  BY DEF TeleopNext, NothingDue, RepublishLastTwist, PublishHumanOverride, Refresh,
         SwitchRobot, Interrupt, Heartbeats, ComeOrGo
<1> QED BY <1>1, <1>2, <1>3, <1>4, <1>5

LEMMA TerminalStart == Init => TerminalInv
BY FleetAssumption, TeleopAssumption DEF Init, TeleopInit, TerminalInv, OwnSettings, Twist

LEMMA TerminalStep == TerminalInv /\ [Next]_vars => TerminalInv'
<1> SUFFICES ASSUME TerminalInv, [Next]_vars PROVE TerminalInv'
  OBVIOUS
<1>1. CASE UNCHANGED teleopVars
  BY <1>1 DEF TerminalInv, OwnSettings, teleopVars, keyboard, motion
<1> QED BY <1>1, Steps, TerminalActs

\* Whichever robots the operator drove before: what the registry has of a robot's
\* drive parameters is in effect while it is driven, unless a ROS parameter stands
\* against it, which always holds (_apply_robot_profile).
THEOREM EachRobotIsDrivenAsItself == Spec => []OwnSettings
<1>1. TerminalInv => OwnSettings
  BY DEF TerminalInv
<1> QED BY <1>1, TerminalStart, TerminalStep, PTL DEF Spec

\* The terminal's message on a robot's cmd_vel is a motion only if one was asked
\* of it, or of another before it was chosen.
LEMMA TerminalTells ==
  ASSUME TerminalInv, TeleopNext, NEW r \in Robot, cmd'[r] # cmd[r],
         cmd'[r] = [by |-> "terminal", twist |-> "moving"]
  PROVE  asked' # None /\ r \in {asked', heir'}
<1>1. ASSUME NEW q, NEW twist, Publish(q, twist) PROVE twist = "moving" /\ q = r
  BY <1>1 DEF Publish, Tell
<1>2. CASE RepublishLastTwist
  <2>1. Publish(robot, last) /\ robot # None /\ UNCHANGED <<asked, heir>>
    BY <1>2 DEF RepublishLastTwist, keyboard, motion
  <2> QED BY <1>1, <2>1 DEF TerminalInv
<1>3. ASSUME NEW digit \in BOOLEAN, Move(digit) PROVE asked' # None /\ r \in {asked', heir'}
  <2>1. asked' = robot /\ robot # None /\ Publish(robot, "moving")
    BY <1>3 DEF Move
  <2> QED BY <1>1, <2>1
<1>4. ~(OfflineWatchdog \/ StopKey \/ ToggleStrafe \/ Interrupt)
  <2>1. ASSUME NEW q PROVE ~Publish(q, "still")
    BY <1>1
  <2> QED BY <2>1 DEF OfflineWatchdog, StopKey, ToggleStrafe, Interrupt
<1>5. \/ UNCHANGED cmd
      \/ RepublishLastTwist \/ OfflineWatchdog \/ StopKey \/ ToggleStrafe \/ Interrupt
      \/ \E digit \in BOOLEAN : Move(digit)
  BY DEF TeleopNext, NothingDue, PublishHumanOverride, Refresh, SwitchRobot, Kill, Restart,
         Heartbeats, ChooseRobot, ComeOrGo, topics
<1> QED BY <1>2, <1>3, <1>4, <1>5

\* What the autonomy says is not the terminal's.
LEMMA AutonomyTells ==
  ASSUME AutonomyNext,
         NEW r \in Robot, cmd'[r] # cmd[r]
  PROVE  cmd'[r].by = "camera"
<1>1. ASSUME NEW twist, Drive(twist) PROVE cmd'[r].by = "camera"
  BY <1>1 DEF Drive, Tell
<1>2. CASE OnMode
  BY <1>1, <1>2 DEF OnMode
<1>3. CASE OnOverride
  BY <1>1, <1>3 DEF OnOverride, Heeds
<1>4. CASE ControlTick
  BY <1>1, <1>4 DEF ControlTick
<1>5. ASSUME NEW flag \in BOOLEAN, EndTick(flag) PROVE cmd'[r].by = "camera"
  BY <1>1, <1>5 DEF EndTick
<1>6. \/ UNCHANGED cmd \/ OnMode \/ OnOverride \/ ControlTick
      \/ \E flag \in BOOLEAN : EndTick(flag)
  BY DEF AutonomyNext, NodeActs, TimePasses, OthersAct, HumanSpeaks, NodeNext, Wait, OnImage,
         Capture, Clock, RequestMode
<1> QED BY <1>2, <1>3, <1>4, <1>5, <1>6

\* A stop key, a change of mode, a robot lost and a restart all end what the
\* terminal repeats; a switch does not, and the motion goes on with the robot
\* chosen last (_republish_last_twist, _apply_cmd_vel_topic).
THEOREM NoRepetitionOutlivesAStop == Spec => MovesOnlyWhenAsked
<1>1. ASSUME TerminalInv, [Next]_vars, cmd' # cmd, NEW r \in Robot, cmd'[r] # cmd[r],
             cmd'[r] = [by |-> "terminal", twist |-> "moving"]
      PROVE  asked' # None /\ r \in {asked', heir'}
  <2>1. CASE part = "terminal" /\ Terminal
    BY <1>1, <2>1, TerminalTells DEF Terminal
  <2>2. CASE part = "autonomy" /\ Autonomy
    BY <1>1, <2>2, AutonomyTells DEF Autonomy
  <2>3. CASE UNCHANGED topics
    BY <1>1, <2>3 DEF topics
  <2> QED BY <1>1, <2>1, <2>2, <2>3 DEF Next, Page, Videos, Feeds, Sessions, Tools, Only,
                                     Rests, vars
<1>2. TerminalInv /\ [Next]_vars =>
        [cmd' # cmd => \A r \in Robot :
           cmd'[r] # cmd[r] /\ cmd'[r] = [by |-> "terminal", twist |-> "moving"]
             => asked' # None /\ r \in {asked', heir'}]_cmd
  BY <1>1
<1> QED BY <1>2, TerminalStart, TerminalStep, PTL DEF Spec, MovesOnlyWhenAsked
-----------------------------------------------------------------------------
(* Queues.                                                                 *)

\* What is left of a queue whose first message is taken.
LEMMA TailElements ==
  ASSUME NEW S, NEW s \in Seq(S), s # <<>>
  PROVE  /\ Len(s) \in Nat \ {0} /\ Head(s) = s[1] /\ Head(s) \in S
         /\ Tail(s) \in Seq(S) /\ Len(Tail(s)) = Len(s) - 1
         /\ DOMAIN Tail(s) = 1 .. Len(s) - 1
         /\ \A i \in DOMAIN Tail(s) : i + 1 \in DOMAIN s /\ Tail(s)[i] = s[i + 1]
OBVIOUS

\* A message that joins a queue takes the last place, at the cost of the oldest
\* one if the queue is full.
Joined(queue, e, room) ==
  LET all == Append(queue, e) IN IF Len(all) > room THEN Tail(all) ELSE all

JoinsLast(queue, e, room, next) ==
  /\ next # <<>> /\ Len(next) \in Nat \ {0} /\ Len(next) <= room
  /\ Len(next) = IF Len(queue) = room THEN room ELSE Len(queue) + 1
  /\ next[Len(next)] = e
  /\ \A i \in 1 .. Len(next) - 1 :
       IF Len(queue) = room THEN i + 1 \in DOMAIN queue /\ next[i] = queue[i + 1]
       ELSE i \in DOMAIN queue /\ next[i] = queue[i]

LEMMA Joining ==
  ASSUME NEW S, NEW queue \in Seq(S), NEW e \in S, NEW room \in Nat \ {0}, Len(queue) <= room
  PROVE  /\ Joined(queue, e, room) \in Seq(S)
         /\ JoinsLast(queue, e, room, Joined(queue, e, room))
<1> DEFINE next == Joined(queue, e, room)
<1> SUFFICES next \in Seq(S) /\ JoinsLast(queue, e, room, next)
  OBVIOUS
<1> USE DEF JoinsLast
<1> DEFINE all == Append(queue, e)  n == Len(queue)
<1>1. n \in Nat /\ n <= room /\ DOMAIN queue = 1 .. n
  OBVIOUS
<1>2. /\ all \in Seq(S) /\ all # <<>> /\ Len(all) = n + 1
      /\ \A i \in 1 .. n : all[i] = queue[i]
      /\ all[n + 1] = e
  BY AppendProperties
<1>3. next = IF Len(all) > room THEN Tail(all) ELSE all
  BY DEF Joined
<1> HIDE DEF all, n, next
<1>4. /\ Tail(all) \in Seq(S) /\ Len(Tail(all)) = n
      /\ \A i \in 1 .. n : Tail(all)[i] = all[i + 1]
  BY <1>1, <1>2, TailElements
<1>5. CASE n = room
  <2>1. next = Tail(all) /\ Len(next) = n /\ n # 0
    BY <1>1, <1>2, <1>3, <1>4, <1>5
  <2>2. next[n] = e
    BY <1>1, <1>2, <1>4, <2>1
  <2>3. ASSUME NEW i \in 1 .. n - 1 PROVE i + 1 \in DOMAIN queue /\ next[i] = queue[i + 1]
    <3>1. i \in 1 .. n /\ i + 1 \in 1 .. n
      BY <1>1
    <3> QED BY <1>1, <1>2, <1>4, <2>1, <3>1
  <2>4. /\ next \in Seq(S) /\ next # <<>> /\ Len(next) \in Nat \ {0} /\ Len(next) <= room
        /\ Len(next) = room /\ Len(queue) = room /\ next[Len(next)] = e
    BY <1>1, <1>4, <1>5, <2>1, <2>2 DEF n
  <2> QED BY <1>5, <2>1, <2>3, <2>4 DEF n
<1>6. CASE n # room
  <2>1. next = all /\ Len(next) = n + 1 /\ n + 1 <= room
    BY <1>1, <1>2, <1>3, <1>6
  <2>2. ASSUME NEW i \in 1 .. Len(next) - 1 PROVE i \in DOMAIN queue /\ next[i] = queue[i]
    <3>1. i \in 1 .. n
      BY <1>1, <2>1
    <3> QED BY <1>1, <1>2, <2>1, <3>1
  <2>3. /\ next \in Seq(S) /\ next # <<>> /\ Len(next) \in Nat \ {0} /\ Len(next) <= room
        /\ Len(next) = n + 1 /\ next[Len(next)] = e
    BY <1>1, <1>2, <2>1
  <2>4. Len(queue) = n
    BY DEF n
  <2> QED BY <1>6, <2>2, <2>3, <2>4
<1> QED BY <1>5, <1>6

LEMMA EnqueuedTyped ==
  ASSUME NEW queue \in Seq(BOOLEAN), Len(queue) <= Depth, NEW active \in BOOLEAN
  PROVE  /\ Enqueued(queue, active) \in Seq(BOOLEAN) /\ Enqueued(queue, active) # <<>>
         /\ Len(Enqueued(queue, active)) <= Depth
         /\ Len(Enqueued(queue, active)) = IF Len(queue) = Depth THEN Depth ELSE Len(queue) + 1
<1> DEFINE next == Enqueued(queue, active)
<1>1. next = Joined(queue, active, Depth)
  BY DEF Enqueued, Joined
<1> DEFINE S == BOOLEAN
<1>2. queue \in Seq(S) /\ active \in S /\ Depth \in Nat \ {0}
  BY FleetAssumption
<1> HIDE DEF next, S
<1>3. /\ next \in Seq(S) /\ next # <<>> /\ Len(next) <= Depth
      /\ Len(next) = IF Len(queue) = Depth THEN Depth ELSE Len(queue) + 1
  BY <1>1, <1>2, Joining DEF JoinsLast
<1> QED BY <1>3 DEF next, S

-----------------------------------------------------------------------------
(* The autonomy.  A look is begun only with no human driving.              *)

YieldInv ==
  /\ overrides \in [Robot -> Seq(BOOLEAN)] /\ Len(overrides[rover]) <= Depth
  /\ "override" \in round => overrides[rover] # <<>>
  /\ ticking \in -1 .. Work
  /\ ~Idle => ~human
  /\ human => ~Moves

LEMMA Telling ==
  ASSUME NEW twist, Drive(twist), twist # "moving"
  PROVE  ~Moves'
BY Times DEF Drive, Tell, Moves

\* A word joins those on the rover's human_override.
LEMMA HumanSpeaksTo ==
  ASSUME NEW active \in BOOLEAN, HumanSpeaks(active), YieldInv
  PROVE  /\ overrides' \in [Robot -> Seq(BOOLEAN)] /\ overrides'[rover] # <<>>
         /\ Len(overrides'[rover]) <= Depth
         /\ Len(overrides'[rover]) = IF Len(overrides[rover]) = Depth THEN Depth
                                     ELSE Len(overrides[rover]) + 1
<1>1. overrides[rover] \in Seq(BOOLEAN) /\ Len(overrides[rover]) <= Depth /\ rover \in Robot
  BY Times DEF YieldInv
<1> DEFINE queue == overrides[rover]  next == Enqueued(queue, active)
<1>2. overrides' = [q \in Robot |-> IF q = rover THEN next ELSE overrides[q]]
  BY Times DEF HumanSpeaks, TellOverride
<1>3. /\ next \in Seq(BOOLEAN) /\ next # <<>> /\ Len(next) <= Depth
      /\ Len(next) = IF Len(queue) = Depth THEN Depth ELSE Len(queue) + 1
  BY <1>1, EnqueuedTyped
<1> HIDE DEF next
<1> QED BY <1>1, <1>2, <1>3 DEF YieldInv

\* A word is taken from it.
LEMMA OverrideTaken ==
  ASSUME OnOverride, YieldInv
  PROVE  /\ overrides' = [overrides EXCEPT ![rover] = Tail(overrides[rover])]
         /\ overrides[rover] # <<>> /\ Head(overrides[rover]) \in BOOLEAN
         /\ overrides' \in [Robot -> Seq(BOOLEAN)]
         /\ Len(overrides'[rover]) = Len(overrides[rover]) - 1
         /\ overrides' # overrides
<1>1. /\ overrides[rover] \in Seq(BOOLEAN) /\ overrides[rover] # <<>> /\ rover \in Robot
      /\ overrides' = [overrides EXCEPT ![rover] = Tail(overrides[rover])]
  BY Times DEF OnOverride, Serve, Turn, YieldInv
<1>2. /\ Tail(overrides[rover]) \in Seq(BOOLEAN) /\ Head(overrides[rover]) \in BOOLEAN
      /\ Len(Tail(overrides[rover])) = Len(overrides[rover]) - 1
      /\ Len(overrides[rover]) \in Nat
  BY <1>1, TailElements
<1>3. overrides \in [Robot -> Seq(BOOLEAN)]
  BY DEF YieldInv
<1>4. overrides'[rover] = Tail(overrides[rover]) /\ overrides' \in [Robot -> Seq(BOOLEAN)]
  BY <1>1, <1>2, <1>3
<1>5. Len(overrides'[rover]) # Len(overrides[rover])
  BY <1>2, <1>4
<1> QED BY <1>1, <1>2, <1>4, <1>5

LEMMA AutonomyActs ==
  ASSUME YieldInv, AutonomyNext
  PROVE  YieldInv'
<1> USE Times
<1>1. CASE Wait
  <2>1. round' = Due /\ Idle /\ UNCHANGED <<human, cmd, overrides, ticking>>
    BY <1>1 DEF Wait, timing
  <2>2. "override" \in Due <=> overrides[rover] # <<>>
    BY DEF Due
  <2> QED BY <2>1, <2>2 DEF YieldInv, Idle, Moves
<1>2. CASE OnMode
  <2>1. /\ Idle /\ round' = round \ {"mode"} /\ UNCHANGED <<human, overrides, ticking>> /\ ~Moves'
    BY <1>2, Telling DEF OnMode, Serve
  <2> QED BY <2>1 DEF YieldInv, Idle
<1>3. CASE OnOverride
  <2>1. /\ Idle /\ round' = round \ {"override"} /\ UNCHANGED ticking
    BY <1>3 DEF OnOverride, Serve, timing
  <2>2. overrides' \in [Robot -> Seq(BOOLEAN)] /\ Len(overrides'[rover]) <= Depth
    <3>1. Len(overrides[rover]) \in Nat /\ Len(overrides[rover]) <= Depth
      BY DEF YieldInv
    <3> QED BY <1>3, <3>1, OverrideTaken, FleetAssumption
  <2>3. human' => ~Moves'
    BY <1>3, Telling DEF OnOverride, Heeds
  <2> QED BY <2>1, <2>2, <2>3 DEF YieldInv, Idle
<1>4. ASSUME NEW flag \in BOOLEAN, OnImage(flag) PROVE YieldInv'
  <2>1. /\ Idle /\ round' = round \ {"image"} /\ UNCHANGED <<human, overrides, ticking, cmd>>
    BY <1>4 DEF OnImage, Serve, timing
  <2> QED BY <2>1 DEF YieldInv, Idle, Moves
<1>5. CASE ControlTick
  <2>1. /\ Idle /\ round' = round \ {"timer"} /\ UNCHANGED <<human, overrides>>
    BY <1>5 DEF ControlTick, Serve
  <2>2. CASE human \/ mode = "manual" \/ StaleFrame
    <3>1. ~Moves' /\ UNCHANGED ticking
      BY <1>5, <2>2, Telling DEF ControlTick
    <3> QED BY <2>1, <3>1 DEF YieldInv, Idle
  <2>3. CASE ~(human \/ mode = "manual" \/ StaleFrame)
    <3>1. ticking' = 0 /\ ~human
      BY <1>5, <2>3 DEF ControlTick
    <3> QED BY <2>1, <3>1 DEF YieldInv, Idle
  <2> QED BY <2>2, <2>3
<1>6. ASSUME NEW flag \in BOOLEAN, EndTick(flag) PROVE YieldInv'
  <2>1. ~Idle /\ ticking' = -1 /\ UNCHANGED <<human, overrides, round>>
    BY <1>6 DEF EndTick
  <2> QED BY <2>1 DEF YieldInv, Idle
<1>7. CASE Clock
  <2>1. /\ UNCHANGED <<human, round, cmd, overrides>>
        /\ IF Idle THEN ticking' = -1 ELSE ticking' = ticking + 1 /\ ticking < Work
    BY <1>7 DEF Clock
  <2> QED BY <2>1 DEF YieldInv, Idle, Moves
<1>8. ASSUME NEW active \in BOOLEAN, HumanSpeaks(active) PROVE YieldInv'
  <2>1. UNCHANGED <<human, round, ticking, cmd>>
    BY <1>8 DEF HumanSpeaks, cameraVars, timing
  <2> QED BY <1>8, <2>1, HumanSpeaksTo DEF YieldInv, Idle, Moves
<1>9. CASE UNCHANGED <<human, round, ticking, cmd, overrides>>
  BY <1>9 DEF YieldInv, Idle, Moves
<1>10. \/ Wait \/ OnMode \/ OnOverride \/ ControlTick \/ Clock
       \/ \E flag \in BOOLEAN : OnImage(flag) \/ EndTick(flag)
       \/ \E active \in BOOLEAN : HumanSpeaks(active)
       \/ UNCHANGED <<human, round, ticking, cmd, overrides>>
  BY DEF AutonomyNext, NodeActs, TimePasses, OthersAct, NodeNext, Capture, RequestMode, timing
<1> QED BY <1>1, <1>2, <1>3, <1>4, <1>5, <1>6, <1>7, <1>8, <1>9, <1>10

AutonomyInv == IF part = "autonomy" THEN YieldInv ELSE human = FALSE

LEMMA AutonomyStart == Init => AutonomyInv
<1> SUFFICES ASSUME Init PROVE AutonomyInv
  OBVIOUS
<1>1. /\ human = FALSE /\ round = {} /\ ticking = -1
      /\ overrides = [r \in Robot |-> <<>>]
  BY DEF Init, CameraInit, TopicsInit
<1>2. overrides \in [Robot -> Seq(BOOLEAN)] /\ Len(overrides[rover]) = 0
  BY <1>1, Times
<1> QED BY <1>1, <1>2, Times, FleetAssumption DEF AutonomyInv, YieldInv, Idle

LEMMA AutonomyStep == AutonomyInv /\ [Next]_vars => AutonomyInv'
<1> SUFFICES ASSUME AutonomyInv, [Next]_vars PROVE AutonomyInv'
  OBVIOUS
<1>1. CASE part # "autonomy"
  BY <1>1, Steps DEF AutonomyInv, cameraVars
<1>2. CASE part = "autonomy" /\ Autonomy
  BY <1>2, AutonomyActs DEF AutonomyInv, Autonomy, Only
<1>3. CASE UNCHANGED vars
  BY <1>3 DEF AutonomyInv, YieldInv, Idle, Moves, vars, cameraVars, timing, topics
<1> QED BY <1>1, <1>2, <1>3 DEF Next
-----------------------------------------------------------------------------
(* The sight.  What waits for one of the callbacks that do not come first, *)
(* a frame or a word on human_override, is taken after at most one look    *)
(* for each round until its turn, and what is left of the one that goes    *)
(* on; what it waited and what it may still wait is never more than a look *)
(* for each place there is and one more.  A look is begun only at a frame  *)
(* taken lately enough, and due tells how much later it is since.          *)

\* The time n looks take at most.
Looks(n) == n * Work

LEMMA LooksAdd ==
  /\ \A n \in Nat : Looks(n) \in Nat /\ Looks(n + 1) = Looks(n) + Work
  /\ \A m, n \in Nat : m <= n => Looks(m) <= Looks(n)
  /\ 2 * Work <= Looks(FrameQueue + 1)
<1> USE Times DEF Looks
<1>1. \A n \in Nat : Looks(n) \in Nat /\ Looks(n + 1) = Looks(n) + Work
  OBVIOUS
<1>2. ASSUME NEW m \in Nat, NEW n \in Nat, m <= n PROVE Looks(m) <= Looks(n)
  <2>1. (n - m) * Work \in Nat /\ n - m \in Nat
    BY <1>2
  <2>2. n * Work = m * Work + (n - m) * Work
    OBVIOUS
  <2> QED BY <2>1, <2>2, <1>1
<1>3. Looks(2) = 2 * Work /\ Looks(2) <= Looks(FrameQueue + 1)
  BY <1>2
<1> QED BY <1>1, <1>2, <1>3

Channel == {"image", "override"}

\* How many looks may still begin before what is in place i is taken.
Ahead(c, i) == i + (IF "timer" \in round THEN 1 ELSE 0) - (IF c \in round THEN 1 ELSE 0)

\* How long it may still wait.
Left(c, i) == Looks(Ahead(c, i)) + (IF Idle THEN 0 ELSE Work - ticking)

\* All that waits is taken in time.
InTime(c, queue, room) == \A i \in DOMAIN queue : queue[i] + Left(c, i) <= Looks(room + 1)

FramesWait ==
  /\ frames \in Seq(Nat) /\ Len(frames) <= FrameQueue
  /\ "image" \in round => frames # <<>>
  /\ InTime("image", frames, FrameQueue)

WordsWait ==
  /\ waited \in Seq(Nat) /\ Len(waited) = Len(overrides[rover])
  /\ InTime("override", waited, Depth)

TicksAreShort ==
  /\ ticking \in -1 .. Work
  /\ due \in Nat /\ (due <= Period \/ due <= Work)
  /\ ~Idle => due = ticking /\ "timer" \notin round

LooksAreRecent ==
  /\ stamp \in Nat /\ latest \in Nat
  /\ stamp <= latest /\ latest <= Old
  /\ latest <= stamp + Looks(FrameQueue + 1)
  /\ Moves \/ ~Idle => stamp <= Stale + due

SightInv == FramesWait /\ TicksAreShort /\ LooksAreRecent

LEMMA AheadIsNatural ==
  \A c : \A i \in Nat \ {0} : Ahead(c, i) \in Nat /\ Ahead(c, i) <= i + 1
BY DEF Ahead

WaitsAreTimes == \A c : \A i \in Nat \ {0} : Left(c, i) \in Nat

LEMMA LeftIsNatural == TicksAreShort => WaitsAreTimes
<1> SUFFICES ASSUME TicksAreShort, NEW c, NEW i \in Nat \ {0} PROVE Left(c, i) \in Nat
  BY DEF WaitsAreTimes
<1>1. Looks(Ahead(c, i)) \in Nat
  BY AheadIsNatural, LooksAdd
<1> QED BY <1>1, Times DEF Left, TicksAreShort, Idle

LEMMA LeftIsNaturalNext == TicksAreShort' => WaitsAreTimes'
BY LeftIsNatural, PTL

\* What is left of a wait, by what a step does to the round and the look.
LEMMA LessIsLeft ==
  ASSUME TicksAreShort, TicksAreShort', NEW c, NEW i \in Nat \ {0},
         \/ Ahead(c, i)' <= Ahead(c, i) /\ ticking' = ticking
         \/ Ahead(c, i)' <= Ahead(c, i) /\ ticking' = -1
         \/ Ahead(c, i)' = Ahead(c, i) /\ ~Idle /\ ticking' = ticking + 1
         \/ Ahead(c, i)' = Ahead(c, i) - 1 /\ Idle /\ ticking' \in {-1, 0}
  PROVE  Left(c, i)' \in Nat /\ Left(c, i) \in Nat /\ Left(c, i)' <= Left(c, i)
<1> DEFINE a == Ahead(c, i)  b == Ahead(c, i)'
<1>1. a \in Nat /\ b \in Nat
  <2>1. Ahead(c, i) \in Nat
    BY AheadIsNatural
  <2>2. Ahead(c, i)' \in Nat
    BY DEF Ahead
  <2> QED BY <2>1, <2>2
<1>2. Left(c, i) = Looks(a) + (IF Idle THEN 0 ELSE Work - ticking)
  BY DEF Left
<1>3. Left(c, i)' = Looks(b) + (IF Idle' THEN 0 ELSE Work - ticking')
  BY DEF Left, Looks
<1>4. Left(c, i) \in Nat /\ Left(c, i)' \in Nat
  BY LeftIsNatural, LeftIsNaturalNext DEF WaitsAreTimes
<1>5. /\ b <= a => Looks(b) <= Looks(a)
      /\ b = a - 1 => Looks(b) + Work = Looks(a)
      /\ Looks(a) \in Nat /\ Looks(b) \in Nat
  BY <1>1, LooksAdd
<1>6. ticking \in -1 .. Work /\ ticking' \in -1 .. Work
  BY DEF TicksAreShort
<1>7. \/ b <= a /\ ticking' = ticking
      \/ b <= a /\ ticking' = -1
      \/ b = a /\ ~Idle /\ ticking' = ticking + 1
      \/ b = a - 1 /\ Idle /\ ticking' \in {-1, 0}
  OBVIOUS
<1> HIDE DEF a, b
<1>8. Work \in Nat
  BY Times
<1> QED BY <1>1, <1>2, <1>3, <1>4, <1>5, <1>6, <1>7, <1>8 DEF Idle

\* What goes on waiting no longer than it might have is still in time.
LEMMA StillInTime ==
  ASSUME NEW c, NEW room \in Nat, NEW queue \in Seq(Nat), InTime(c, queue, room),
         TicksAreShort, TicksAreShort',
         \A i \in DOMAIN queue :
           \/ Ahead(c, i)' <= Ahead(c, i) /\ ticking' = ticking
           \/ Ahead(c, i)' <= Ahead(c, i) /\ ticking' = -1
           \/ Ahead(c, i)' = Ahead(c, i) - 1 /\ Idle /\ ticking' \in {-1, 0}
  PROVE  \A i \in DOMAIN queue : queue[i] + Left(c, i)' <= Looks(room + 1)
<1> SUFFICES ASSUME NEW i \in DOMAIN queue
             PROVE  queue[i] + Left(c, i)' <= Looks(room + 1)
  OBVIOUS
<1>1. i \in Nat \ {0} /\ queue[i] \in Nat /\ queue[i] + Left(c, i) <= Looks(room + 1)
  BY DEF InTime
<1>2. Left(c, i)' \in Nat /\ Left(c, i) \in Nat /\ Left(c, i)' <= Left(c, i)
  BY <1>1, LessIsLeft
<1>3. Looks(room + 1) \in Nat
  BY LooksAdd
<1> QED BY <1>1, <1>2, <1>3

\* What is first is taken; the others are one place further.
LEMMA FirstIsTaken ==
  ASSUME NEW c \in Channel, NEW room \in Nat, NEW queue \in Seq(Nat), queue # <<>>,
         InTime(c, queue, room), TicksAreShort, Idle,
         c \in round, "timer" \notin round, round' = round \ {c}, UNCHANGED ticking
  PROVE  /\ Head(queue) \in Nat /\ Head(queue) <= Looks(room + 1)
         /\ Tail(queue) \in Seq(Nat) /\ Len(Tail(queue)) = Len(queue) - 1
         /\ Len(queue) \in Nat \ {0}
         /\ \A i \in DOMAIN Tail(queue) : Tail(queue)[i] + Left(c, i)' <= Looks(room + 1)
<1>1. /\ Len(queue) \in Nat \ {0} /\ Head(queue) = queue[1] /\ Head(queue) \in Nat
      /\ Tail(queue) \in Seq(Nat) /\ Len(Tail(queue)) = Len(queue) - 1
      /\ DOMAIN Tail(queue) = 1 .. Len(queue) - 1
      /\ \A i \in DOMAIN Tail(queue) : i + 1 \in DOMAIN queue /\ Tail(queue)[i] = queue[i + 1]
  BY TailElements
<1>2. 1 \in DOMAIN queue
  BY <1>1
<1>3. Left(c, 1) \in Nat /\ queue[1] + Left(c, 1) <= Looks(room + 1) /\ Looks(room + 1) \in Nat
  BY <1>2, LeftIsNatural, LooksAdd DEF InTime, WaitsAreTimes
<1>4. Head(queue) <= Looks(room + 1)
  BY <1>1, <1>3
<1>5. ASSUME NEW i \in DOMAIN Tail(queue)
      PROVE  Tail(queue)[i] + Left(c, i)' <= Looks(room + 1)
  <2>1. i \in Nat \ {0} /\ i + 1 \in DOMAIN queue /\ Tail(queue)[i] = queue[i + 1]
    BY <1>1
  <2>2. queue[i + 1] + Left(c, i + 1) <= Looks(room + 1)
    BY <2>1 DEF InTime
  <2>3. Ahead(c, i)' = Ahead(c, i + 1)
    BY <2>1 DEF Ahead, Channel
  <2>4. Left(c, i)' = Left(c, i + 1)
    BY <2>3 DEF Left, Looks, Idle
  <2> QED BY <2>1, <2>2, <2>4
<1> QED BY <1>1, <1>4, <1>5

\* What joins those that wait will wait for those before it.
LEMMA LastWaits ==
  ASSUME NEW c \in Channel, NEW room \in Nat \ {0}, NEW queue \in Seq(Nat), Len(queue) <= room,
         InTime(c, queue, room), TicksAreShort, UNCHANGED <<round, ticking>>,
         NEW next, next = Joined(queue, 0, room)
  PROVE  /\ next \in Seq(Nat) /\ next # <<>> /\ Len(next) <= room
         /\ Len(next) = IF Len(queue) = room THEN room ELSE Len(queue) + 1
         /\ \A i \in DOMAIN next : next[i] + Left(c, i)' <= Looks(room + 1)
<1>1. Looks(room + 1) \in Nat /\ Looks(room) + Work = Looks(room + 1) /\ Looks(room) \in Nat
      /\ Work \in Nat
  BY LooksAdd, Times
<1>2. \A i \in Nat \ {0} : Left(c, i)' = Left(c, i) /\ Left(c, i) \in Nat
  <2>1. \A i \in Nat \ {0} : Left(c, i)' = Left(c, i)
    BY DEF Left, Looks, Ahead, Idle
  <2> QED BY <2>1, LeftIsNatural DEF WaitsAreTimes
\* The place in which something waits allows it the time that may be left of it.
<1>3. ASSUME NEW i \in Nat \ {0}, i <= room PROVE Left(c, i) <= Looks(room + 1)
  <2>1. Ahead(c, i) \in Nat /\ Ahead(c, i) <= room + 1
    <3>1. Ahead(c, i) \in Nat /\ Ahead(c, i) <= i + 1
      BY AheadIsNatural
    <3> QED BY <1>3, <3>1
  <2>2. Looks(Ahead(c, i)) \in Nat /\ Looks(Ahead(c, i)) <= Looks(room + 1)
    BY <2>1, LooksAdd
  <2>3. CASE Idle
    BY <2>2, <2>3 DEF Left
  <2>4. CASE ~Idle
    <3>1. Ahead(c, i) <= room
      BY <1>3, <2>4 DEF Ahead, TicksAreShort
    <3>2. Looks(Ahead(c, i)) <= Looks(room)
      BY <2>1, <3>1, LooksAdd
    <3>3. ticking \in 0 .. Work
      BY <1>1, <2>4 DEF TicksAreShort, Idle
    <3> QED BY <1>1, <2>2, <2>4, <3>2, <3>3 DEF Left
  <2> QED BY <2>3, <2>4
\* Further ahead, it waits no longer.
<1>4. ASSUME NEW i \in Nat \ {0} PROVE Left(c, i) <= Left(c, i + 1)
  <2>1. Ahead(c, i) <= Ahead(c, i + 1) /\ Ahead(c, i) \in Nat /\ Ahead(c, i + 1) \in Nat
    BY AheadIsNatural DEF Ahead
  <2>2. /\ Looks(Ahead(c, i)) <= Looks(Ahead(c, i + 1))
        /\ Looks(Ahead(c, i)) \in Nat /\ Looks(Ahead(c, i + 1)) \in Nat
    BY <2>1, LooksAdd
  <2> QED BY <1>1, <2>2 DEF Left, TicksAreShort
<1>5. /\ next \in Seq(Nat) /\ next # <<>> /\ Len(next) \in Nat \ {0} /\ Len(next) <= room
      /\ Len(next) = IF Len(queue) = room THEN room ELSE Len(queue) + 1
      /\ next[Len(next)] = 0
      /\ \A i \in 1 .. Len(next) - 1 :
           IF Len(queue) = room THEN i + 1 \in DOMAIN queue /\ next[i] = queue[i + 1]
           ELSE i \in DOMAIN queue /\ next[i] = queue[i]
  <2>1. next \in Seq(Nat) /\ JoinsLast(queue, 0, room, next)
    BY Joining
  <2> QED BY <2>1 DEF JoinsLast
<1>6. ASSUME NEW i \in DOMAIN next PROVE next[i] + Left(c, i)' <= Looks(room + 1)
  <2>1. i \in Nat \ {0} /\ i <= Len(next) /\ i <= room
    BY <1>5
  <2>2. CASE i = Len(next)
    BY <1>1, <1>2, <1>3, <1>5, <2>1, <2>2
  <2>3. CASE i # Len(next) /\ Len(queue) = room
    <3>0. i \in 1 .. Len(next) - 1
      <4>1. Len(next) \in Nat
        BY <1>5
      <4> QED BY <2>1, <2>3, <4>1
    <3>1. i + 1 \in DOMAIN queue /\ next[i] = queue[i + 1]
      <4>1. IF Len(queue) = room THEN i + 1 \in DOMAIN queue /\ next[i] = queue[i + 1]
            ELSE i \in DOMAIN queue /\ next[i] = queue[i]
        BY <1>5, <3>0
      <4> QED BY <2>3, <4>1
    <3>2. queue[i + 1] \in Nat /\ queue[i + 1] + Left(c, i + 1) <= Looks(room + 1)
      BY <3>1 DEF InTime
    <3>3. i + 1 \in Nat \ {0}
      BY <2>1
    <3>4. Left(c, i) <= Left(c, i + 1) /\ Left(c, i + 1) \in Nat
      BY <1>2, <1>4, <2>1, <3>3
    <3>5. Left(c, i) \in Nat /\ Left(c, i)' = Left(c, i)
      BY <1>2, <2>1
    <3> DEFINE age == queue[i + 1]  later == Left(c, i + 1)  sooner == Left(c, i)
               most == Looks(room + 1)
    <3>6. /\ age \in Nat /\ later \in Nat /\ sooner \in Nat /\ most \in Nat
          /\ age + later <= most /\ sooner <= later
      BY <1>1, <3>2, <3>4, <3>5
    <3>7. next[i] = age /\ Left(c, i)' = sooner
      BY <3>1, <3>5
    <3> HIDE DEF age, later, sooner
    <3> QED BY <3>6, <3>7
  <2>4. CASE i # Len(next) /\ Len(queue) # room
    <3>1. i \in DOMAIN queue /\ next[i] = queue[i]
      BY <1>5, <2>1, <2>4
    <3> QED BY <1>2, <2>1, <3>1 DEF InTime
  <2> QED BY <2>2, <2>3, <2>4
<1> QED BY <1>5, <1>6

\* While a look goes on, what waits grows older as less is left of the look.
LEMMA AllGrowOlder ==
  ASSUME NEW c \in Channel, NEW room \in Nat, NEW queue \in Seq(Nat), InTime(c, queue, room),
         TicksAreShort, ~Idle, ticking < Work, ticking' = ticking + 1, UNCHANGED round,
         NEW next, DOMAIN next = DOMAIN queue,
         \A i \in DOMAIN queue : next[i] \in Nat /\ next[i] <= queue[i] + 1
  PROVE  \A i \in DOMAIN next : next[i] + Left(c, i)' <= Looks(room + 1)
<1> SUFFICES ASSUME NEW i \in DOMAIN next PROVE next[i] + Left(c, i)' <= Looks(room + 1)
  OBVIOUS
<1>1. i \in DOMAIN queue /\ i \in Nat \ {0} /\ queue[i] \in Nat
  OBVIOUS
<1>2. Ahead(c, i)' = Ahead(c, i) /\ Looks(Ahead(c, i)) \in Nat
  BY <1>1, AheadIsNatural, LooksAdd DEF Ahead
<1>3. ticking \in Int /\ Work \in Int /\ ~Idle'
  BY Times DEF TicksAreShort, Idle
<1>4. Left(c, i) = Looks(Ahead(c, i)) + (Work - ticking)
  BY DEF Left
<1>5. Left(c, i)' = Looks(Ahead(c, i)) + (Work - (ticking + 1))
  BY <1>2, <1>3 DEF Left, Looks
<1>6. queue[i] + Left(c, i) <= Looks(room + 1)
  BY <1>1 DEF InTime
<1>7. Looks(room + 1) \in Nat
  BY LooksAdd
<1>8. next[i] \in Nat /\ next[i] <= queue[i] + 1
  BY <1>1
<1> QED BY <1>1, <1>2, <1>3, <1>4, <1>5, <1>6, <1>7, <1>8

\* A queue of ages stays one when they grow.
LEMMA OlderQueue ==
  ASSUME NEW queue \in Seq(Nat), NEW next, next = [i \in DOMAIN queue |-> next[i]],
         \A i \in DOMAIN queue : next[i] \in Nat
  PROVE  next \in Seq(Nat) /\ Len(next) = Len(queue) /\ DOMAIN next = DOMAIN queue
<1>1. DOMAIN queue = 1 .. Len(queue) /\ Len(queue) \in Nat
  OBVIOUS
<1>2. next = [i \in 1 .. Len(queue) |-> next[i]]
  BY <1>1
<1> QED BY <1>1, <1>2

-----------------------------------------------------------------------------
(* The frames.                                                             *)

\* The frames stay; how long they may still wait does not grow.
LEMMA FramesStay ==
  ASSUME SightInv, TicksAreShort', UNCHANGED frames, "image" \in round' => frames # <<>>,
         \A i \in DOMAIN frames :
           \/ Ahead("image", i)' <= Ahead("image", i) /\ ticking' = ticking
           \/ Ahead("image", i)' <= Ahead("image", i) /\ ticking' = -1
           \/ Ahead("image", i)' = Ahead("image", i) - 1 /\ Idle /\ ticking' \in {-1, 0}
  PROVE  FramesWait'
<1>1. /\ frames \in Seq(Nat) /\ Len(frames) <= FrameQueue /\ FrameQueue \in Nat
      /\ InTime("image", frames, FrameQueue)
  BY Times DEF SightInv, FramesWait
<1>2. \A i \in DOMAIN frames : frames[i] + Left("image", i)' <= Looks(FrameQueue + 1)
  BY <1>1, StillInTime DEF SightInv
<1> QED BY <1>1, <1>2 DEF FramesWait, InTime, Looks

\* The callbacks that neither take a frame nor look at one.
LEMMA OtherCallbacks ==
  ASSUME SightInv, UNCHANGED <<frames, outlook, ticking, due>>,
         round' \subseteq round, round \ round' \subseteq {"mode", "override"},
         Moves' => Moves
  PROVE  SightInv'
<1>1. TicksAreShort'
  BY DEF SightInv, TicksAreShort, Idle
<1>2. LooksAreRecent'
  BY LooksAdd DEF SightInv, LooksAreRecent, outlook, Idle, Looks
<1>3. ASSUME NEW i \in DOMAIN frames PROVE Ahead("image", i)' <= Ahead("image", i)
  <2>1. i \in Nat
    BY DEF SightInv, FramesWait
  <2> QED BY <2>1 DEF Ahead
<1>4. "image" \in round' => frames # <<>>
  BY DEF SightInv, FramesWait
<1>5. FramesWait'
  BY <1>1, <1>3, <1>4, FramesStay
<1> QED BY <1>1, <1>2, <1>5 DEF SightInv

LEMMA WaitKeepsSight == SightInv /\ Wait => SightInv'
<1> SUFFICES ASSUME SightInv, Wait PROVE SightInv'
  OBVIOUS
<1>1. /\ Idle /\ round = {} /\ round' = Due
      /\ UNCHANGED <<frames, stamp, latest, ticking, due, cmd>>
  BY DEF Wait, inputs, outlook, timing
<1>2. TicksAreShort'
  BY <1>1 DEF SightInv, TicksAreShort, Idle
<1>3. LooksAreRecent'
  BY <1>1 DEF SightInv, LooksAreRecent, Idle, Moves, Looks
<1>4. "image" \in round' <=> frames # <<>>
  BY <1>1 DEF Due
<1>5. ASSUME NEW i \in DOMAIN frames PROVE Ahead("image", i)' <= Ahead("image", i)
  <2>1. i \in Nat /\ "image" \in round'
    BY <1>4 DEF SightInv, FramesWait
  <2> QED BY <1>1, <2>1 DEF Ahead
<1>6. FramesWait'
  BY <1>1, <1>2, <1>4, <1>5, FramesStay
<1> QED BY <1>2, <1>3, <1>6 DEF SightInv

LEMMA ControlTickKeepsSight == SightInv /\ ControlTick => SightInv'
<1> SUFFICES ASSUME SightInv, ControlTick PROVE SightInv'
  OBVIOUS
<1>1. /\ Idle /\ "timer" \in round /\ round' = round \ {"timer"} /\ due' = 0
      /\ UNCHANGED <<frames, stamp, latest>>
      /\ \/ ~Moves' /\ UNCHANGED ticking
         \/ ticking' = 0 /\ stamp <= Stale /\ UNCHANGED cmd
  <2>1. CASE human \/ mode = "manual" \/ StaleFrame
    BY <2>1, Telling DEF ControlTick, Serve, Turn, inputs, outlook
  <2>2. CASE ~(human \/ mode = "manual" \/ StaleFrame)
    BY <2>2, Times DEF ControlTick, Serve, Turn, inputs, outlook, StaleFrame, SightInv, LooksAreRecent
  <2> QED BY <2>1, <2>2
<1>2. TicksAreShort'
  BY <1>1, Times DEF SightInv, TicksAreShort, Idle
<1>3. LooksAreRecent'
  BY <1>1, Times DEF SightInv, LooksAreRecent, Idle, Looks
<1>4. ASSUME NEW i \in DOMAIN frames PROVE Ahead("image", i)' = Ahead("image", i) - 1
  <2>1. i \in Nat
    BY DEF SightInv, FramesWait
  <2> QED BY <1>1, <2>1 DEF Ahead
<1>5. ticking' \in {-1, 0} /\ ("image" \in round' => frames # <<>>)
  BY <1>1 DEF Idle, SightInv, FramesWait
<1>6. FramesWait'
  BY <1>1, <1>2, <1>4, <1>5, FramesStay
<1> QED BY <1>2, <1>3, <1>6 DEF SightInv

LEMMA EndTickKeepsSight == \A flag \in BOOLEAN : SightInv /\ EndTick(flag) => SightInv'
<1> SUFFICES ASSUME SightInv, NEW flag \in BOOLEAN, EndTick(flag) PROVE SightInv'
  OBVIOUS
<1>1. /\ ~Idle /\ ticking' = -1
      /\ UNCHANGED <<frames, stamp, latest, round, due>>
  BY DEF EndTick, inputs, outlook
<1>2. TicksAreShort'
  BY <1>1, Times DEF SightInv, TicksAreShort, Idle
<1>3. LooksAreRecent'
  BY <1>1 DEF SightInv, LooksAreRecent, Idle, Looks
<1>4. ASSUME NEW i \in DOMAIN frames PROVE Ahead("image", i)' <= Ahead("image", i)
  <2>1. i \in Nat
    BY DEF SightInv, FramesWait
  <2> QED BY <1>1, <2>1 DEF Ahead
<1>5. FramesWait'
  BY <1>1, <1>2, <1>4, FramesStay DEF SightInv, FramesWait
<1> QED BY <1>2, <1>3, <1>5 DEF SightInv

\* The frame that is taken has waited as long as a frame may.
LEMMA OnImageKeepsSight == \A flag \in BOOLEAN : SightInv /\ OnImage(flag) => SightInv'
<1> SUFFICES ASSUME SightInv, NEW flag \in BOOLEAN, OnImage(flag) PROVE SightInv'
  OBVIOUS
<1>1. /\ Idle /\ "image" \in round /\ "timer" \notin round /\ round' = round \ {"image"}
      /\ frames' = Tail(frames)
      /\ UNCHANGED <<ticking, due, cmd>>
      /\ IF flag THEN stamp' = 0 /\ latest' = Head(frames) ELSE UNCHANGED <<stamp, latest>>
  BY DEF OnImage, Serve, Turn, timing, outlook
<1>2. TicksAreShort'
  BY <1>1 DEF SightInv, TicksAreShort, Idle
<1>3. /\ frames \in Seq(Nat) /\ frames # <<>> /\ Len(frames) <= FrameQueue /\ FrameQueue \in Nat
      /\ InTime("image", frames, FrameQueue)
  BY <1>1, Times DEF SightInv, FramesWait
<1>4. /\ Head(frames) \in Nat /\ Head(frames) <= Looks(FrameQueue + 1)
      /\ Tail(frames) \in Seq(Nat) /\ Len(Tail(frames)) = Len(frames) - 1
      /\ Len(frames) \in Nat \ {0}
      /\ \A i \in DOMAIN Tail(frames) :
           Tail(frames)[i] + Left("image", i)' <= Looks(FrameQueue + 1)
  BY <1>1, <1>3, FirstIsTaken DEF SightInv, Channel
<1>5. Looks(FrameQueue + 1) \in Nat /\ Looks(FrameQueue + 1)' = Looks(FrameQueue + 1)
  BY <1>3, LooksAdd DEF Looks
<1>6. Looks(FrameQueue + 1) <= Old /\ Old \in Nat
  BY <1>5, Times DEF Old, Blind, Looks
<1>7. LooksAreRecent'
  <2>1. CASE flag
    <3>1. stamp' = 0 /\ latest' = Head(frames)
      BY <1>1, <2>1
    <3>2. stamp' <= Stale + due'
      BY <1>1, <3>1, Times DEF SightInv, TicksAreShort
    <3> QED BY <1>4, <1>5, <1>6, <3>1, <3>2 DEF LooksAreRecent, Old, Blind
  <2>2. CASE ~flag
    BY <1>1, <1>5, <2>2 DEF SightInv, LooksAreRecent, Idle, Moves
  <2> QED BY <2>1, <2>2
<1>8. FramesWait'
  BY <1>1, <1>3, <1>4, <1>5 DEF FramesWait, InTime
<1> QED BY <1>2, <1>7, <1>8 DEF SightInv

\* A frame is published; it waits for the frames before it.
LEMMA CaptureKeepsSight == SightInv /\ Capture => SightInv'
<1> SUFFICES ASSUME SightInv, Capture PROVE SightInv'
  OBVIOUS
<1>1. /\ frames' = Joined(frames, 0, FrameQueue)
      /\ UNCHANGED <<stamp, latest, round, ticking, due, cmd>>
  BY DEF Capture, outlook, timing, Joined
<1>2. TicksAreShort'
  BY <1>1 DEF SightInv, TicksAreShort, Idle
<1>3. LooksAreRecent'
  BY <1>1 DEF SightInv, LooksAreRecent, Idle, Moves, Looks
<1>4. /\ frames \in Seq(Nat) /\ Len(frames) <= FrameQueue /\ FrameQueue \in Nat \ {0}
      /\ InTime("image", frames, FrameQueue)
  BY Times DEF SightInv, FramesWait
<1>5. /\ frames' \in Seq(Nat) /\ frames' # <<>> /\ Len(frames') <= FrameQueue
      /\ \A i \in DOMAIN frames' : frames'[i] + Left("image", i)' <= Looks(FrameQueue + 1)
  BY <1>1, <1>4, LastWaits DEF SightInv, Channel
<1>6. FramesWait'
  BY <1>5 DEF FramesWait, InTime, Looks
<1> QED BY <1>2, <1>3, <1>6 DEF SightInv

LEMMA ClockKeepsSight == SightInv /\ Clock => SightInv'
<1> SUFFICES ASSUME SightInv, Clock PROVE SightInv'
  OBVIOUS
<1>1. /\ IF Idle THEN round = {} /\ Due = {} ELSE ticking < Work
      /\ ticking' = (IF Idle THEN -1 ELSE ticking + 1) /\ due' = due + 1
      /\ frames' = [i \in DOMAIN frames |-> Older(frames[i])]
      /\ stamp' = Older(stamp) /\ latest' = Older(latest)
      /\ UNCHANGED <<round, cmd>>
  BY DEF Clock
<1>2. Old \in Nat /\ Looks(FrameQueue + 1) \in Nat
  BY LooksAdd, Times DEF Old, Blind, Looks
<1>3. \A n \in Nat : Older(n) \in Nat /\ Older(n) <= n + 1
  BY <1>2 DEF Older
<1>4. TicksAreShort'
  <2>1. CASE Idle
    <3>1. due < Period
      <4>1. "timer" \notin Due
        BY <1>1, <2>1
      <4>2. ~(due >= Period)
        BY <4>1 DEF Due
      <4> QED BY <4>2, Times DEF SightInv, TicksAreShort
    <3> QED BY <1>1, <2>1, <3>1, Times DEF SightInv, TicksAreShort, Idle
  <2>2. CASE ~Idle
    BY <1>1, <2>2, Times DEF SightInv, TicksAreShort, Idle
  <2> QED BY <2>1, <2>2
<1>5. LooksAreRecent'
  <2>1. /\ stamp' \in Nat /\ latest' \in Nat /\ stamp' <= latest' /\ latest' <= Old
        /\ latest' <= stamp' + Looks(FrameQueue + 1) /\ stamp' <= stamp + 1
    BY <1>1, <1>2 DEF SightInv, LooksAreRecent, Older
  <2>2. Moves' \/ ~Idle' => Moves \/ ~Idle
    BY <1>1 DEF Moves, Idle
  <2>3. Moves' \/ ~Idle' => stamp' <= Stale + due'
    BY <1>1, <2>1, <2>2, Times DEF SightInv, LooksAreRecent, TicksAreShort
  <2> QED BY <2>1, <2>3 DEF LooksAreRecent, Looks, Old, Blind
<1>6. /\ frames \in Seq(Nat) /\ Len(frames) <= FrameQueue /\ FrameQueue \in Nat
      /\ InTime("image", frames, FrameQueue)
  BY Times DEF SightInv, FramesWait
<1>7. /\ frames' = [i \in DOMAIN frames |-> frames'[i]]
      /\ \A i \in DOMAIN frames : frames'[i] \in Nat /\ frames'[i] <= frames[i] + 1
  <2>1. ASSUME NEW i \in DOMAIN frames
        PROVE  frames'[i] = Older(frames[i]) /\ frames[i] \in Nat
    BY <1>1, <1>6
  <2>2. frames' = [i \in DOMAIN frames |-> frames'[i]]
    BY <1>1
  <2> QED BY <1>3, <2>1, <2>2
<1>8. frames' \in Seq(Nat) /\ Len(frames') = Len(frames) /\ DOMAIN frames' = DOMAIN frames
  BY <1>6, <1>7, OlderQueue
<1>9. "image" \in round' => frames' # <<>>
  <2>1. "image" \in round' => Len(frames) # 0
    BY <1>1, <1>6 DEF SightInv, FramesWait
  <2> QED BY <1>8, <2>1
<1>10. FramesWait'
  <2>1. CASE Idle
    <3>1. frames = <<>>
      BY <1>1, <2>1 DEF Due
    <3>2. DOMAIN frames' = {}
      BY <1>8, <3>1
    <3> QED BY <1>6, <1>8, <1>9, <3>2 DEF FramesWait, InTime
  <2>2. CASE ~Idle
    <3>1. \A i \in DOMAIN frames' : frames'[i] + Left("image", i)' <= Looks(FrameQueue + 1)
      BY <1>1, <1>6, <1>7, <2>2, AllGrowOlder DEF SightInv, Channel
    <3> QED BY <1>6, <1>8, <1>9, <3>1 DEF FramesWait, InTime, Looks
  <2> QED BY <2>1, <2>2
<1> QED BY <1>4, <1>5, <1>10 DEF SightInv

LEMMA SightActs ==
  ASSUME SightInv, AutonomyNext
  PROVE  SightInv'
<1>1. CASE OnMode
  <2>1. UNCHANGED <<frames, outlook, ticking, due>> /\ round' = round \ {"mode"} /\ ~Moves'
    BY <1>1, Telling DEF OnMode, Serve
  <2> QED BY <2>1, OtherCallbacks
<1>2. CASE OnOverride
  <2>1. UNCHANGED <<frames, outlook, ticking, due>> /\ round' = round \ {"override"}
    BY <1>2 DEF OnOverride, Serve, inputs, timing
  <2>2. Moves' => Moves
    BY <1>2, Telling DEF OnOverride, Heeds, Moves
  <2> QED BY <2>1, <2>2, OtherCallbacks
<1>3. ASSUME NEW m \in Asked, RequestMode(m) PROVE SightInv'
  <2>1. UNCHANGED <<frames, outlook, ticking, due, round, cmd>>
    BY <1>3 DEF RequestMode, timing
  <2> QED BY <2>1, OtherCallbacks DEF Moves
<1>4. ASSUME NEW active \in BOOLEAN, HumanSpeaks(active) PROVE SightInv'
  <2>1. UNCHANGED <<frames, outlook, ticking, due, round, cmd>>
    BY <1>4 DEF HumanSpeaks, cameraVars, inputs, timing
  <2> QED BY <2>1, OtherCallbacks DEF Moves
<1> QED BY <1>1, <1>2, <1>3, <1>4, WaitKeepsSight, ControlTickKeepsSight, EndTickKeepsSight,
           OnImageKeepsSight, CaptureKeepsSight, ClockKeepsSight 
       DEF AutonomyNext, NodeActs, TimePasses, OthersAct, NodeNext

-----------------------------------------------------------------------------
(* The words on human_override.                                            *)

\* The words stay; how long they may still wait does not grow.
LEMMA WordsStay ==
  ASSUME WordsWait, TicksAreShort, TicksAreShort', UNCHANGED <<waited, overrides>>,
         \A i \in DOMAIN waited :
           \/ Ahead("override", i)' <= Ahead("override", i) /\ ticking' = ticking
           \/ Ahead("override", i)' <= Ahead("override", i) /\ ticking' = -1
           \/ Ahead("override", i)' = Ahead("override", i) - 1 /\ Idle /\ ticking' \in {-1, 0}
  PROVE  WordsWait'
<1>1. /\ waited \in Seq(Nat) /\ Depth \in Nat /\ InTime("override", waited, Depth)
  BY FleetAssumption DEF WordsWait
<1>2. \A i \in DOMAIN waited : waited[i] + Left("override", i)' <= Looks(Depth + 1)
  BY <1>1, StillInTime
<1> QED BY <1>1, <1>2 DEF WordsWait, InTime, Looks

\* What the node does before it takes a word.
LEMMA WordsWaitOn ==
  ASSUME WordsWait, YieldInv, TicksAreShort, TicksAreShort', UNCHANGED <<waited, overrides>>,
         \/ Wait
         \/ UNCHANGED ticking /\ round' \subseteq round /\ ("override" \in round => "override" \in round')
         \/ ControlTick
         \/ \E flag \in BOOLEAN : EndTick(flag)
  PROVE  WordsWait'
<1>1. \A i \in DOMAIN waited : i \in Nat \ {0}
  BY DEF WordsWait
<1>2. CASE Wait
  <2>1. round = {} /\ round' = Due /\ UNCHANGED ticking
    BY <1>2 DEF Wait, timing
  <2>2. DOMAIN waited # {} => "override" \in round'
    <3>1. DOMAIN waited # {} => Len(overrides[rover]) # 0
      BY DEF WordsWait
    <3> QED BY <2>1, <3>1 DEF Due
  <2>3. \A i \in DOMAIN waited : Ahead("override", i)' <= Ahead("override", i)
    BY <1>1, <2>1, <2>2 DEF Ahead
  <2> QED BY <2>1, <2>3, WordsStay
<1>3. CASE /\ UNCHANGED ticking /\ round' \subseteq round
           /\ "override" \in round => "override" \in round'
  <2>1. \A i \in DOMAIN waited : Ahead("override", i)' <= Ahead("override", i)
    BY <1>1, <1>3 DEF Ahead
  <2> QED BY <1>3, <2>1, WordsStay
<1>4. CASE ControlTick
  <2>1. /\ Idle /\ "timer" \in round /\ round' = round \ {"timer"}
        /\ ticking' \in {ticking, 0}
    BY <1>4 DEF ControlTick, Serve, Turn
  <2>2. \A i \in DOMAIN waited : Ahead("override", i)' = Ahead("override", i) - 1
    BY <1>1, <2>1 DEF Ahead
  <2>3. ticking' \in {-1, 0}
    BY <2>1 DEF Idle
  <2> QED BY <2>1, <2>2, <2>3, WordsStay
<1>5. CASE \E flag \in BOOLEAN : EndTick(flag)
  <2>1. ticking' = -1 /\ UNCHANGED round
    BY <1>5 DEF EndTick
  <2>2. \A i \in DOMAIN waited : Ahead("override", i)' <= Ahead("override", i)
    BY <1>1, <2>1 DEF Ahead
  <2> QED BY <2>1, <2>2, WordsStay
<1> QED BY <1>2, <1>3, <1>4, <1>5

LEMMA WordsActs ==
  ASSUME WordsWait, YieldInv, TicksAreShort, TicksAreShort', AutonomyNext
  PROVE  WordsWait'
<1>1. /\ waited \in Seq(Nat) /\ Len(waited) = Len(overrides[rover]) /\ Len(waited) <= Depth
      /\ Depth \in Nat \ {0} /\ InTime("override", waited, Depth)
  BY FleetAssumption DEF WordsWait, YieldInv
<1>2. CASE OnOverride /\ NodeActs
  <2>1. /\ overrides[rover] # <<>> /\ overrides' # overrides
        /\ Len(overrides'[rover]) = Len(overrides[rover]) - 1
    BY <1>2, OverrideTaken
  <2>2. waited' = Tail(waited)
    BY <1>2, <2>1 DEF NodeActs
  <2>3. /\ Idle /\ "override" \in round /\ "timer" \notin round /\ round' = round \ {"override"}
        /\ UNCHANGED ticking
    BY <1>2 DEF OnOverride, Serve, Turn, timing
  <2>4. waited # <<>>
    <3>1. overrides[rover] \in Seq(BOOLEAN)
      BY Times DEF YieldInv
    <3>2. Len(overrides[rover]) # 0
      BY <2>1, <3>1
    <3> QED BY <1>1, <3>2
  <2>5. /\ Tail(waited) \in Seq(Nat) /\ Len(Tail(waited)) = Len(waited) - 1
        /\ \A i \in DOMAIN Tail(waited) :
             Tail(waited)[i] + Left("override", i)' <= Looks(Depth + 1)
    BY <1>1, <2>3, <2>4, FirstIsTaken DEF Channel
  <2> QED BY <1>1, <2>1, <2>2, <2>5 DEF WordsWait, InTime, Looks
<1>3. CASE NodeActs /\ ~OnOverride
  <2>1. UNCHANGED <<waited, overrides>>
    BY <1>3 DEF NodeActs, NodeNext, Wait, OnMode, OnImage, ControlTick, EndTick
  <2>2. \/ Wait \/ ControlTick \/ \E flag \in BOOLEAN : EndTick(flag)
        \/ OnMode \/ \E flag \in BOOLEAN : OnImage(flag)
    BY <1>3 DEF NodeActs, NodeNext
  <2>3. CASE OnMode \/ \E flag \in BOOLEAN : OnImage(flag)
    <3>1. UNCHANGED ticking /\ (round' = round \ {"mode"} \/ round' = round \ {"image"})
      BY <2>3 DEF OnMode, OnImage, Serve, timing
    <3> QED BY <2>1, <3>1, WordsWaitOn
  <2> QED BY <2>1, <2>2, <2>3, WordsWaitOn
<1>4. CASE OthersAct
  <2>1. UNCHANGED <<waited, overrides, round, ticking>>
    BY <1>4 DEF OthersAct, Capture, RequestMode, timing
  <2> QED BY <2>1, WordsWaitOn
<1>5. CASE TimePasses
  <2>1. /\ IF Idle THEN round = {} /\ Due = {} ELSE ticking < Work /\ ticking' = ticking + 1
        /\ UNCHANGED <<round, overrides>>
        /\ waited' = [i \in DOMAIN waited |-> Longer(waited[i])]
    BY <1>5 DEF TimePasses, Clock
  <2>2. Patience \in Nat
    BY <1>1, LooksAdd DEF Patience, Looks
  <2>3. /\ waited' = [i \in DOMAIN waited |-> waited'[i]]
        /\ \A i \in DOMAIN waited : waited'[i] \in Nat /\ waited'[i] <= waited[i] + 1
    BY <1>1, <2>1, <2>2 DEF Longer
  <2>4. waited' \in Seq(Nat) /\ Len(waited') = Len(waited) /\ DOMAIN waited' = DOMAIN waited
    BY <1>1, <2>3, OlderQueue
  <2>5. CASE Idle
    <3>1. overrides[rover] = <<>>
      BY <2>1, <2>5 DEF Due
    <3>2. DOMAIN waited' = {}
      BY <1>1, <2>4, <3>1
    <3> QED BY <1>1, <2>1, <2>4, <3>2 DEF WordsWait, InTime
  <2>6. CASE ~Idle
    <3>1. \A i \in DOMAIN waited' : waited'[i] + Left("override", i)' <= Looks(Depth + 1)
      BY <1>1, <2>1, <2>3, <2>6, AllGrowOlder DEF Channel
    <3> QED BY <1>1, <2>1, <2>4, <3>1 DEF WordsWait, InTime, Looks
  <2> QED BY <2>5, <2>6
<1>6. ASSUME NEW active \in BOOLEAN, HumanSpeaks(active) PROVE WordsWait'
  <2>1. UNCHANGED <<round, ticking>>
    BY <1>6 DEF HumanSpeaks, cameraVars, timing
  <2>2. waited' = Joined(waited, 0, Depth)
    BY <1>6 DEF HumanSpeaks, Joined
  <2>3. /\ waited' \in Seq(Nat)
        /\ Len(waited') = IF Len(waited) = Depth THEN Depth ELSE Len(waited) + 1
        /\ \A i \in DOMAIN waited' : waited'[i] + Left("override", i)' <= Looks(Depth + 1)
    BY <1>1, <2>1, <2>2, LastWaits DEF Channel
  <2>4. Len(waited') = Len(overrides'[rover])
    BY <1>1, <1>6, <2>3, HumanSpeaksTo
  <2> QED BY <2>3, <2>4 DEF WordsWait, InTime, Looks
<1> QED BY <1>2, <1>3, <1>4, <1>5, <1>6 DEF AutonomyNext
-----------------------------------------------------------------------------
\* Who else tells a robot what to do is not its camera.
SightAlways ==
  IF part = "autonomy" THEN SightInv /\ WordsWait ELSE ~Moves /\ waited = <<>>

LEMMA TerminalIsNoCamera ==
  ASSUME TeleopNext, ~Moves
  PROVE  ~Moves'
<1>1. ASSUME NEW q, NEW twist, Publish(q, twist) PROVE ~Moves'
  BY <1>1, Times DEF Publish, Tell, Moves
<1>2. UNCHANGED cmd \/ \E q, twist : Publish(q, twist)
  BY DEF TeleopNext, NothingDue, RepublishLastTwist, OfflineWatchdog, PublishHumanOverride,
         Refresh, StopKey, ToggleStrafe, SwitchRobot, Interrupt, Kill, Restart, Move,
         Heartbeats, ChooseRobot, ComeOrGo, topics
<1> QED BY <1>1, <1>2 DEF Moves

LEMMA SightStart == Init => SightAlways
<1> SUFFICES ASSUME Init PROVE SightAlways
  OBVIOUS
<1>1. ~Moves
  BY Times DEF Init, TopicsInit, Moves
<1>2. Old \in Nat /\ Looks(FrameQueue + 1) \in Nat
  BY LooksAdd, Times DEF Old, Blind, Looks
<1>3. SightInv
  BY <1>1, <1>2, Times DEF Init, CameraInit, SightInv, FramesWait, InTime, TicksAreShort,
                           LooksAreRecent, Idle
<1>4. waited = <<>> /\ overrides[rover] = <<>>
  BY Times DEF Init, TopicsInit
<1>5. WordsWait
  BY <1>4 DEF WordsWait, InTime
<1> QED BY <1>1, <1>3, <1>4, <1>5 DEF SightAlways

LEMMA SightStep == SightAlways /\ AutonomyInv /\ [Next]_vars => SightAlways'
<1> SUFFICES ASSUME SightAlways, AutonomyInv, [Next]_vars PROVE SightAlways'
  OBVIOUS
<1>1. CASE part = "autonomy" /\ Autonomy
  <2>1. SightInv' /\ UNCHANGED part
    BY <1>1, Steps, SightActs DEF SightAlways, Autonomy
  <2>2. WordsWait'
    BY <1>1, <2>1, WordsActs DEF SightAlways, SightInv, AutonomyInv, Autonomy
  <2> QED BY <1>1, <2>1, <2>2 DEF SightAlways
<1>2. CASE part = "terminal" /\ Terminal
  BY <1>2, Steps, TerminalIsNoCamera DEF SightAlways, Terminal
<1>3. CASE UNCHANGED <<cameraVars, topics, waited>>
  BY <1>3, Steps DEF SightAlways, SightInv, FramesWait, WordsWait, InTime, TicksAreShort,
                     LooksAreRecent, Left, Ahead, Looks, Idle, Moves, cameraVars, inputs, outlook,
                     timing, topics
<1> QED BY <1>1, <1>2, <1>3 DEF Next, Page, Videos, Feeds, Sessions, Tools, Only, Rests, vars

SightAndYield == SightAlways /\ AutonomyInv

LEMMA SightAndYieldAlways == Spec => []SightAndYield
<1>1. Init => SightAndYield
  BY SightStart, AutonomyStart DEF SightAndYield
<1>2. SightAndYield /\ [Next]_vars => SightAndYield'
  BY SightStep, AutonomyStep DEF SightAndYield
<1> QED BY <1>1, <1>2, PTL DEF Spec

\* However long a look takes, however many frames wait and whatever else is
\* served: a robot is never left moving by a frame older than the frames, the
\* looks and the time frame_stale_timeout_s allows explain (_control_tick).
THEOREM TheRobotSeesWhereItGoes == Spec => []SeesWhereItGoes
<1>1. SightAndYield => SeesWhereItGoes
  <2> SUFFICES ASSUME SightAndYield, Moves PROVE latest <= Blind
    BY DEF SeesWhereItGoes
  <2>1. SightInv
    BY DEF SightAndYield, SightAlways
  <2>2. /\ stamp \in Nat /\ latest \in Nat /\ latest <= stamp + Looks(FrameQueue + 1)
        /\ stamp <= Stale + due /\ due \in Nat /\ (due <= Period \/ due <= Work)
    BY <2>1 DEF SightInv, LooksAreRecent, TicksAreShort
  <2>3. Blind = Looks(FrameQueue + 1) + Stale + (IF Period > Work THEN Period ELSE Work)
    BY DEF Blind, Looks
  <2>4. Looks(FrameQueue + 1) \in Nat
    BY LooksAdd, Times
  <2> QED BY <2>2, <2>3, <2>4, Times
<1> QED BY <1>1, SightAndYieldAlways, PTL

\* However frames, modes, looks and other words keep the node busy, a word on
\* human_override waits for a look for each word there is room for and one more at
\* most, and a human who drives finds the robot left to them (_on_override,
\* _control_tick).
THEOREM AHumanIsHeardInTime == Spec => []HumansAreHeard
<1>1. SightAndYield => HumansAreHeard
  <2> SUFFICES ASSUME SightAndYield PROVE HumansAreHeard
    OBVIOUS
  <2>1. human => ~Moves
    BY DEF SightAndYield, AutonomyInv, YieldInv
  <2>2. CASE part # "autonomy"
    BY <2>1, <2>2 DEF SightAndYield, SightAlways, HumansAreHeard
  <2>3. ASSUME part = "autonomy", NEW i \in DOMAIN waited PROVE waited[i] <= Patience
    <3>1. /\ waited \in Seq(Nat) /\ waited[i] + Left("override", i) <= Looks(Depth + 1)
          /\ TicksAreShort
      BY <2>3 DEF SightAndYield, SightAlways, WordsWait, InTime, SightInv
    <3>2. i \in Nat \ {0} /\ waited[i] \in Nat /\ Left("override", i) \in Nat
      BY <3>1, LeftIsNatural DEF WaitsAreTimes
    <3>3. Patience = Looks(Depth + 1) /\ Looks(Depth + 1) \in Nat
      BY FleetAssumption, LooksAdd DEF Patience, Looks
    <3> QED BY <3>1, <3>2, <3>3
  <2> QED BY <2>1, <2>2, <2>3 DEF HumansAreHeard
<1> QED BY <1>1, SightAndYieldAlways, PTL
-----------------------------------------------------------------------------
(* Types.  What the programs' own invariants leave open.                   *)

ScreenTyped == {fresh, waits, grace} \subseteq BOOLEAN

LEMMA ScreenStep == ScreenTyped /\ [Next]_vars => ScreenTyped'
<1> SUFFICES ASSUME ScreenTyped, [Next]_vars PROVE ScreenTyped'
  OBVIOUS
<1>1. CASE UNCHANGED videoVars
  BY <1>1 DEF ScreenTyped, videoVars, screen
<1>2. CASE VideoNext
  <2>1. CASE ChooseShown
    BY <2>1 DEF ChooseShown, Switch, ScreenTyped, videoVars, screen
  <2>2. CASE VideoExit \/ VideoLoad
    BY <2>2 DEF VideoExit, VideoLoad, ScreenTyped, screen
  <2>3. CASE RetryLoop \/ FallbackLoop
    BY <2>3 DEF RetryLoop, FallbackLoop, Renew, ScreenTyped
  <2>4. CASE Offered \/ Posted \/ Aborted \/ Answered \/ Applied \/ Failed
    BY <2>4 DEF Offered, Posted, Aborted, Answered, Applied, Failed, Proceed, Over, ScreenTyped,
                screen
  <2>5. CASE Track \/ Break \/ Flow \/ WaitOver \/ GraceOver
    BY <2>5 DEF Track, Break, Flow, WaitOver, GraceOver, ScreenTyped, screen
  <2> QED BY <1>2, <2>1, <2>2, <2>3, <2>4, <2>5 DEF VideoNext
<1> QED BY <1>1, <1>2, Steps

LEMMA VideoIsTyped == VideoInv /\ ChoiceTypeOK /\ ScreenTyped => VideoTypeOK
BY DEF VideoInv, ScreenTyped, ShowsTheActive, ConnType, AttemptType, VideoTypeOK

\* The terminal.
CmdTyped == cmd \in [Robot -> Message]

OverridesTyped ==
  /\ overrides = [r \in Robot |-> overrides[r]]
  /\ \A r \in Robot : overrides[r] \in Seq(BOOLEAN) /\ Len(overrides[r]) <= Depth

LEMMA TellTyped ==
  ASSUME CmdTyped, NEW r, NEW who \in {"terminal", "camera"}, NEW twist \in Twist,
         Tell(r, who, twist)
  PROVE  CmdTyped'
BY DEF CmdTyped, Tell, Message

LEMMA TellOverrideTyped ==
  ASSUME OverridesTyped, NEW r, NEW active \in BOOLEAN, TellOverride(r, active)
  PROVE  OverridesTyped'
<1>1. ASSUME NEW q \in Robot
      PROVE  overrides'[q] \in Seq(BOOLEAN) /\ Len(overrides'[q]) <= Depth
  <2>1. overrides[q] \in Seq(BOOLEAN) /\ Len(overrides[q]) <= Depth
    BY DEF OverridesTyped
  <2>2. overrides'[q] = IF q = r /\ q \in Autonomous THEN Enqueued(overrides[q], active)
                                                      ELSE overrides[q]
    BY DEF TellOverride
  <2> QED BY <2>1, <2>2, EnqueuedTyped
<1>2. overrides' = [q \in Robot |-> overrides'[q]]
  BY DEF TellOverride
<1> QED BY <1>1, <1>2 DEF OverridesTyped

\* What the terminal and the autonomy tell the robots.
LEMMA TerminalMessages ==
  ASSUME TerminalInv, CmdTyped, OverridesTyped, TeleopNext
  PROVE  CmdTyped' /\ OverridesTyped'
<1>1. UNCHANGED cmd \/ \E q : \E twist \in Twist : Publish(q, twist)
  BY DEF TeleopNext, NothingDue, RepublishLastTwist, OfflineWatchdog, PublishHumanOverride,
         Refresh, StopKey, ToggleStrafe, SwitchRobot, Interrupt, Kill, Restart, Move,
         Heartbeats, ChooseRobot, ComeOrGo, topics, TerminalInv, Twist
<1>2. UNCHANGED overrides \/ \E q : \E active \in BOOLEAN : TellOverride(q, active)
  BY DEF TeleopNext, NothingDue, RepublishLastTwist, OfflineWatchdog, PublishHumanOverride,
         Refresh, StopKey, ToggleStrafe, SwitchRobot, Interrupt, Kill, Restart, Move,
         Heartbeats, ChooseRobot, ComeOrGo, topics
<1>3. CmdTyped'
  BY <1>1, TellTyped DEF Publish, CmdTyped
<1>4. OverridesTyped'
  BY <1>2, TellOverrideTyped DEF OverridesTyped
<1> QED BY <1>3, <1>4

LEMMA AutonomyMessages ==
  ASSUME YieldInv, CmdTyped, OverridesTyped,
         AutonomyNext
  PROVE  CmdTyped' /\ OverridesTyped'
<1>1. UNCHANGED cmd \/ \E twist \in Twist : Drive(twist)
  <2>1. CASE OnMode \/ OnOverride \/ ControlTick
    BY <2>1 DEF OnMode, OnOverride, Heeds, ControlTick, Twist
  <2>2. ASSUME NEW flag \in BOOLEAN, EndTick(flag) PROVE \E twist \in Twist : Drive(twist)
    BY <2>2 DEF EndTick, Twist
  <2> QED BY <2>1, <2>2 DEF AutonomyNext, NodeActs, TimePasses, OthersAct, NodeNext,
                            Wait, OnImage, Capture, Clock, RequestMode, HumanSpeaks
<1>2. CmdTyped'
  BY <1>1, TellTyped DEF Drive, CmdTyped
<1>3. \/ UNCHANGED overrides
      \/ OnOverride
      \/ \E active \in BOOLEAN : TellOverride(rover, active)
  BY DEF AutonomyNext, NodeActs, TimePasses, OthersAct, NodeNext, Wait, OnMode, OnImage, ControlTick, EndTick, Capture, Clock,
         RequestMode, HumanSpeaks
<1>4. CASE OnOverride
  <2>1. overrides' = [overrides EXCEPT ![rover] = Tail(@)] /\ overrides[rover] # <<>>
        /\ rover \in Robot
    BY <1>4, Times DEF OnOverride, Serve, Turn, YieldInv
  <2>2. /\ overrides[rover] \in Seq(BOOLEAN) /\ Len(overrides[rover]) <= Depth
        /\ Len(overrides[rover]) \in Nat
    BY <2>1 DEF OverridesTyped
  <2>3. Tail(overrides[rover]) \in Seq(BOOLEAN)
        /\ Len(Tail(overrides[rover])) = Len(overrides[rover]) - 1
    BY <2>1, <2>2, TailElements
  <2>4. overrides' = [q \in Robot |-> IF q = rover THEN Tail(overrides[rover]) ELSE overrides[q]]
    BY <2>1 DEF OverridesTyped
  <2>5. Len(Tail(overrides[rover])) <= Depth
    BY <2>2, <2>3, FleetAssumption
  <2> QED BY <1>2, <2>3, <2>4, <2>5 DEF OverridesTyped
<1>5. CASE UNCHANGED overrides \/ \E active \in BOOLEAN : TellOverride(rover, active)
  BY <1>5, <1>2, TellOverrideTyped DEF OverridesTyped
<1> QED BY <1>3, <1>4, <1>5

TopicsInv == CmdTyped /\ OverridesTyped

LEMMA TopicsStep ==
  TopicsInv /\ TerminalInv /\ AutonomyInv /\ [Next]_vars => TopicsInv'
<1> SUFFICES ASSUME TopicsInv, TerminalInv, AutonomyInv, [Next]_vars PROVE TopicsInv'
  OBVIOUS
<1>1. CASE part = "autonomy" /\ Autonomy
  BY <1>1, AutonomyMessages DEF TopicsInv, AutonomyInv, Autonomy
<1>2. CASE part = "terminal" /\ Terminal
  BY <1>2, TerminalMessages DEF TopicsInv, Terminal
<1>3. CASE UNCHANGED topics
  BY <1>3 DEF TopicsInv, CmdTyped, OverridesTyped, topics
<1> QED BY <1>1, <1>2, <1>3 DEF Next, Page, Videos, Feeds, Sessions, Tools, Only, Rests, vars

LEMMA TeleopTypedActs == TeleopTypeOK /\ TeleopNext => TeleopTypeOK'
<1> SUFFICES ASSUME TeleopTypeOK, TeleopNext PROVE TeleopTypeOK'
  OBVIOUS
<1> USE DEF TeleopTypeOK, Twist
<1>1. CASE NothingDue \/ RepublishLastTwist \/ PublishHumanOverride \/ Refresh \/ SwitchRobot
           \/ Interrupt
  BY <1>1 DEF NothingDue, RepublishLastTwist, PublishHumanOverride, Refresh, SwitchRobot,
              Interrupt, Spun, Key, keyboard, motion
<1>2. CASE OfflineWatchdog \/ StopKey \/ ToggleStrafe \/ Kill \/ Restart
  BY <1>2 DEF OfflineWatchdog, StopKey, ToggleStrafe, Kill, Restart, Spun, Key, Rest, keyboard,
              motion
<1>3. ASSUME NEW digit \in BOOLEAN, Move(digit) PROVE TeleopTypeOK'
  BY <1>3 DEF Move, Key, motion
<1>4. ASSUME NEW r \in Robot, Heartbeats(r) \/ ChooseRobot(r) \/ ComeOrGo(r)
      PROVE  TeleopTypeOK'
  BY <1>4 DEF Heartbeats, ChooseRobot, ComeOrGo, Spun, TunedFor, keyboard, motion
<1> QED BY <1>1, <1>2, <1>3, <1>4 DEF TeleopNext

LEMMA TeleopTypedStep == TeleopTypeOK /\ [Next]_vars => TeleopTypeOK'
<1> SUFFICES ASSUME TeleopTypeOK, [Next]_vars PROVE TeleopTypeOK'
  OBVIOUS
<1>1. CASE UNCHANGED teleopVars
  BY <1>1 DEF TeleopTypeOK, teleopVars, keyboard, motion
<1> QED BY <1>1, Steps, TeleopTypedActs

\* The autonomy.
SettingsTyped ==
  /\ mode \in Mode /\ human \in BOOLEAN
  /\ requests \in Seq(Mode) /\ ("mode" \in round => requests # <<>>)
  /\ round \subseteq {"timer", "image", "mode", "override"}
  /\ turn \in 0 .. TurnTime

LEMMA SettingsActs ==
  ASSUME SettingsTyped, YieldInv, OverridesTyped,
         AutonomyNext
  PROVE  SettingsTyped'
<1> USE Times DEF SettingsTyped
<1>1. CASE Wait
  BY <1>1 DEF Wait, Due, inputs, timing
<1>2. CASE OnMode
  <2>1. /\ requests # <<>> /\ requests' = Tail(requests) /\ mode' = Head(requests)
        /\ turn' = 0 /\ round' = round \ {"mode"} /\ UNCHANGED human
    BY <1>2 DEF OnMode, Serve, Turn
  <2>2. Head(requests) \in Mode /\ Tail(requests) \in Seq(Mode)
    BY <2>1, TailElements
  <2> QED BY <2>1, <2>2
<1>3. CASE OnOverride
  <2>1. /\ human' = Head(overrides[rover]) /\ overrides[rover] # <<>>
        /\ overrides[rover] \in Seq(BOOLEAN)
        /\ UNCHANGED <<mode, requests, turn>> /\ round' = round \ {"override"}
    BY <1>3 DEF OnOverride, Serve, Turn, YieldInv, OverridesTyped, inputs, timing
  <2>2. Head(overrides[rover]) \in BOOLEAN
    BY <2>1, TailElements
  <2> QED BY <2>1, <2>2
<1>4. ASSUME NEW flag \in BOOLEAN, OnImage(flag) PROVE SettingsTyped'
  BY <1>4 DEF OnImage, Serve, timing
<1>5. ASSUME NEW flag \in BOOLEAN, EndTick(flag) PROVE SettingsTyped'
  BY <1>5 DEF EndTick, inputs
<1>6. CASE ControlTick
  BY <1>6 DEF ControlTick, Serve, inputs
<1>7. CASE Clock
  BY <1>7 DEF Clock
<1>8. CASE Capture
  BY <1>8 DEF Capture, timing
<1>9. ASSUME NEW m \in Asked, RequestMode(m) PROVE SettingsTyped'
  BY <1>9 DEF RequestMode, timing
<1>10. ASSUME NEW active \in BOOLEAN, HumanSpeaks(active) PROVE SettingsTyped'
  BY <1>10 DEF HumanSpeaks, cameraVars, inputs, timing
<1> QED BY <1>1, <1>2, <1>3, <1>4, <1>5, <1>6, <1>7, <1>8, <1>9, <1>10
        DEF AutonomyNext, NodeActs, TimePasses, OthersAct, NodeNext

LEMMA SettingsStep ==
  SettingsTyped /\ AutonomyInv /\ TopicsInv /\ [Next]_vars => SettingsTyped'
<1> SUFFICES ASSUME SettingsTyped, AutonomyInv, TopicsInv, [Next]_vars PROVE SettingsTyped'
  OBVIOUS
<1>1. CASE UNCHANGED cameraVars
  BY <1>1 DEF SettingsTyped, cameraVars, inputs, timing
<1>2. CASE part = "autonomy" /\ AutonomyNext
  BY <1>2, SettingsActs DEF AutonomyInv, TopicsInv
<1> QED BY <1>1, <1>2, Steps

LEMMA CameraIsTyped == YieldInv /\ SightInv /\ SettingsTyped => CameraTypeOK
<1> SUFFICES ASSUME YieldInv, SightInv, SettingsTyped PROVE CameraTypeOK
  OBVIOUS
<1>1. /\ Old \in Nat /\ Looks(FrameQueue + 1) \in Nat /\ Looks(FrameQueue + 1) <= Old
      /\ 2 * Work <= Old /\ Period + Work \in Nat
  BY LooksAdd, Times DEF Old, Blind, Looks
<1>2. ASSUME NEW i \in DOMAIN frames PROVE frames[i] \in 0 .. Old
  <2>1. i \in Nat \ {0} /\ frames[i] \in Nat
    BY DEF SightInv, FramesWait
  <2>2. Left("image", i) \in Nat /\ frames[i] + Left("image", i) <= Looks(FrameQueue + 1)
    BY <2>1, LeftIsNatural DEF SightInv, FramesWait, InTime, WaitsAreTimes
  <2>3. frames[i] <= Looks(FrameQueue + 1)
    BY <1>1, <2>1, <2>2
  <2>4. frames[i] <= Old
    BY <1>1, <2>1, <2>3
  <2> QED BY <1>1, <2>1, <2>4
<1>3. frames \in Seq(0 .. Old) /\ Len(frames) <= FrameQueue
  <2>1. frames \in Seq(Nat) /\ Len(frames) \in Nat /\ DOMAIN frames = 1 .. Len(frames)
        /\ Len(frames) <= FrameQueue
    BY DEF SightInv, FramesWait
  <2>2. frames = [i \in 1 .. Len(frames) |-> frames[i]]
    BY <2>1
  <2>3. frames \in [1 .. Len(frames) -> 0 .. Old]
    BY <1>2, <2>1, <2>2
  <2>4. frames \in Seq(0 .. Old)
    <3> DEFINE S == 0 .. Old
    <3>1. frames \in [1 .. Len(frames) -> S]
      BY <2>3
    <3> HIDE DEF S
    <3>2. frames \in Seq(S)
      BY <2>1, <3>1, SeqDef
    <3> QED BY <3>2 DEF S
  <2> QED BY <2>1, <2>4
<1>4. due \in 0 .. Period + Work
  BY <1>1, Times DEF SightInv, TicksAreShort
<1>5. stamp \in 0 .. Old /\ latest \in 0 .. Old /\ stamp <= latest
  BY <1>1 DEF SightInv, LooksAreRecent
<1> QED BY <1>3, <1>4, <1>5 DEF CameraTypeOK, SettingsTyped, SightInv, TicksAreShort

\* The invariants of the programs together, whichever of them runs.
ConsolesInv ==
  /\ TopicsInv /\ TeleopTypeOK /\ TerminalInv
  /\ AutonomyInv /\ SightAlways /\ SettingsTyped
  /\ ChoiceTypeOK /\ DriveInv /\ VideoInv /\ ScreenTyped
  /\ FeedsInv /\ PeersInv /\ ConfigInv
  /\ part \in Part

LEMMA ConsolesStart == Init => ConsolesInv
<1> SUFFICES ASSUME Init PROVE ConsolesInv
  OBVIOUS
<1>1. TopicsInv
  BY FleetAssumption DEF Init, TopicsInit, TopicsInv, CmdTyped, OverridesTyped, Message, Twist
<1>2. TeleopTypeOK
  BY DEF Init, TeleopInit, TeleopTypeOK, Twist
<1>3. SettingsTyped
  <2>1. /\ mode = "manual" /\ human = FALSE /\ requests = << >> /\ round = {} /\ turn = 0
    BY DEF Init, CameraInit
  <2>2. requests \in Seq(Mode) /\ mode \in Mode
    BY <2>1 DEF Mode
  <2>3. turn \in 0 .. TurnTime
    BY <2>1, Times
  <2> QED BY <2>1, <2>2, <2>3 DEF SettingsTyped
<1>4. ChoiceTypeOK /\ ScreenTyped
  BY DEF Init, ChoiceInit, DriveInit, VideoInit, ChoiceTypeOK, ScreenTyped
<1>5. ConfigInv /\ part \in Part
  BY InvInitially DEF Init
<1> QED BY <1>1, <1>2, <1>3, <1>4, <1>5, TerminalStart, AutonomyStart, SightStart,
           DriveStart, VideoStart, FeedsStart, PeersStart DEF Init, ConsolesInv

LEMMA ConsolesStep == ConsolesInv /\ [Next]_vars => ConsolesInv'
<1> SUFFICES ASSUME ConsolesInv, [Next]_vars PROVE ConsolesInv'
  BY DEF ConsolesInv
<1> USE DEF ConsolesInv
<1>1. TopicsInv' /\ TeleopTypeOK' /\ TerminalInv'
  BY TopicsStep, TeleopTypedStep, TerminalStep
<1>2. AutonomyInv' /\ SightAlways' /\ SettingsTyped'
  BY AutonomyStep, SightStep, SettingsStep
<1>3. ChoiceTypeOK' /\ DriveInv' /\ VideoInv' /\ ScreenTyped'
  BY ChoiceIsTyped, DriveStep, VideoStep, ScreenStep
<1>4. FeedsInv' /\ PeersInv'
  BY FeedsStep, PeersStep
<1>5. ConfigInv'
  <2>1. [ConfigNext]_configVars
    BY Steps
  <2> QED BY <2>1, InvStep
<1>6. part' \in Part
  BY Steps DEF Part
<1> QED BY <1>1, <1>2, <1>3, <1>4, <1>5, <1>6

\* Whichever program runs, its state is of the declared type: no queue or list
\* outgrows its bound, what may be missing is missing or one of the fleet, and a
\* tool holds the lock just while it writes.
THEOREM EveryProgramIsTyped == Spec => []TypeOK
<1>1. ConsolesInv => TypeOK
  <2> SUFFICES ASSUME ConsolesInv PROVE TypeOK
    OBVIOUS
  <2>1. TopicsTypeOK
    BY DEF ConsolesInv, TopicsInv, CmdTyped, OverridesTyped, TopicsTypeOK
  <2>2. part = "autonomy" =>
          CameraTypeOK /\ waited \in Seq(Nat) /\ Len(waited) = Len(overrides[rover])
    BY CameraIsTyped DEF ConsolesInv, AutonomyInv, SightAlways, WordsWait
  <2>3. DriveTypeOK
    BY DEF ConsolesInv, DriveInv, HandlersTyped, DriveTypeOK
  <2>4. VideoTypeOK
    BY VideoIsTyped DEF ConsolesInv
  <2>5. FeedsTypeOK /\ PeersTypeOK /\ ConfigTypeOK
    BY ConfigIsTyped DEF ConsolesInv, FeedsInv, FeedsTyped, PeersInv
  <2> QED BY <2>1, <2>2, <2>3, <2>4, <2>5 DEF ConsolesInv, TypeOK, Part
<1> QED BY <1>1, ConsolesStart, ConsolesStep, PTL DEF Spec

\* The configuration directory among the programs: every save is whole and lasts
\* (atomic_write_text, locked_config).
THEOREM SavesLast == Spec => []SavesSurvive
<1>1. ConsolesInv => SavesSurvive
  BY DEF ConsolesInv, ConfigInv
<1> QED BY <1>1, ConsolesStart, ConsolesStep, PTL DEF Spec
=============================================================================
