-------------------------- MODULE DriveHub_proofs --------------------------
(***************************************************************************)
(* Proofs about DriveHub, for any robots, commands and times.              *)
(***************************************************************************)
EXTENDS DriveHub, TLAPS

USE DEF Lesser, Greater, TickGap, HubBound, ChainBound, Steps, Command
USE TimesAreNatural

LEMMA BoundsAreNatural ==
  /\ TickGap \in Nat /\ HubBound \in Nat /\ ChainBound \in Nat
  /\ Work <= TickGap /\ TickPeriod + Jitter <= TickGap
OBVIOUS

LEMMA TypeInitially == Init => TypeOK
<1> SUFFICES ASSUME Init PROVE TypeOK
  OBVIOUS
<1>1. quiet \in [Robot -> 0 .. ChainBound] /\ sinceTick \in 0 .. TickGap
  BY BoundsAreNatural DEF Init
<1>2. /\ target \in [Robot -> Command \cup {None}]
      /\ snapshot \in [Robot -> Command \cup {None}]
      /\ queue \in [Robot -> Command \cup {None}]
      /\ latest \in [Robot -> Command] /\ last \in [Robot -> Command]
  BY DEF Init
<1>3. /\ sincePub \in [Robot -> 0 .. HalfPeriod]
      /\ underWay \in [Robot -> 0 .. NetBound]
      /\ silence \in [Robot -> 0 .. DriverBound]
      /\ speed \in [Robot -> 0 .. MaxSpeed]
      /\ callAge \in 0 .. Work
  BY DEF Init
<1>4. /\ step = "idle" /\ ticking \in BOOLEAN
      /\ toPublish = {} /\ expired = {}
  BY DEF Init
<1> QED
  BY <1>1, <1>2, <1>3, <1>4 DEF TypeOK

\* What Publish does keeps its variables well typed.
LEMMA PublishTypes ==
  ASSUME TypeOK, NEW r \in Robot, NEW c \in Command, Publish(r, c)
  PROVE  /\ last' \in [Robot -> Command]
         /\ queue' \in [Robot -> Command \cup {None}]
         /\ underWay' \in [Robot -> 0 .. NetBound]
         /\ sincePub' \in [Robot -> 0 .. HalfPeriod]
BY DEF TypeOK, Publish

\* A call in progress has a robot and a command.
LEMMA CallIsTyped ==
  ASSUME TypeOK, step # "idle"
  PROVE  call[1] \in Robot /\ call[1] \in Trusted /\ call[2] \in Command
BY TrustedAreRobots DEF TypeOK

LEMMA TypeStep == TypeOK /\ [Next]_vars => TypeOK'
<1> SUFFICES ASSUME TypeOK, [Next]_vars PROVE TypeOK'
  OBVIOUS
<1>1. ASSUME NEW r \in Robot, NEW c \in Command, SetDriveTarget(r, c)
      PROVE  TypeOK'
  BY <1>1 DEF SetDriveTarget, Stored, TypeOK, ticker, topic, driver
<1>2. CASE Decide
  BY <1>2 DEF Decide, TypeOK, ticker, topic, driver
<1>3. CASE PublishNow
  <2>1. call[1] \in Robot /\ call[2] \in Command
    BY <1>3, CallIsTyped DEF PublishNow
  <2>2. Publish(call[1], call[2])
    BY <1>3 DEF PublishNow
  <2>3. /\ last' \in [Robot -> Command]
        /\ queue' \in [Robot -> Command \cup {None}]
        /\ underWay' \in [Robot -> 0 .. NetBound]
        /\ sincePub' \in [Robot -> 0 .. HalfPeriod]
    BY <2>1, <2>2, PublishTypes
  <2> QED BY <1>3, <2>3 DEF PublishNow, TypeOK, ticker, driver
<1>4. CASE TickBegin
  BY <1>4, NoneAndStopAreApart
  DEF TickBegin, Kept, TypeOK, setter, topic, driver
<1>5. ASSUME NEW r \in Robot, TickPublish(r) PROVE TypeOK'
  <2>1. snapshot[r] \in Command
    BY <1>5 DEF TickPublish, TypeOK
  <2>2. /\ last' \in [Robot -> Command]
        /\ queue' \in [Robot -> Command \cup {None}]
        /\ underWay' \in [Robot -> 0 .. NetBound]
        /\ sincePub' \in [Robot -> 0 .. HalfPeriod]
    BY <1>5, <2>1, PublishTypes DEF TickPublish
  <2> QED BY <1>5, <2>2 DEF TickPublish, TypeOK, setter, driver
<1>6. CASE TickEnd
  BY <1>6 DEF TickEnd, TypeOK, setter, topic, driver
<1>7. ASSUME NEW r \in Robot, Receive(r) PROVE TypeOK'
  BY <1>7 DEF Receive, TypeOK, setter, ticker
<1>8. ASSUME NEW r \in Robot, Lose(r) PROVE TypeOK'
  BY <1>8 DEF Lose, TypeOK, setter, ticker, driver
<1>9. ASSUME NEW r \in Robot, Restart(r) PROVE TypeOK'
  BY <1>9 DEF Restart, TypeOK, setter, ticker
<1>10. ASSUME NEW r \in Robot, Slow(r) PROVE TypeOK'
  BY <1>10 DEF Slow, TypeOK, setter, ticker, topic
<1>11. CASE Tick
  <2>1. callAge' \in 0 .. Work /\ sinceTick' \in 0 .. TickGap
    BY <1>11 DEF Tick, TypeOK
  <2>2. /\ quiet' \in [Robot -> 0 .. ChainBound]
        /\ sincePub' \in [Robot -> 0 .. HalfPeriod]
        /\ underWay' \in [Robot -> 0 .. NetBound]
        /\ silence' \in [Robot -> 0 .. DriverBound]
    BY <1>11 DEF Tick, TypeOK
  <2> QED BY <1>11, <2>1, <2>2 DEF Tick, TypeOK
<1>12. CASE UNCHANGED vars
  BY <1>12 DEF vars, setter, ticker, topic, driver, TypeOK
<1> QED
  BY <1>1, <1>2, <1>3, <1>4, <1>5, <1>6, <1>7, <1>8, <1>9, <1>10, <1>11,
     <1>12
  DEF Next

(* Every reachable state is of the declared type.                          *)
THEOREM TypeCorrect == Spec => []TypeOK
BY TypeInitially, TypeStep, PTL DEF Spec
----------------------------------------------------------------------------
(* The chain of time-outs.  Each stage has a bound on how old the          *)
(* operators' last command is, in terms of that stage's own clock.         *)

\* A target that is not being forgotten was young when the tick last began.
TargetAge ==
  \A r \in Robot : target[r] # None /\ ~(ticking /\ r \in expired) =>
    quiet[r] <= HoldTimeout + sinceTick

\* What the tick is about to publish.
TickAge ==
  /\ toPublish # {} => ticking
  /\ ticking => sinceTick <= Work
  /\ \A r \in toPublish : quiet[r] <= HoldTimeout + TickGap + sinceTick

\* What the event loop is about to publish.
CallAge == step # "idle" => quiet[call[1]] <= callAge

\* What is on its way to a driver.
MessageAge ==
  \A r \in Robot : queue[r] # None => quiet[r] <= HubBound + underWay[r]

\* A robot that moves.
MotionAge ==
  \A r \in Robot : speed[r] > 0 =>
    /\ silence[r] < DriverBound
    /\ quiet[r] <= HubBound + NetBound + silence[r]

ChainInv ==
  TypeOK /\ TargetAge /\ TickAge /\ CallAge /\ MessageAge /\ MotionAge

LEMMA ChainInitially == Init => ChainInv
<1> SUFFICES ASSUME Init PROVE ChainInv
  OBVIOUS
<1>1. TypeOK
  BY TypeInitially
<1>2. TargetAge /\ TickAge /\ CallAge /\ MessageAge /\ MotionAge
  BY DEF Init, TargetAge, TickAge, CallAge, MessageAge, MotionAge
<1> QED BY <1>1, <1>2 DEF ChainInv

\* A message that is published no later than HubBound keeps MessageAge.
LEMMA PublishAge ==
  ASSUME TypeOK, MessageAge, NEW r \in Robot, NEW c \in Command,
         Publish(r, c), quiet[r] <= HubBound, UNCHANGED quiet
  PROVE  MessageAge'
BY DEF TypeOK, MessageAge, Publish

LEMMA ChainStep == ChainInv /\ [Next]_vars => ChainInv'
<1> SUFFICES ASSUME ChainInv, [Next]_vars PROVE ChainInv'
  OBVIOUS
<1> USE DEF ChainInv
<1>0. TypeOK'
  BY TypeStep
<1>1. ASSUME NEW r \in Robot, NEW c \in Command, SetDriveTarget(r, c)
      PROVE  ChainInv'
  <2>1. \A q \in Robot : quiet'[q] <= quiet[q] /\ (q # r => quiet'[q] = quiet[q])
    BY <1>1 DEF SetDriveTarget, TypeOK
  <2>2. TargetAge'
    <3>1. quiet'[r] = 0
      BY <1>1 DEF SetDriveTarget, TypeOK
    <3>2. sinceTick' \in Nat /\ sinceTick' = sinceTick /\ ticking' = ticking
            /\ expired' = expired
      BY <1>1 DEF SetDriveTarget, ticker, TypeOK
    <3>3. \A q \in Robot : q # r => target'[q] = target[q]
      BY <1>1 DEF SetDriveTarget, Stored, TypeOK
    <3> QED BY <2>1, <3>1, <3>2, <3>3 DEF TargetAge, TypeOK
  <2>3. TickAge'
    BY <1>1, <2>1 DEF SetDriveTarget, ticker, TickAge, TypeOK
  <2>4. CallAge'
    BY <1>1 DEF SetDriveTarget, CallAge, TypeOK
  <2>5. MessageAge'
    BY <1>1, <2>1, <1>0 DEF SetDriveTarget, topic, MessageAge, TypeOK
  <2>6. MotionAge'
    BY <1>1, <2>1, <1>0 DEF SetDriveTarget, driver, MotionAge, TypeOK
  <2> QED BY <1>0, <2>2, <2>3, <2>4, <2>5, <2>6
<1>2. CASE Decide
  BY <1>0, <1>2
  DEF Decide, ticker, topic, driver,
      TargetAge, TickAge, CallAge, MessageAge, MotionAge
<1>3. CASE PublishNow
  <2>1. call[1] \in Robot /\ call[2] \in Command
    BY <1>3, CallIsTyped DEF PublishNow
  <2>2. quiet[call[1]] <= HubBound
    BY <1>3, <2>1 DEF PublishNow, CallAge, TypeOK
  <2>3. MessageAge'
    BY <1>3, <2>1, <2>2, PublishAge DEF PublishNow
  <2>4. TargetAge' /\ TickAge' /\ CallAge' /\ MotionAge'
    BY <1>3 DEF PublishNow, ticker, driver, TargetAge, TickAge, CallAge, MotionAge
  <2> QED BY <1>0, <2>3, <2>4
<1>4. CASE TickBegin
  <2>1. sinceTick <= TickGap
    BY DEF TypeOK
  <2>2. TargetAge'
    <3> SUFFICES ASSUME NEW r \in Robot, target'[r] # None,
                        ~(ticking' /\ r \in expired')
                 PROVE  quiet'[r] <= HoldTimeout + sinceTick'
      BY DEF TargetAge
    <3>1. /\ target' = target /\ quiet' = quiet /\ sinceTick' = 0
          /\ ticking' = (Kept # {}) /\ expired' = {q \in Kept : Outdated(q)}
      BY <1>4 DEF TickBegin
    <3>2. r \in Kept
      BY <3>1 DEF Kept
    <3>3. ticking'
      BY <3>1, <3>2
    <3>4. quiet[r] <= HoldTimeout
      BY <3>1, <3>2, <3>3 DEF Outdated, TypeOK
    <3> QED BY <3>1, <3>4
  <2>3. TickAge'
    <3>1. \A r \in toPublish' : quiet[r] <= HoldTimeout + sinceTick
      BY <1>4 DEF TickBegin, Kept, TargetAge
    <3>2. toPublish' # {} => ticking'
      BY <1>4 DEF TickBegin
    <3>3. sinceTick' = 0 /\ quiet' = quiet
      BY <1>4 DEF TickBegin
    <3>4. toPublish' \subseteq Robot
      BY <1>0 DEF TypeOK
    <3> QED BY <2>1, <3>1, <3>2, <3>3, <3>4 DEF TickAge, TypeOK
  <2>4. CallAge' /\ MessageAge' /\ MotionAge'
    BY <1>4 DEF TickBegin, setter, topic, driver, CallAge, MessageAge, MotionAge
  <2> QED BY <1>0, <2>2, <2>3, <2>4
<1>5. ASSUME NEW r \in Robot, TickPublish(r) PROVE ChainInv'
  <2>1. snapshot[r] \in Command
    BY <1>5 DEF TickPublish, TypeOK
  <2>2. quiet[r] <= HubBound
    BY <1>5 DEF TickPublish, TickAge, TypeOK
  <2>3. MessageAge'
    BY <1>5, <2>1, <2>2, PublishAge DEF TickPublish
  <2>4. TargetAge' /\ TickAge' /\ CallAge' /\ MotionAge'
    BY <1>5
    DEF TickPublish, setter, driver, TargetAge, TickAge, CallAge, MotionAge
  <2> QED BY <1>0, <2>3, <2>4
<1>6. CASE TickEnd
  <2>1. TargetAge'
    <3>1. \A r \in Robot : target'[r] # None => target[r] # None /\ r \notin expired
      BY <1>6 DEF TickEnd
    <3>2. quiet' = quiet /\ sinceTick' = sinceTick
      BY <1>6 DEF TickEnd
    <3> QED BY <3>1, <3>2 DEF TargetAge
  <2>2. TickAge' /\ CallAge' /\ MessageAge' /\ MotionAge'
    BY <1>6
    DEF TickEnd, setter, topic, driver, TickAge, CallAge, MessageAge, MotionAge
  <2> QED BY <1>0, <2>1, <2>2
<1>7. ASSUME NEW r \in Robot, Receive(r) PROVE ChainInv'
  <2>1. TargetAge' /\ TickAge' /\ CallAge'
    BY <1>7 DEF Receive, setter, ticker, TargetAge, TickAge, CallAge
  <2>2. MessageAge'
    BY <1>7 DEF Receive, MessageAge, TypeOK
  <2>3. quiet[r] <= HubBound + NetBound
    BY <1>7 DEF Receive, MessageAge, TypeOK
  <2>4. MotionAge'
    BY <1>7, <2>3 DEF Receive, MotionAge, TypeOK
  <2> QED BY <1>0, <2>1, <2>2, <2>4
<1>8. ASSUME NEW r \in Robot, Lose(r) PROVE ChainInv'
  <2>1. TargetAge' /\ TickAge' /\ CallAge' /\ MotionAge'
    BY <1>8 DEF Lose, setter, ticker, driver, TargetAge, TickAge, CallAge, MotionAge
  <2>2. MessageAge'
    BY <1>8 DEF Lose, MessageAge, TypeOK
  <2> QED BY <1>0, <2>1, <2>2
<1>9. ASSUME NEW r \in Robot, Restart(r) PROVE ChainInv'
  <2>1. TargetAge' /\ TickAge' /\ CallAge'
    BY <1>9 DEF Restart, setter, ticker, TargetAge, TickAge, CallAge
  <2>2. MessageAge' /\ MotionAge'
    BY <1>9 DEF Restart, MessageAge, MotionAge, TypeOK
  <2> QED BY <1>0, <2>1, <2>2
<1>10. ASSUME NEW r \in Robot, Slow(r) PROVE ChainInv'
  <2>1. TargetAge' /\ TickAge' /\ CallAge' /\ MessageAge'
    BY <1>10
    DEF Slow, setter, ticker, topic, TargetAge, TickAge, CallAge, MessageAge
  <2>2. MotionAge'
    BY <1>10 DEF Slow, MotionAge, TypeOK
  <2> QED BY <1>0, <2>1, <2>2
<1>11. CASE Tick
  <2>1. \A r \in Robot : quiet'[r] <= quiet[r] + 1 /\ quiet'[r] \in Nat
    BY <1>11, <1>0 DEF Tick, TypeOK
  <2>2. sinceTick' = sinceTick + 1
    BY <1>11 DEF Tick
  <2>3. TargetAge'
    BY <1>11, <2>1, <2>2 DEF Tick, TargetAge, TypeOK
  <2>4. TickAge'
    BY <1>11, <2>1, <2>2 DEF Tick, TickAge, TypeOK
  <2>5. CallAge'
    <3>1. ASSUME step # "idle" PROVE quiet'[call[1]] <= callAge'
      BY <1>11, <2>1, <3>1, CallIsTyped DEF Tick, CallAge, TypeOK
    <3> QED BY <1>11, <3>1 DEF Tick, CallAge
  <2>6. MessageAge'
    BY <1>11, <2>1 DEF Tick, MessageAge, TypeOK
  <2>7. MotionAge'
    <3> SUFFICES ASSUME NEW r \in Robot, speed'[r] > 0
                 PROVE  /\ silence'[r] < DriverBound
                        /\ quiet'[r] <= HubBound + NetBound + silence'[r]
      BY DEF MotionAge
    <3>1. speed[r] > 0 /\ silence[r] < DriverBound - 1
      BY <1>11 DEF Tick, TypeOK
    <3>2. silence'[r] = silence[r] + 1
      BY <1>11, <3>1 DEF Tick, TypeOK
    <3> QED BY <2>1, <3>1, <3>2 DEF MotionAge, TypeOK
  <2> QED BY <1>0, <2>3, <2>4, <2>5, <2>6, <2>7
<1>12. CASE UNCHANGED vars
  BY <1>0, <1>12
  DEF vars, setter, ticker, topic, driver,
      TargetAge, TickAge, CallAge, MessageAge, MotionAge
<1> QED
  BY <1>1, <1>2, <1>3, <1>4, <1>5, <1>6, <1>7, <1>8, <1>9, <1>10, <1>11,
     <1>12
  DEF Next

(* From end to end: whatever the two threads of the hub, the network and   *)
(* the driver do in between, ChainBound after the operators' last command  *)
(* the robot is at rest.                                                   *)
THEOREM RobotsComeToRest == Spec => []ChainStops
<1>1. ChainInv => ChainStops
  BY DEF ChainInv, MotionAge, ChainStops, TypeOK
<1> QED BY <1>1, ChainInitially, ChainStep, PTL DEF Spec
----------------------------------------------------------------------------
(* The order of messages.                                                  *)

InCall(r) == step # "idle" /\ call[1] = r

\* A tick began after the operators' last command, and served the robot.
Served(r) == quiet[r] > sinceTick /\ r \notin toPublish

\* Both threads hold what the operators commanded last, or a stop.
CopiesAgree ==
  /\ step # "idle" => latest[call[1]] = call[2]
  /\ \A r \in Robot :
       /\ target[r] # None => target[r] = latest[r]
       /\ r \in toPublish =>
            /\ ticking
            /\ target[r] # None
            /\ quiet[r] > sinceTick => snapshot[r] \in {latest[r], Stop}
            /\ r \in expired => snapshot[r] = Stop

\* The tick keeps the messages in line with the targets.
TickFollows ==
  \A r \in Robot : Served(r) /\ target[r] # None => last[r] \in {latest[r], Stop}

\* A robot that the tick has stopped, or that has no target, and whose
\* operators stopped it, has been sent a stop.
StopsAreSent ==
  \A r \in Robot :
    /\ \/ target[r] = None
       \/ ticking /\ r \in expired /\ r \notin toPublish
    /\ latest[r] = Stop
    /\ ~InCall(r)
    => last[r] = Stop

OrderInv == TypeOK /\ CopiesAgree /\ TickFollows /\ StopsAreSent

LEMMA OrderInitially == Init => OrderInv
<1> SUFFICES ASSUME Init PROVE OrderInv
  OBVIOUS
<1>1. TypeOK
  BY TypeInitially
<1>2. CopiesAgree /\ TickFollows /\ StopsAreSent
  BY DEF Init, CopiesAgree, TickFollows, StopsAreSent
<1> QED BY <1>1, <1>2 DEF OrderInv

LEMMA OrderStep == OrderInv /\ [Next]_vars => OrderInv'
<1> SUFFICES ASSUME OrderInv, [Next]_vars PROVE OrderInv'
  OBVIOUS
<1> USE DEF OrderInv
<1>0. TypeOK'
  BY TypeStep
<1>1. ASSUME NEW r \in Robot, NEW c \in Command, SetDriveTarget(r, c)
      PROVE  OrderInv'
  <2>1. /\ quiet'[r] = 0 /\ latest'[r] = c /\ target'[r] = c
        /\ \A q \in Robot : q # r => /\ quiet'[q] = quiet[q]
                                     /\ latest'[q] = latest[q]
                                     /\ target'[q] = target[q]
    BY <1>1 DEF SetDriveTarget, Stored, TypeOK
  <2>2. /\ step' = "recorded" /\ step = "idle"
        /\ call'[1] = r /\ call'[2] = c /\ c # None
    BY <1>1, NoneAndStopAreApart DEF SetDriveTarget
  <2>3. UNCHANGED <<sinceTick, ticking, snapshot, toPublish, expired, last>>
    BY <1>1 DEF SetDriveTarget, ticker, topic
  <2>4. sinceTick \in Nat
    BY DEF TypeOK
  <2>5. CopiesAgree'
    BY <2>1, <2>2, <2>3, <2>4 DEF CopiesAgree
  <2>6. TickFollows'
    BY <2>1, <2>3, <2>4 DEF TickFollows, Served
  <2>7. StopsAreSent'
    BY <2>1, <2>2, <2>3 DEF StopsAreSent, InCall
  <2> QED BY <1>0, <2>5, <2>6, <2>7
<1>2. CASE Decide
  <2>1. UNCHANGED <<target, quiet, call, sinceTick, ticking, snapshot,
                    toPublish, expired, latest, last>>
    BY <1>2 DEF Decide, ticker, topic
  <2>2. step' # "publishing" => call[2] # Stop
    BY <1>2 DEF Decide
  <2>3. step # "idle" /\ step' \in {"publishing", "idle"}
    BY <1>2 DEF Decide
  <2>4. CopiesAgree' /\ TickFollows'
    BY <2>1, <2>3 DEF CopiesAgree, TickFollows, Served
  <2>5. StopsAreSent'
    BY <2>1, <2>2, <2>3 DEF StopsAreSent, CopiesAgree, InCall
  <2> QED BY <1>0, <2>4, <2>5
<1>3. CASE PublishNow
  <2>1. UNCHANGED <<target, quiet, call, sinceTick, ticking, snapshot,
                    toPublish, expired, latest>>
    BY <1>3 DEF PublishNow, ticker
  <2>2. /\ call[1] \in Robot /\ step # "idle" /\ step' = "idle"
        /\ latest[call[1]] = call[2]
    BY <1>3, CallIsTyped DEF PublishNow, CopiesAgree
  <2>3. /\ last'[call[1]] = latest[call[1]]
        /\ \A q \in Robot : q # call[1] => last'[q] = last[q]
    BY <1>3, <2>2 DEF PublishNow, Publish, TypeOK
  <2>4. CopiesAgree'
    BY <2>1, <2>2 DEF CopiesAgree
  <2>5. TickFollows'
    BY <2>1, <2>3 DEF TickFollows, Served
  <2>6. StopsAreSent'
    BY <2>1, <2>2, <2>3 DEF StopsAreSent, InCall
  <2> QED BY <1>0, <2>4, <2>5, <2>6
<1>4. CASE TickBegin
  <2>1. /\ UNCHANGED <<target, quiet, step, call, latest, last>>
        /\ sinceTick' = 0
    BY <1>4 DEF TickBegin, setter, topic
  <2>2. \A r \in Robot : r \in toPublish' <=> target[r] # None
    BY <1>4 DEF TickBegin, Kept
  <2>3. \A r \in Robot : r \in toPublish' =>
          /\ ticking'
          /\ snapshot'[r] \in {target[r], Stop}
          /\ r \in expired' => snapshot'[r] = Stop
    BY <1>4 DEF TickBegin, Kept
  <2>4. CopiesAgree'
    BY <2>1, <2>2, <2>3 DEF CopiesAgree
  <2>5. TickFollows'
    BY <2>1, <2>2 DEF TickFollows, Served
  <2>6. \A r \in Robot : r \in expired' => r \in toPublish'
    BY <1>4 DEF TickBegin
  <2>7. StopsAreSent'
    BY <2>1, <2>6 DEF StopsAreSent, InCall
  <2> QED BY <1>0, <2>4, <2>5, <2>7
<1>5. ASSUME NEW r \in Robot, TickPublish(r) PROVE OrderInv'
  <2>1. /\ UNCHANGED <<target, quiet, step, call, sinceTick, ticking, snapshot,
                       expired, latest>>
        /\ toPublish' = toPublish \ {r} /\ r \in toPublish
    BY <1>5 DEF TickPublish, setter
  <2>2. /\ last'[r] = snapshot[r]
        /\ \A q \in Robot : q # r => last'[q] = last[q]
    BY <1>5 DEF TickPublish, Publish, TypeOK
  <2>3. CopiesAgree'
    BY <2>1 DEF CopiesAgree
  <2>4. TickFollows'
    BY <2>1, <2>2 DEF TickFollows, CopiesAgree, Served
  <2>5. StopsAreSent'
    BY <2>1, <2>2 DEF StopsAreSent, CopiesAgree, InCall
  <2> QED BY <1>0, <2>3, <2>4, <2>5
<1>6. CASE TickEnd
  <2>1. /\ UNCHANGED <<quiet, step, call, sinceTick, snapshot, toPublish,
                       expired, latest, last>>
        /\ ticking /\ ~ticking' /\ toPublish = {}
    BY <1>6 DEF TickEnd, setter, topic
  <2>2. \A r \in Robot :
          target'[r] = IF r \in expired THEN None ELSE target[r]
    BY <1>6 DEF TickEnd
  <2>3. CopiesAgree'
    BY <2>1, <2>2 DEF CopiesAgree
  <2>4. TickFollows'
    BY <2>1, <2>2 DEF TickFollows, Served
  <2>5. StopsAreSent'
    BY <2>1, <2>2 DEF StopsAreSent, InCall
  <2> QED BY <1>0, <2>3, <2>4, <2>5
<1>7. ASSUME NEW r \in Robot, Receive(r) \/ Lose(r) \/ Restart(r) \/ Slow(r)
      PROVE  OrderInv'
  <2>1. UNCHANGED <<target, quiet, step, call, sinceTick, ticking, snapshot,
                    toPublish, expired, latest, last>>
    BY <1>7 DEF Receive, Lose, Restart, Slow, setter, ticker, topic
  <2>2. CopiesAgree' /\ TickFollows' /\ StopsAreSent'
    BY <2>1 DEF CopiesAgree, TickFollows, Served, StopsAreSent, InCall
  <2> QED BY <1>0, <2>2
<1>8. CASE Tick
  <2>1. UNCHANGED <<target, step, call, ticking, snapshot, toPublish, expired,
                    latest, last>>
    BY <1>8 DEF Tick
  <2>2. \A r \in Robot : quiet'[r] > sinceTick' => quiet[r] > sinceTick
    BY <1>8 DEF Tick, TypeOK
  <2>3. CopiesAgree' /\ TickFollows' /\ StopsAreSent'
    BY <2>1, <2>2 DEF CopiesAgree, TickFollows, Served, StopsAreSent, InCall
  <2> QED BY <1>0, <2>3
<1>9. CASE UNCHANGED vars
  BY <1>0, <1>9
  DEF vars, setter, ticker, topic,
      CopiesAgree, TickFollows, Served, StopsAreSent, InCall
<1> QED
  BY <1>1, <1>2, <1>3, <1>4, <1>5, <1>6, <1>7, <1>8, <1>9 DEF Next

(* However the two threads interleave, an older command overtakes a newer  *)
(* one at most until the next tick, and a stop always comes out last.      *)
THEOREM TheLatestIsFollowed == Spec => []FollowsTheLatest
<1>1. OrderInv => FollowsTheLatest
  BY DEF OrderInv, TickFollows, StopsAreSent, Served, InCall, FollowsTheLatest
<1> QED BY <1>1, OrderInitially, OrderStep, PTL DEF Spec
=============================================================================
