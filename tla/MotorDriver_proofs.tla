------------------------ MODULE MotorDriver_proofs -------------------------
(***************************************************************************)
(* Theorems about MotorDriver, for every value of its constants.           *)
(***************************************************************************)
EXTENDS MotorDriver, FiniteSetTheorems, TLAPS

OutputSet == [duty : 0 .. MaxPwm, dir : {-1, 1}]

LEMMA BoundsAreNatural ==
  /\ WatchdogGap \in Nat /\ MonitorGap \in Nat
  /\ StopBound \in Nat /\ StopBound > Timeout /\ StopBound >= RampTicks + WatchdogGap
  /\ StopBound >= Timeout + 1 + WatchdogGap
  /\ StallBound \in Nat /\ HotCap \in Nat
<1>1. WatchdogGap \in Nat /\ MonitorGap \in Nat
  BY LimitsAreNatural DEF WatchdogGap, MonitorGap
<1>2. StopBound \in Nat /\ StopBound > Timeout /\ StopBound >= RampTicks + WatchdogGap
      /\ StopBound >= Timeout + 1 + WatchdogGap
  BY <1>1, LimitsAreNatural, RampSpansFullDuty DEF StopBound, Greater
<1>3. StallBound \in Nat
  <2>1. OutputGap \in Nat
    BY <1>1, LimitsAreNatural DEF OutputGap
  <2>2. \A a, b, c \in Nat : a + b * c \in Nat
    OBVIOUS
  <2>3. StallTimeout + OutputGap \in Nat /\ StallTimeout + 2 * OutputGap \in Nat
    BY <2>1, LimitsAreNatural
  <2>4. QED BY <2>2, <2>3, LimitsAreNatural DEF StallBound
<1>4. HotCap \in Nat
  BY <1>3 DEF HotCap
<1>5. QED BY <1>1, <1>2, <1>3, <1>4

LEMMA OlderType ==
  ASSUME NEW cap \in Nat, NEW age \in 0 .. cap
  PROVE  Older(age, cap) \in 0 .. cap
  BY DEF Older, Lesser

LEMMA OutputType ==
  ASSUME NEW request \in -MaxPwm .. MaxPwm, NEW band
  PROVE  Output(request, band) \in OutputSet
  BY LimitsAreNatural DEF Output, Magnitude, OutputSet

LEMMA CountType ==
  ASSUME NEW P \in SUBSET Publisher
  PROVE  PublisherCount(P) \in Nat
<1>1. IsFiniteSet((P \ Unnamed) \ Exempt)
  BY PublishersAreFinite, FS_Subset, (P \ Unnamed) \ Exempt \subseteq Publisher
<1>2. Cardinality((P \ Unnamed) \ Exempt) \in Nat
  BY <1>1, FS_CardinalityType
<1>3. QED BY <1>2 DEF PublisherCount

(* A limited step stays between where it starts and where it aims.         *)
LEMMA RampRange ==
  ASSUME NEW current \in 0 .. MaxPwm, NEW target \in 0 .. MaxPwm, sinceUpdate \in Nat
  PROVE  Ramp(current, target) \in 0 .. MaxPwm
<1> DEFINE step == RampRate * sinceUpdate
<1>1. step \in Nat
  BY RampSpansFullDuty
<1> HIDE DEF step
<1>2. Ramp(current, target) = IF target > current THEN Lesser(target, current + step)
                                                  ELSE Greater(target, current - step)
  BY DEF Ramp, step
<1>3. QED
  BY <1>1, <1>2, LimitsAreNatural DEF Lesser, Greater

(* A limited step towards rest takes off what the time since the last      *)
(* update allows, and stops at zero.                                       *)
LEMMA RampToRest ==
  ASSUME NEW current \in Nat
  PROVE  Ramp(current, 0) = Greater(0, current - RampRate * sinceUpdate)
  BY DEF Ramp

LEMMA SetMotorType ==
  ASSUME TypeOK, NEW out \in [Wheel -> OutputSet], NEW bypass \in BOOLEAN,
         SetMotor(out, bypass)
  PROVE  /\ duty' \in [Wheel -> 0 .. MaxPwm]
         /\ pwm' \in [Wheel -> 0 .. MaxPwm]
         /\ dir' \in [Wheel -> {-1, 1}]
         /\ sinceUpdate' = 0
         /\ faults' \in 0 .. MaxFaults
         /\ stale' \in BOOLEAN
         /\ sinceOutput' \in 0 .. MinPeriod
         /\ lastCommanded' \in [Wheel -> OutputSet]
         /\ hot' \in 0 .. HotCap
<1>1. ASSUME NEW w \in Wheel
      PROVE  Ramp(duty[w], out[w].duty) \in 0 .. MaxPwm
  <2>1. duty[w] \in 0 .. MaxPwm /\ out[w].duty \in 0 .. MaxPwm /\ sinceUpdate \in Nat
    BY LimitsAreNatural, RampSpansFullDuty DEF TypeOK, OutputSet
  <2>2. QED
    BY <2>1, RampRange
<1>2. duty' \in [Wheel -> 0 .. MaxPwm]
  BY <1>1, RampSpansFullDuty DEF SetMotor, OutputSet
<1>3. pwm' \in [Wheel -> 0 .. MaxPwm] /\ dir' \in [Wheel -> {-1, 1}]
  BY <1>2 DEF SetMotor, TypeOK, OutputSet
<1>4. faults' \in 0 .. MaxFaults /\ stale' \in BOOLEAN
  BY LimitsAreNatural DEF SetMotor, TypeOK
<1>5. /\ sinceUpdate' = 0
      /\ sinceOutput' \in 0 .. MinPeriod
      /\ lastCommanded' \in [Wheel -> OutputSet]
  BY LimitsAreNatural DEF SetMotor, TouchUpdate, TypeOK, OutputSet
<1>6. hot' \in 0 .. HotCap
  BY BoundsAreNatural DEF SetMotor, TypeOK
<1>7. QED BY <1>2, <1>3, <1>4, <1>5, <1>6
LEMMA SetMotorOutputsType ==
  ASSUME TypeOK, NEW request \in [Wheel -> -MaxPwm .. MaxPwm],
         NEW force \in BOOLEAN, NEW bypass \in BOOLEAN,
         SetMotorOutputs(request, force, bypass)
  PROVE  /\ requested' \in [Wheel -> 0 .. MaxPwm]
         /\ sinceOutput' \in 0 .. MinPeriod
         /\ lastCommanded' \in [Wheel -> OutputSet]
         /\ stallAge' \in NotTiming .. StallTimeout
         /\ stallActive' \in BOOLEAN
         /\ duty' \in [Wheel -> 0 .. MaxPwm]
         /\ sinceUpdate' \in 0 .. RampTicks
         /\ pwm' \in [Wheel -> 0 .. MaxPwm]
         /\ dir' \in [Wheel -> {-1, 1}]
         /\ faults' \in 0 .. MaxFaults
         /\ stale' \in BOOLEAN
         /\ hot' \in 0 .. HotCap
<1> DEFINE band == IF bypass THEN 0 ELSE Lesser(Deadband, MaxPwm)
           want == [w \in Wheel |-> Output(request[w], band)]
           out == [w \in Wheel |-> IF stallActive' /\ ~force
                                  THEN [want[w] EXCEPT !.duty = 0] ELSE want[w]]
<1>1. \A w \in Wheel : Output(request[w], band) \in OutputSet
  BY OutputType
<1> HIDE DEF band
<1>2. want \in [Wheel -> OutputSet] /\ out \in [Wheel -> OutputSet]
  BY <1>1, LimitsAreNatural DEF OutputSet
<1>3. requested' \in [Wheel -> 0 .. MaxPwm]
  BY <1>2 DEF SetMotorOutputs, OutputSet, band
<1>4. CASE UNCHANGED <<sinceOutput, lastCommanded, stall, hardware>>
  BY <1>3, <1>4 DEF stall, hardware, TypeOK, OutputSet
<1>5. CASE /\ TrackStall(\E w \in Wheel : want[w].duty >= StallDuty)
           /\ SetMotor(out, bypass)
  <2>1. stallAge' \in NotTiming .. StallTimeout /\ stallActive' \in BOOLEAN
    <3>1. CASE StallTimeout = 0
      BY <1>5, <3>1 DEF TrackStall, stall, TypeOK
    <3>2. CASE StallTimeout # 0
      <4> DEFINE high == \E w \in Wheel : want[w].duty >= StallDuty
      <4> HIDE DEF want
      <4>1. /\ stallAge' = CASE ~high                -> NotTiming
                              [] stallAge = NotTiming -> 0
                              [] OTHER                -> stallAge
            /\ stallActive' = (high /\ (stallActive \/ stallAge >= StallTimeout))
        BY <1>5, <3>2 DEF TrackStall
      <4>2. stallAge' \in {NotTiming, 0, stallAge}
        BY <4>1
      <4>3. stallActive' \in BOOLEAN
        BY <4>1
      <4>4. QED BY <4>2, <4>3, LimitsAreNatural DEF TypeOK, NotTiming
    <3>3. QED BY <3>1, <3>2
  <2> HIDE DEF want, out
  <2>2. QED
    BY <1>2, <1>3, <1>5, <2>1, SetMotorType, RampSpansFullDuty
<1>6. QED
  BY <1>4, <1>5 DEF SetMotorOutputs, band

(* Where a fresh driver starts from.                                       *)
LEMMA RestIsTyped ==
  /\ Off \in [Wheel -> OutputSet]
  /\ [w \in Wheel |-> 0] \in [Wheel -> 0 .. MaxPwm]
  /\ [w \in Wheel |-> 1] \in [Wheel -> {-1, 1}]
  /\ NotTiming \in NotTiming .. StallTimeout
  /\ 0 \in 0 .. StopBound /\ 0 \in 0 .. WatchdogGap /\ 0 \in 0 .. MonitorGap
  /\ 0 \in 0 .. MonitorGap + 1 /\ 0 \in 0 .. RampTicks /\ 0 \in 0 .. HotCap
  /\ 0 \in 0 .. MaxFaults /\ MinPeriod \in 0 .. MinPeriod
  BY LimitsAreNatural, BoundsAreNatural, RampSpansFullDuty
     DEF Off, OutputSet, NotTiming

\* A shutdown leaves each wheel at rest, as it was or slower than the limiter
\* had it, and whatever is left running has failed.
LEMMA ShutdownSlows ==
  ASSUME TypeOK, DestroyNode
  PROVE  /\ pwm' \in [Wheel -> 0 .. MaxPwm] /\ dir' \in [Wheel -> {-1, 1}]
         /\ faults' \in 0 .. MaxFaults /\ stale' \in BOOLEAN
         /\ stale' => MaxFaults > 0
         /\ \A w \in Wheel : pwm'[w] <= pwm[w] \/ pwm'[w] <= duty[w]
<1>1. PICK done \in 0 .. 4, ended \in 2 .. 4 :
        /\ faults' = faults + (IF done < 4 THEN 1 ELSE 0) + (IF ended < 4 THEN 1 ELSE 0)
        /\ faults' <= MaxFaults
        /\ dir' = [w \in Wheel |-> IF DirWrite(w) <= done THEN 1 ELSE dir[w]]
        /\ pwm' = [w \in Wheel |-> CASE PwmWrite(w) <= ended -> 0
                                    [] PwmWrite(w) \in ended + 1 .. done -> SoftStop(w)
                                    [] OTHER -> pwm[w]]
        /\ stale' = (ended < 4)
  BY DEF DestroyNode
<1>2. /\ pwm \in [Wheel -> 0 .. MaxPwm] /\ duty \in [Wheel -> 0 .. MaxPwm]
      /\ dir \in [Wheel -> {-1, 1}] /\ faults \in 0 .. MaxFaults /\ sinceUpdate \in Nat
      /\ MaxPwm \in Nat /\ MaxFaults \in Nat
  BY LimitsAreNatural, RampSpansFullDuty DEF TypeOK
<1>3. ASSUME NEW w \in Wheel PROVE SoftStop(w) \in 0 .. duty[w]
  <2> DEFINE step == RampRate * sinceUpdate
  <2>1. step \in Nat
    BY <1>2, RampSpansFullDuty
  <2>2. duty[w] \in Nat
    BY <1>2
  <2>3. SoftStop(w) \in {0, Greater(0, duty[w] - step)}
    BY <2>2 DEF SoftStop, Ramp
  <2> HIDE DEF step
  <2> QED BY <2>1, <2>2, <2>3 DEF Greater
<1>4. ASSUME NEW w \in Wheel
      PROVE  pwm'[w] \in 0 .. MaxPwm /\ (pwm'[w] <= pwm[w] \/ pwm'[w] <= duty[w])
  <2>1. pwm'[w] \in {0, SoftStop(w), pwm[w]}
    BY <1>1
  <2> QED BY <1>2, <1>3, <2>1
<1>5. pwm' = [w \in Wheel |-> pwm'[w]]
  BY <1>1
<1>6. pwm' \in [Wheel -> 0 .. MaxPwm]
  BY <1>4, <1>5
<1>7. dir' \in [Wheel -> {-1, 1}]
  BY <1>1, <1>2
<1>8. faults' \in 0 .. MaxFaults /\ (ended < 4 => MaxFaults > 0)
  <2> DEFINE a == IF done < 4 THEN 1 ELSE 0
             b == IF ended < 4 THEN 1 ELSE 0
  <2>1. a \in 0 .. 1 /\ b \in 0 .. 1 /\ (ended < 4 => b = 1)
    OBVIOUS
  <2>2. faults' = faults + a + b /\ faults' <= MaxFaults
    BY <1>1
  <2> HIDE DEF a, b
  <2> QED BY <1>2, <2>1, <2>2
<1>9. stale' \in BOOLEAN /\ (stale' => ended < 4)
  <2> DEFINE failed == ended < 4
  <2>1. failed \in BOOLEAN /\ stale' = failed
    BY <1>1
  <2>2. failed => ended < 4
    OBVIOUS
  <2> HIDE DEF failed
  <2> QED BY <2>1, <2>2, Zenon
<1> QED BY <1>4, <1>6, <1>7, <1>8, <1>9

LEMMA StopIsRequest == Stop \in [Wheel -> -MaxPwm .. MaxPwm]
  BY LimitsAreNatural DEF Stop

(* Type correctness is inductive.                                          *)
LEMMA TypeStep ==
  TypeOK /\ [Next]_vars => TypeOK'
<1> SUFFICES ASSUME TypeOK, [Next]_vars
             PROVE  TypeOK'
  OBVIOUS
<1> USE DEF TypeOK
<1>1. ASSUME NEW p \in Publisher, Join(p)
      PROVE  TypeOK'
  BY <1>1, BoundsAreNatural DEF Join, clocks, outputs, limiter, stall, hardware
<1>2. ASSUME NEW p \in Publisher, Leave(p)
      PROVE  TypeOK'
  BY <1>2, BoundsAreNatural DEF Leave, clocks, outputs, limiter, stall, hardware
<1>3. ASSUME NEW p \in Publisher, NEW c \in Command, Publish(p, c)
      PROVE  TypeOK'
  BY <1>3 DEF Publish, clocks, outputs, limiter, stall, hardware
<1>4. CASE Lose
  BY <1>4 DEF Lose, clocks, outputs, limiter, stall, hardware
<1>5. CASE CmdVelCallback
  <2>1. queue \in [Wheel -> -MaxPwm .. MaxPwm]
    BY <1>5, CommandsAreWheelRequests DEF CmdVelCallback
  <2>2. (IsRotate(queue) /\ RotateBypass) \in BOOLEAN
    BY LimitsAreNatural DEF IsRotate
  <2>3. \/ SetMotorOutputs(Stop, TRUE, FALSE)
        \/ SetMotorOutputs(queue, FALSE, IsRotate(queue) /\ RotateBypass)
    BY <1>5 DEF CmdVelCallback
  <2>4. /\ queue' \in Command \cup {None} /\ sinceCmd' \in 0 .. StopBound
        /\ UNCHANGED <<pubs, pubAge, running, sinceWatchdog, sinceMonitor, pubCount>>
    BY <1>5, BoundsAreNatural DEF CmdVelCallback
  <2>5. CASE SetMotorOutputs(Stop, TRUE, FALSE)
    BY <2>4, <2>5, SetMotorOutputsType, StopIsRequest DEF OutputSet
  <2>6. CASE SetMotorOutputs(queue, FALSE, IsRotate(queue) /\ RotateBypass)
    BY <2>1, <2>2, <2>4, <2>6, SetMotorOutputsType DEF OutputSet
  <2>7. QED BY <2>3, <2>5, <2>6
<1>6. CASE Watchdog
  <2>1. /\ sinceWatchdog' \in 0 .. WatchdogGap
        /\ UNCHANGED <<pubs, pubAge, queue, running, sinceCmd, sinceMonitor, pubCount>>
    BY <1>6, BoundsAreNatural DEF Watchdog, bus
  <2>2. CASE SetMotorOutputs(Stop, TRUE, FALSE)
    BY <2>1, <2>2, SetMotorOutputsType, StopIsRequest DEF OutputSet
  <2>3. CASE UNCHANGED outputs
    BY <2>1, <2>3 DEF outputs, limiter, stall, hardware
  <2>4. QED BY <1>6, <2>2, <2>3 DEF Watchdog
<1>7. CASE MonitorCmdVelPublishers
  BY <1>7, CountType, BoundsAreNatural
     DEF MonitorCmdVelPublishers, bus, outputs, limiter, stall, hardware
<1>8. CASE DestroyNode
  <2>1. /\ UNCHANGED <<pubs, pubAge, clocks, pubCount, limiter, stall, duty, sinceUpdate>>
        /\ running' = FALSE /\ queue' = None /\ hot' = 0
    BY <1>8 DEF DestroyNode
  <2> QED BY <1>8, <2>1, RestIsTyped, ShutdownSlows DEF clocks, limiter, stall
<1>9. CASE Boot
  <2>1. lastCommanded' \in [Wheel -> [duty : 0 .. MaxPwm, dir : {-1, 1}]]
    BY <1>9, RestIsTyped DEF Boot, OutputSet
  <2>2. pubCount' \in Nat /\ running' \in BOOLEAN /\ stallActive' \in BOOLEAN
    BY <1>9 DEF Boot
  <2>3. requested' \in [Wheel -> 0 .. MaxPwm] /\ duty' \in [Wheel -> 0 .. MaxPwm]
    BY <1>9, RestIsTyped DEF Boot
  <2>4. QED
    BY <1>9, <2>1, <2>2, <2>3, RestIsTyped DEF Boot
<1>10. CASE Tick
  <2>1. /\ sinceCmd' \in 0 .. StopBound /\ sinceOutput' \in 0 .. MinPeriod
        /\ sinceUpdate' \in 0 .. RampTicks /\ hot' \in 0 .. HotCap
        /\ pubAge' \in 0 .. MonitorGap + 1
    <3>1. /\ Older(sinceCmd, StopBound) \in 0 .. StopBound
          /\ Older(sinceOutput, MinPeriod) \in 0 .. MinPeriod
          /\ Older(sinceUpdate, RampTicks) \in 0 .. RampTicks
          /\ Older(hot, HotCap) \in 0 .. HotCap
          /\ Older(pubAge, MonitorGap + 1) \in 0 .. MonitorGap + 1
      BY LimitsAreNatural, BoundsAreNatural, RampSpansFullDuty DEF Older, Lesser
    <3>2. QED BY <1>10, <3>1, RestIsTyped DEF Tick
  <2>2. stallAge' \in NotTiming .. StallTimeout
    BY <1>10, LimitsAreNatural DEF Tick, Older, Lesser, NotTiming
  <2>3. sinceWatchdog' \in 0 .. WatchdogGap /\ sinceMonitor' \in 0 .. MonitorGap
    BY <1>10, BoundsAreNatural DEF Tick
  <2>4. QED BY <1>10, <2>1, <2>2, <2>3 DEF Tick
<1>11. CASE UNCHANGED vars
  BY <1>11 DEF vars, bus, clocks, outputs, limiter, stall, hardware
<1>12. QED
  BY <1>1, <1>2, <1>3, <1>4, <1>5, <1>6, <1>7, <1>8, <1>9, <1>10, <1>11 DEF Next

LEMMA InitIsTyped == Init => TypeOK
<1> SUFFICES ASSUME Init PROVE TypeOK
  OBVIOUS
<1>1. lastCommanded \in [Wheel -> [duty : 0 .. MaxPwm, dir : {-1, 1}]]
  BY RestIsTyped DEF Init, OutputSet
<1>2. /\ requested \in [Wheel -> 0 .. MaxPwm] /\ duty \in [Wheel -> 0 .. MaxPwm]
      /\ pwm \in [Wheel -> 0 .. MaxPwm] /\ dir \in [Wheel -> {-1, 1}]
  BY RestIsTyped DEF Init
<1>3. QED
  BY <1>1, <1>2, RestIsTyped DEF Init, TypeOK

(* Every state of the driver is well typed: in particular no ramp step,    *)
(* cut or restart leaves the duty range, and no timer overruns its gap.    *)
THEOREM TypeCorrect == Spec => []TypeOK
<1>1. Init => TypeOK
  BY InitIsTyped
<1>2. QED BY <1>1, TypeStep, PTL DEF Spec
----------------------------------------------------------------------------
(* Steps that leave what a property reads alone.                           *)

LEMMA FullDutyRamp ==
  ASSUME NEW ticks \in Nat, ticks >= RampTicks, RampRate > 0
  PROVE  RampRate * ticks >= MaxPwm
<1>1. \A r, a, b \in Nat : a >= b => r * a >= r * b
  OBVIOUS
<1>2. QED BY <1>1, RampSpansFullDuty, LimitsAreNatural

(* A forced stop is never dropped: it moves every wheel one limiter step   *)
(* towards rest, or straight to rest where there is no limiter.            *)
LEMMA ForcedStop ==
  ASSUME TypeOK, SetMotorOutputs(Stop, TRUE, FALSE)
  PROVE  /\ requested' = [w \in Wheel |-> 0]
         /\ sinceUpdate' = 0
         /\ \A w \in Wheel :
              duty'[w] = IF RampRate > 0
                         THEN Greater(0, duty[w] - RampRate * sinceUpdate) ELSE 0
         /\ stale' \/ (pwm' = duty' /\ lastCommanded' = Off)
         /\ MaxFaults = 0 => ~stale'
<1> DEFINE out == [w \in Wheel |-> IF stallActive' /\ ~TRUE
                     THEN [Output(Stop[w], Lesser(Deadband, MaxPwm)) EXCEPT !.duty = 0]
                     ELSE Output(Stop[w], Lesser(Deadband, MaxPwm))]
<1>1. \A w \in Wheel :
        Output(Stop[w], Lesser(Deadband, MaxPwm)) = [duty |-> 0, dir |-> 1]
  BY DEF Output, Stop, Magnitude
<1>2. out = Off
  BY <1>1 DEF Off
<1>3. requested' = [w \in Wheel |-> 0] /\ SetMotor(Off, FALSE)
  <2>1. SetMotor(out, FALSE)
    BY DEF SetMotorOutputs
  <2>2. requested' = [w \in Wheel |-> Output(Stop[w], Lesser(Deadband, MaxPwm)).duty]
    BY DEF SetMotorOutputs
  <2>3. requested' = [w \in Wheel |-> 0]
    BY <1>1, <2>2
  <2> HIDE DEF out
  <2>4. SetMotor(Off, FALSE)
    BY <1>2, <2>1
  <2>5. QED BY <2>3, <2>4
<1>4. \A w \in Wheel :
        duty'[w] = IF RampRate > 0
                   THEN Greater(0, duty[w] - RampRate * sinceUpdate) ELSE 0
  <2>1. \A w \in Wheel : duty'[w] = IF RampRate > 0 THEN Ramp(duty[w], 0) ELSE 0
    BY <1>3 DEF SetMotor, Off
  <2>2. \A w \in Wheel : duty[w] \in Nat
    BY LimitsAreNatural DEF TypeOK
  <2>3. QED BY <2>1, <2>2, RampToRest
<1>5. sinceUpdate' = 0
  BY <1>3 DEF SetMotor, TouchUpdate
<1>6. PICK done \in 0 .. 4 :
        /\ done < 4 => faults < MaxFaults
        /\ duty' = [w \in Wheel |->
                      IF RampRate > 0 /\ ~FALSE THEN Ramp(duty[w], Off[w].duty)
                                               ELSE Off[w].duty]
        /\ pwm' = [w \in Wheel |-> IF PwmWrite(w) <= done THEN duty'[w] ELSE pwm[w]]
        /\ stale' = (done < 4)
        /\ lastCommanded' = IF done = 4 THEN Off ELSE lastCommanded
  BY <1>3 DEF SetMotor
<1>7. stale' \/ (pwm' = duty' /\ lastCommanded' = Off)
  <2>1. CASE done < 4
    BY <1>6, <2>1
  <2>2. CASE done = 4
    <3>1. \A w \in Wheel : PwmWrite(w) <= done
      BY <2>2 DEF PwmWrite
    <3>2. pwm' = [w \in Wheel |-> duty'[w]]
      BY <1>6, <3>1
    <3>3. pwm' = duty'
      BY <1>6, <3>2
    <3>4. QED BY <1>6, <2>2, <3>3
  <2>3. QED BY <2>1, <2>2
<1>8. MaxFaults = 0 => ~stale'
  <2> SUFFICES ASSUME MaxFaults = 0 PROVE ~(done < 4)
    BY <1>6
  <2>1. faults = 0
    BY DEF TypeOK
  <2>2. QED BY <1>6, <2>1
<1>9. QED BY <1>3, <1>4, <1>5, <1>7, <1>8
----------------------------------------------------------------------------
(* What the driver knows of the time since the last command.  Up to the    *)
(* first expired watchdog run nothing may have touched the limiter since   *)
(* the command; from then on every run has taken off its share of duty.    *)

SinceStop == sinceCmd - sinceWatchdog

Braked(ticks) ==
  \A w \in Wheel : duty[w] = 0 \/ (RampRate > 0 /\ duty[w] <= MaxPwm - RampRate * ticks)

SilenceInv ==
  running =>
    \/ /\ SinceStop <= Timeout
       /\ sinceUpdate >= Lesser(sinceCmd, RampTicks)
    \/ /\ SinceStop > Timeout
       /\ sinceUpdate >= Lesser(sinceWatchdog, RampTicks)
       /\ Braked(SinceStop)

PinsFollow == running => stale \/ pwm = duty

DeadmanInv == TypeOK /\ SilenceInv /\ PinsFollow

LEMMA InvImpliesDeadmanStop == DeadmanInv => DeadmanStop
<1> SUFFICES ASSUME DeadmanInv, running, sinceCmd >= StopBound, NEW w \in Wheel
             PROVE  duty[w] = 0 /\ (pwm[w] = 0 \/ stale)
  BY DEF DeadmanStop
<1>1. /\ sinceCmd \in Nat /\ sinceWatchdog \in 0 .. WatchdogGap
      /\ duty[w] \in 0 .. MaxPwm
  BY BoundsAreNatural DEF DeadmanInv, TypeOK
<1>2. SinceStop \in Nat /\ SinceStop > Timeout /\ SinceStop >= RampTicks
  BY <1>1, BoundsAreNatural, LimitsAreNatural, RampSpansFullDuty DEF SinceStop
<1>3. Braked(SinceStop)
  BY <1>2, LimitsAreNatural DEF DeadmanInv, SilenceInv
<1>4. duty[w] = 0
  <2>1. CASE RampRate = 0
    BY <2>1, <1>3 DEF Braked
  <2>2. CASE RampRate > 0
    <3>1. RampRate * SinceStop >= MaxPwm /\ RampRate * SinceStop \in Nat
      BY <1>2, <2>2, FullDutyRamp, RampSpansFullDuty
    <3> DEFINE gone == RampRate * SinceStop
    <3>2. duty[w] = 0 \/ duty[w] <= MaxPwm - gone
      BY <1>3 DEF Braked
    <3> HIDE DEF gone
    <3>3. gone >= MaxPwm /\ gone \in Nat
      BY <3>1 DEF gone
    <3>4. QED BY <1>1, <3>2, <3>3, LimitsAreNatural
  <2>3. QED BY <2>1, <2>2, RampSpansFullDuty
<1>5. QED BY <1>4 DEF DeadmanInv, PinsFollow

(* Whatever is written, the pins follow the limiter or are known not to.   *)
LEMMA SetMotorPins ==
  ASSUME NEW out, NEW bypass, SetMotor(out, bypass)
  PROVE  /\ stale' \/ (pwm' = duty' /\ lastCommanded' = out)
         /\ stale' \in BOOLEAN
<1>1. PICK done \in 0 .. 4 :
        /\ duty' = [w \in Wheel |->
                      IF RampRate > 0 /\ ~bypass THEN Ramp(duty[w], out[w].duty)
                                               ELSE out[w].duty]
        /\ pwm' = [w \in Wheel |-> IF PwmWrite(w) <= done THEN duty'[w] ELSE pwm[w]]
        /\ stale' = (done < 4)
        /\ lastCommanded' = IF done = 4 THEN out ELSE lastCommanded
  BY DEF SetMotor
<1>2. CASE done < 4
  BY <1>1, <1>2
<1>3. CASE done = 4
  <2>1. \A w \in Wheel : PwmWrite(w) <= done
    BY <1>3 DEF PwmWrite
  <2>2. pwm' = [w \in Wheel |-> duty'[w]]
    BY <1>1, <2>1
  <2>3. pwm' = duty'
    BY <1>1, <2>2
  <2>4. QED BY <1>1, <1>3, <2>3
<1>4. QED BY <1>2, <1>3

LEMMA OutputsFollow ==
  ASSUME PinsFollow, running, running',
         NEW request, NEW force, NEW bypass,
         SetMotorOutputs(request, force, bypass)
  PROVE  PinsFollow'
<1>1. CASE UNCHANGED <<sinceOutput, lastCommanded, stall, hardware>>
  BY <1>1 DEF PinsFollow, hardware
<1>2. CASE \E out : SetMotor(out, bypass)
  BY <1>2, SetMotorPins DEF PinsFollow
<1>3. QED BY <1>1, <1>2 DEF SetMotorOutputs

(* One expired run of the watchdog takes off the share of the ticks since  *)
(* the previous run.                                                       *)
LEMMA WatchdogBrakes ==
  ASSUME TypeOK, SilenceInv, running, Expired, SetMotorOutputs(Stop, TRUE, FALSE),
         NEW w \in Wheel
  PROVE  \/ duty'[w] = 0
         \/ RampRate > 0 /\ duty'[w] <= MaxPwm - RampRate * sinceCmd
<1>1. duty'[w] = IF RampRate > 0
                 THEN Greater(0, duty[w] - RampRate * sinceUpdate) ELSE 0
  BY ForcedStop
<1>2. /\ sinceCmd \in Nat /\ sinceWatchdog \in Nat /\ sinceUpdate \in Nat
      /\ duty[w] \in 0 .. MaxPwm
  BY BoundsAreNatural, RampSpansFullDuty, LimitsAreNatural DEF TypeOK
<1>3. CASE RampRate = 0
  BY <1>1, <1>3
<1>4. CASE RampRate > 0 /\ sinceUpdate >= RampTicks
  <2> DEFINE step == RampRate * sinceUpdate
  <2>1. step >= MaxPwm /\ step \in Nat
    BY <1>2, <1>4, FullDutyRamp, RampSpansFullDuty
  <2>2. duty'[w] = Greater(0, duty[w] - step)
    BY <1>1, <1>4
  <2> HIDE DEF step
  <2>3. duty'[w] = 0
    BY <1>2, <2>1, <2>2, LimitsAreNatural DEF Greater
  <2>4. QED BY <2>3
<1>5. CASE RampRate > 0 /\ sinceUpdate < RampTicks
  <2> DEFINE step == RampRate * sinceUpdate
  <2>1. step \in Nat /\ duty'[w] = Greater(0, duty[w] - step)
    BY <1>1, <1>2, <1>5, RampSpansFullDuty
  <2>2. CASE SinceStop <= Timeout /\ sinceUpdate >= Lesser(sinceCmd, RampTicks)
    <3>1. sinceUpdate >= sinceCmd
      BY <1>2, <1>5, <2>2, RampSpansFullDuty DEF Lesser
    <3>2. \A r, a, b \in Nat : a >= b => r * a >= r * b
      OBVIOUS
    <3>3. step >= RampRate * sinceCmd /\ RampRate * sinceCmd \in Nat
      BY <1>2, <3>1, <3>2, RampSpansFullDuty
    <3> DEFINE gone == RampRate * sinceCmd
    <3> HIDE DEF step, gone
    <3>4. step >= gone /\ gone \in Nat
      BY <3>3 DEF gone
    <3>5. duty'[w] = 0 \/ duty'[w] <= MaxPwm - gone
      BY <1>2, <2>1, <3>4, LimitsAreNatural DEF Greater
    <3>6. QED BY <1>5, <3>5 DEF gone
  <2>3. CASE /\ SinceStop > Timeout
             /\ sinceUpdate >= Lesser(sinceWatchdog, RampTicks)
             /\ Braked(SinceStop)
    <3>1. sinceUpdate >= sinceWatchdog
      BY <1>2, <1>5, <2>3, RampSpansFullDuty DEF Lesser
    <3>2. SinceStop \in Nat /\ SinceStop + sinceWatchdog = sinceCmd
      BY <1>2, <2>3, LimitsAreNatural DEF SinceStop
    <3>3. \A r, a, b, c \in Nat : a >= b => r * a + r * c >= r * (c + b)
      OBVIOUS
    <3> DEFINE before == RampRate * SinceStop
               gone == RampRate * sinceCmd
    <3>4. /\ step + before >= gone
          /\ before \in Nat /\ gone \in Nat
      BY <1>2, <3>1, <3>2, <3>3, RampSpansFullDuty
    <3>5. duty[w] = 0 \/ duty[w] <= MaxPwm - before
      BY <2>3 DEF Braked
    <3> HIDE DEF step, before, gone
    <3>6. duty'[w] = 0 \/ duty'[w] <= MaxPwm - gone
      BY <1>2, <2>1, <3>4, <3>5, LimitsAreNatural DEF Greater
    <3>7. QED BY <1>5, <3>6 DEF gone
  <2>4. QED BY <2>2, <2>3 DEF SilenceInv
<1>6. QED BY <1>2, <1>3, <1>4, <1>5, RampSpansFullDuty

(* Weaker evidence of braking follows from stronger.                       *)
LEMMA BrakedLess ==
  ASSUME NEW a \in Nat, NEW b \in Nat, b <= a, NEW d \in Nat,
         d = 0 \/ (RampRate > 0 /\ d <= MaxPwm - RampRate * a)
  PROVE  d = 0 \/ (RampRate > 0 /\ d <= MaxPwm - RampRate * b)
<1>1. \A r, x, y \in Nat : y <= x => r * y <= r * x /\ r * y \in Nat /\ r * x \in Nat
  OBVIOUS
<1>2. RampRate * b <= RampRate * a /\ RampRate * a \in Nat /\ RampRate * b \in Nat
  BY <1>1, RampSpansFullDuty
<1> DEFINE ra == RampRate * a
           rb == RampRate * b
<1> HIDE DEF ra, rb
<1>3. rb <= ra /\ ra \in Nat /\ rb \in Nat
  BY <1>2 DEF ra, rb
<1>4. d = 0 \/ (RampRate > 0 /\ d <= MaxPwm - ra)
  BY DEF ra
<1>5. d = 0 \/ (RampRate > 0 /\ d <= MaxPwm - rb)
  BY <1>3, <1>4, LimitsAreNatural
<1>6. QED BY <1>5 DEF rb

(* Time passing keeps what is known of the silence, capped ages included.  *)
LEMMA SilenceTick ==
  ASSUME TypeOK, SilenceInv, Tick
  PROVE  SilenceInv'
<1>1. /\ running /\ running'
      /\ sinceCmd' = Lesser(sinceCmd + 1, StopBound)
      /\ sinceWatchdog' = sinceWatchdog + 1
      /\ sinceWatchdog < WatchdogGap
      /\ sinceUpdate' = Lesser(sinceUpdate + 1, RampTicks)
      /\ duty' = duty
  BY DEF Tick, Older
<1>2. /\ sinceCmd \in 0 .. StopBound /\ sinceWatchdog \in 0 .. WatchdogGap
      /\ sinceUpdate \in 0 .. RampTicks
      /\ duty \in [Wheel -> 0 .. MaxPwm]
  BY DEF TypeOK
<1>3. /\ StopBound \in Nat /\ StopBound >= Timeout + 1 + WatchdogGap
      /\ WatchdogGap \in Nat /\ Timeout \in Nat /\ RampTicks \in Nat
  BY BoundsAreNatural, LimitsAreNatural, RampSpansFullDuty
<1>4. CASE SinceStop <= Timeout /\ sinceUpdate >= Lesser(sinceCmd, RampTicks)
  <2>1. SinceStop' <= Timeout
    BY <1>1, <1>2, <1>3, <1>4 DEF SinceStop, Lesser
  <2>2. sinceUpdate' >= Lesser(sinceCmd', RampTicks)
    BY <1>1, <1>2, <1>3, <1>4 DEF Lesser
  <2>3. QED BY <2>1, <2>2 DEF SilenceInv, Lesser
<1>5. CASE /\ SinceStop > Timeout
           /\ sinceUpdate >= Lesser(sinceWatchdog, RampTicks)
           /\ Braked(SinceStop)
  <2>1. SinceStop' > Timeout /\ SinceStop' <= SinceStop
        /\ SinceStop' \in Nat /\ SinceStop \in Nat
    BY <1>1, <1>2, <1>3, <1>5 DEF SinceStop, Lesser
  <2>2. sinceUpdate' >= Lesser(sinceWatchdog', RampTicks)
    BY <1>1, <1>2, <1>3, <1>5 DEF Lesser
  <2>3. ASSUME NEW w \in Wheel
        PROVE  duty'[w] = 0 \/ (RampRate > 0 /\ duty'[w] <= MaxPwm - RampRate * SinceStop')
    <3>1. duty[w] \in Nat
      BY <1>2, LimitsAreNatural
    <3>2. duty[w] = 0 \/ (RampRate > 0 /\ duty[w] <= MaxPwm - RampRate * SinceStop)
      BY <1>5 DEF Braked
    <3> DEFINE a == SinceStop
               b == SinceStop'
    <3>3. a \in Nat /\ b \in Nat /\ b <= a
      BY <2>1
    <3>4. duty[w] = 0 \/ (RampRate > 0 /\ duty[w] <= MaxPwm - RampRate * a)
      BY <3>2
    <3> HIDE DEF a, b
    <3>5. duty[w] = 0 \/ (RampRate > 0 /\ duty[w] <= MaxPwm - RampRate * b)
      BY <3>1, <3>3, <3>4, BrakedLess
    <3>6. QED BY <1>1, <3>5 DEF b
  <2>4. Braked(SinceStop)'
    BY <2>3 DEF Braked
  <2>5. QED BY <2>1, <2>2, <2>4 DEF SilenceInv, Lesser
<1>6. QED BY <1>1, <1>4, <1>5 DEF SilenceInv

LEMMA DeadmanInit == Init => DeadmanInv
<1> SUFFICES ASSUME Init PROVE DeadmanInv
  OBVIOUS
<1>1. TypeOK
  BY InitIsTyped
<1>2. PinsFollow
  BY DEF Init, PinsFollow
<1>3. SilenceInv
  BY RampSpansFullDuty, LimitsAreNatural DEF Init, SilenceInv, SinceStop, Lesser
<1>4. QED BY <1>1, <1>2, <1>3 DEF DeadmanInv

(* Steps that leave the limiter and the clocks alone.                      *)
LEMMA DeadmanUntouched ==
  ASSUME DeadmanInv,
         UNCHANGED <<running, sinceCmd, sinceWatchdog, duty, sinceUpdate, pwm, stale>>
  PROVE  SilenceInv' /\ PinsFollow'
  BY DEF DeadmanInv, SilenceInv, PinsFollow, SinceStop, Braked

LEMMA DeadmanStep == DeadmanInv /\ [Next]_vars => DeadmanInv'
<1> SUFFICES ASSUME DeadmanInv, [Next]_vars
             PROVE  DeadmanInv'
  OBVIOUS
<1>1. TypeOK'
  BY TypeStep DEF DeadmanInv
<1>2. SilenceInv' /\ PinsFollow'
  <2>1. CASE \/ \E p \in Publisher : Join(p) \/ Leave(p)
             \/ \E p \in Publisher, c \in Command : Publish(p, c)
             \/ Lose
             \/ MonitorCmdVelPublishers
             \/ UNCHANGED vars
    <3>1. UNCHANGED <<running, sinceCmd, sinceWatchdog, duty, sinceUpdate, pwm, stale>>
      BY <2>1 DEF Join, Leave, Publish, Lose, MonitorCmdVelPublishers,
                  vars, clocks, outputs, hardware
    <3>2. QED BY <3>1, DeadmanUntouched
  <2>2. CASE CmdVelCallback
    <3>1. /\ running /\ running' /\ sinceCmd' = 0 /\ sinceWatchdog' = sinceWatchdog
          /\ \E request, force, bypass : SetMotorOutputs(request, force, bypass)
      BY <2>2 DEF CmdVelCallback
    <3>2. PinsFollow'
      BY <3>1, OutputsFollow DEF DeadmanInv
    <3>3. sinceUpdate' \in 0 .. RampTicks /\ sinceWatchdog' \in 0 .. WatchdogGap
      BY <1>1 DEF TypeOK
    <3>4. SilenceInv'
      BY <3>1, <3>3, BoundsAreNatural, LimitsAreNatural, RampSpansFullDuty
         DEF SilenceInv, SinceStop, Lesser
    <3>5. QED BY <3>2, <3>4
  <2>3. CASE Watchdog /\ Expired
    <3>1. /\ running /\ running' /\ sinceCmd' = sinceCmd /\ sinceWatchdog' = 0
          /\ SetMotorOutputs(Stop, TRUE, FALSE)
      BY <2>3 DEF Watchdog
    <3>2. PinsFollow'
      BY <3>1, OutputsFollow DEF DeadmanInv
    <3>3. sinceCmd \in Nat
      BY BoundsAreNatural DEF DeadmanInv, TypeOK
    <3>4. SinceStop' = sinceCmd /\ SinceStop' > Timeout
      BY <2>3, <3>1, <3>3, LimitsAreNatural DEF SinceStop, Expired
    <3>5. sinceUpdate' >= Lesser(sinceWatchdog', RampTicks)
      BY <3>1, ForcedStop, RampSpansFullDuty DEF Lesser, DeadmanInv
    <3>6. \A w \in Wheel : duty'[w] = 0
            \/ (RampRate > 0 /\ duty'[w] <= MaxPwm - RampRate * sinceCmd)
      BY <2>3, <3>1, WatchdogBrakes DEF DeadmanInv
    <3>7. Braked(SinceStop)'
      BY <3>4, <3>6 DEF Braked
    <3>8. QED BY <3>2, <3>4, <3>5, <3>7 DEF SilenceInv, Lesser
  <2>4. CASE Watchdog /\ ~Expired
    <3>1. /\ running /\ sinceCmd' = sinceCmd /\ sinceWatchdog' = 0
          /\ UNCHANGED <<running, duty, sinceUpdate, pwm, stale>>
      BY <2>4 DEF Watchdog, outputs, hardware
    <3>2. PinsFollow'
      BY <3>1 DEF DeadmanInv, PinsFollow
    <3>3. /\ sinceCmd \in Nat /\ sinceWatchdog \in Nat /\ sinceCmd <= Timeout
          /\ Timeout \in Nat
      BY <2>4, BoundsAreNatural, LimitsAreNatural DEF DeadmanInv, TypeOK, Expired
    <3>4. SinceStop <= Timeout /\ SinceStop' <= Timeout
      BY <3>1, <3>3 DEF SinceStop
    <3>5. sinceUpdate >= Lesser(sinceCmd, RampTicks)
      BY <3>1, <3>3, <3>4 DEF DeadmanInv, SilenceInv, SinceStop
    <3>6. QED BY <3>1, <3>2, <3>4, <3>5 DEF SilenceInv, Lesser
  <2>5. CASE DestroyNode
    <3>1. ~running'
      BY <2>5 DEF DestroyNode
    <3> QED BY <3>1 DEF SilenceInv, PinsFollow
  <2>6. CASE Boot
    <3>1. /\ sinceCmd' = 0 /\ sinceWatchdog' = 0 /\ sinceUpdate' = 0 /\ running'
          /\ pwm' = duty' /\ duty' = [w \in Wheel |-> 0]
      BY <2>6 DEF Boot
    <3>2. PinsFollow'
      BY <3>1 DEF PinsFollow, DeadmanInv
    <3>3. SilenceInv'
      BY <3>1, LimitsAreNatural, RampSpansFullDuty DEF SilenceInv, SinceStop, Lesser
    <3>4. QED BY <3>2, <3>3
  <2>7. CASE Tick
    <3>1. SilenceInv'
      BY <2>7, SilenceTick DEF DeadmanInv
    <3>2. PinsFollow'
      BY <2>7 DEF Tick, DeadmanInv, PinsFollow
    <3>3. QED BY <3>1, <3>2
  <2>8. QED BY <2>1, <2>2, <2>3, <2>4, <2>5, <2>6, <2>7 DEF Next
<1>3. QED BY <1>1, <1>2 DEF DeadmanInv

(* StopBound ticks after the last Twist both wheels rest, however the      *)
(* ramp, the timers' jitter and the failing writes fall.                   *)
THEOREM DeadmanStops == Spec => []DeadmanStop
<1>1. Spec => []DeadmanInv
  BY DeadmanInit, DeadmanStep, PTL DEF Spec
<1>2. QED BY <1>1, InvImpliesDeadmanStop, PTL
----------------------------------------------------------------------------
(* One call of _set_motor_outputs either drops a repeat of what is already *)
(* applied, or applies what was asked unless it cuts or fails.             *)
LEMMA OutputsApplied ==
  ASSUME TypeOK, NEW request \in [Wheel -> -MaxPwm .. MaxPwm],
         NEW force \in BOOLEAN, NEW bypass \in BOOLEAN,
         SetMotorOutputs(request, force, bypass),
         ~stallActive', ~stale', NEW w \in Wheel
  PROVE  Magnitude(requested'[w] - lastCommanded'[w].duty) <= ChangeStep
<1> DEFINE want == [v \in Wheel |-> Output(request[v], IF bypass THEN 0
                                              ELSE Lesser(Deadband, MaxPwm))]
           out == [v \in Wheel |-> IF stallActive' /\ ~force
                                  THEN [want[v] EXCEPT !.duty = 0] ELSE want[v]]
<1>1. requested' = [v \in Wheel |-> want[v].duty]
  BY DEF SetMotorOutputs
<1>2. requested'[w] \in 0 .. MaxPwm
  BY SetMotorOutputsType
<1>3. CASE ~Changed(want) /\ UNCHANGED lastCommanded
  <2>1. Magnitude(want[w].duty - lastCommanded[w].duty) <= ChangeStep
    <3> HIDE DEF want
    <3>1. want[w].duty \in 0 .. MaxPwm
      BY <1>1, <1>2
    <3>2. lastCommanded[w].duty \in 0 .. MaxPwm
      BY DEF TypeOK
    <3>3. ~(Magnitude(want[w].duty - lastCommanded[w].duty) > ChangeStep)
      BY <1>3 DEF Changed
    <3>4. QED BY <3>1, <3>2, <3>3, LimitsAreNatural DEF Magnitude
  <2> HIDE DEF want
  <2>2. QED BY <1>1, <1>3, <2>1
<1>4. CASE SetMotor(out, bypass)
  <2>1. out = want
    OBVIOUS
  <2> HIDE DEF out
  <2>2. lastCommanded' = want
    BY <1>4, <2>1, SetMotorPins
  <2> HIDE DEF want
  <2>3. requested'[w] = lastCommanded'[w].duty
    BY <1>1, <2>2
  <2>4. QED BY <1>2, <2>3, LimitsAreNatural DEF Magnitude
<1>5. QED BY <1>3, <1>4 DEF SetMotorOutputs

LEMMA LatestInductive ==
  TypeOK /\ LatestCommandWins /\ [Next]_vars => LatestCommandWins'
<1> SUFFICES ASSUME TypeOK, LatestCommandWins, [Next]_vars,
                    running', ~stallActive', ~stale', NEW w \in Wheel
             PROVE  Magnitude(requested'[w] - lastCommanded'[w].duty) <= ChangeStep
  BY DEF LatestCommandWins
<1>1. CASE UNCHANGED <<running, requested, lastCommanded, stallActive, stale>>
  BY <1>1 DEF LatestCommandWins
<1>2. CASE \/ \E p \in Publisher : Join(p) \/ Leave(p)
           \/ \E p \in Publisher, c \in Command : Publish(p, c)
           \/ Lose \/ MonitorCmdVelPublishers \/ Tick \/ UNCHANGED vars
  BY <1>1, <1>2 DEF Join, Leave, Publish, Lose, MonitorCmdVelPublishers, Tick,
                    vars, outputs, limiter, stall, hardware
<1>3. CASE CmdVelCallback
  <2>1. queue \in [Wheel -> -MaxPwm .. MaxPwm] /\ Stop \in [Wheel -> -MaxPwm .. MaxPwm]
    BY <1>3, CommandsAreWheelRequests, StopIsRequest DEF CmdVelCallback, TypeOK
  <2>2. (IsRotate(queue) /\ RotateBypass) \in BOOLEAN
    BY DEF IsRotate
  <2>3. \/ SetMotorOutputs(Stop, TRUE, FALSE)
        \/ SetMotorOutputs(queue, FALSE, IsRotate(queue) /\ RotateBypass)
    BY <1>3 DEF CmdVelCallback
  <2>4. QED BY <2>1, <2>2, <2>3, OutputsApplied
<1>4. CASE Watchdog
  <2>1. CASE SetMotorOutputs(Stop, TRUE, FALSE)
    BY <2>1, StopIsRequest, OutputsApplied
  <2>2. CASE UNCHANGED outputs /\ UNCHANGED running
    BY <1>1, <2>2 DEF outputs, limiter, stall, hardware
  <2>3. QED BY <1>4, <2>1, <2>2 DEF Watchdog
<1>5. CASE DestroyNode
  BY <1>5 DEF DestroyNode
<1>6. CASE Boot
  <2>1. requested'[w] = 0 /\ lastCommanded'[w].duty = 0
    BY <1>6 DEF Boot, Off
  <2>2. QED BY <2>1, LimitsAreNatural DEF Magnitude
<1>7. QED BY <1>2, <1>3, <1>4, <1>5, <1>6 DEF Next

(* However many commands the rate limit drops in a row, the applied output *)
(* stays within ChangeStep of the newest request.                          *)
THEOREM LatestCommandAlwaysWins == Spec => []LatestCommandWins
<1>1. Init => LatestCommandWins
  BY LimitsAreNatural DEF Init, LatestCommandWins, Off, Magnitude
<1>2. Spec => []TypeOK
  BY TypeCorrect
<1>3. QED BY <1>1, <1>2, LatestInductive, PTL DEF Spec
----------------------------------------------------------------------------
(* The monitor's count is stale only while the change is younger than the  *)
(* monitor's last run.                                                     *)
CountInv ==
  TypeOK /\ (running => pubCount = PublisherCount(pubs) \/ pubAge <= sinceMonitor)

LEMMA CountStep == CountInv /\ [Next]_vars => CountInv'
<1> SUFFICES ASSUME CountInv, [Next]_vars
             PROVE  CountInv'
  OBVIOUS
<1>0. TypeOK'
  BY TypeStep DEF CountInv
<1> SUFFICES ASSUME running'
             PROVE  pubCount' = PublisherCount(pubs') \/ pubAge' <= sinceMonitor'
  BY <1>0 DEF CountInv
<1>1. pubAge \in Nat /\ sinceMonitor \in Nat /\ sinceMonitor' \in Nat
  BY <1>0, BoundsAreNatural DEF CountInv, TypeOK
<1>2. CASE \E p \in Publisher : Join(p) \/ Leave(p)
  <2>1. pubAge' = 0
    BY <1>2 DEF Join, Leave
  <2>2. QED BY <1>1, <2>1
<1>3. CASE \/ \E p \in Publisher, c \in Command : Publish(p, c)
           \/ Lose \/ CmdVelCallback \/ Watchdog \/ UNCHANGED vars
  <2>1. UNCHANGED <<running, pubs, pubAge, sinceMonitor, pubCount>>
    BY <1>3 DEF Publish, Lose, CmdVelCallback, Watchdog, vars, clocks, bus
  <2>2. QED BY <2>1 DEF CountInv
<1>4. CASE MonitorCmdVelPublishers
  BY <1>4 DEF MonitorCmdVelPublishers, bus
<1>5. CASE DestroyNode
  BY <1>5 DEF DestroyNode
<1>6. CASE Boot
  BY <1>6 DEF Boot
<1>7. CASE Tick
  <2>1. /\ UNCHANGED <<running, pubs, pubCount>>
        /\ sinceMonitor' = sinceMonitor + 1
        /\ pubAge' <= pubAge + 1 /\ pubAge' \in Nat
    BY <1>7, <1>1, BoundsAreNatural DEF Tick, Older, Lesser, CountInv, TypeOK
  <2>2. QED BY <1>1, <2>1 DEF CountInv
<1>8. QED BY <1>2, <1>3, <1>4, <1>5, <1>6, <1>7 DEF Next

(* Once the count has had time to settle, a node that hears several        *)
(* controllers changes a wheel's request to rest or not at all.            *)
LEMMA GateStep ==
  ASSUME CountInv, [Next]_vars,
         Strict, running, pubAge > MonitorGap, PublisherCount(pubs) > 1,
         NEW w \in Wheel
  PROVE  requested'[w] \in {0, requested[w]}
<1>1. pubCount > 1
  BY BoundsAreNatural DEF CountInv, TypeOK
<1>2. TypeOK
  BY DEF CountInv
<1>3. CASE SetMotorOutputs(Stop, TRUE, FALSE)
  BY <1>2, <1>3, ForcedStop
<1>4. CASE UNCHANGED requested
  BY <1>4
<1>5. CASE CmdVelCallback
  <2>1. CASE Blocked(queue)
    BY <1>3, <1>5, <2>1 DEF CmdVelCallback
  <2>2. CASE ~Blocked(queue)
    <3>1. queue = Stop
      BY <1>1, <2>2 DEF Blocked
    <3>2. SetMotorOutputs(Stop, FALSE, IsRotate(Stop) /\ RotateBypass)
      BY <1>5, <2>2, <3>1 DEF CmdVelCallback
    <3>3. ~IsRotate(Stop)
      BY DEF IsRotate, Stop, Wheel
    <3>4. \A band : Output(Stop[w], band).duty = 0
      BY DEF Output, Stop, Magnitude
    <3>5. \E band : requested' = [v \in Wheel |-> Output(Stop[v], band).duty]
      BY <3>2 DEF SetMotorOutputs
    <3>6. QED BY <3>4, <3>5
  <2>3. QED BY <2>1, <2>2
<1>6. CASE Boot
  BY <1>6 DEF Boot
<1>7. QED
  BY <1>3, <1>4, <1>5, <1>6
     DEF Next, Join, Leave, Publish, Lose, Watchdog, MonitorCmdVelPublishers,
         DestroyNode, Tick, vars, outputs, limiter

(* Two contending controllers cannot drive a robot whose strict gate is on *)
(* once the monitor has had time to see them both.                         *)
THEOREM StrictGateHolds == Spec => StrictGate
<1>1. Init => CountInv
  BY InitIsTyped DEF Init, CountInv
<1>2. CountInv /\ [Next]_vars =>
        [Strict /\ running /\ pubAge > MonitorGap /\ PublisherCount(pubs) > 1 =>
           \A w \in Wheel : requested'[w] \in {0, requested[w]}]_vars
  BY GateStep
<1>3. QED BY <1>1, <1>2, CountStep, PTL DEF Spec, StrictGate
----------------------------------------------------------------------------
(* While no write fails the driver implements module Deadman.              *)

NoneFailed == MaxFaults = 0 => ~stale

RefinementInv == DeadmanInv /\ NoneFailed

LEMMA OutputsFail ==
  ASSUME TypeOK, NoneFailed, NEW request, NEW force, NEW bypass,
         SetMotorOutputs(request, force, bypass)
  PROVE  NoneFailed'
<1> SUFFICES ASSUME MaxFaults = 0 PROVE ~stale'
  BY DEF NoneFailed
<1>1. CASE UNCHANGED <<sinceOutput, lastCommanded, stall, hardware>>
  BY <1>1 DEF NoneFailed, hardware
<1>2. CASE \E out : SetMotor(out, bypass)
  <2>1. PICK out : SetMotor(out, bypass)
    BY <1>2
  <2>2. PICK done \in 0 .. 4 : (done < 4 => faults < MaxFaults) /\ stale' = (done < 4)
    BY <2>1 DEF SetMotor
  <2>3. faults = 0
    BY DEF TypeOK
  <2>4. ~(done < 4)
    BY <2>2, <2>3
  <2>5. QED BY <2>2, <2>4
<1>3. QED BY <1>1, <1>2 DEF SetMotorOutputs

LEMMA RefinementInvStep == RefinementInv /\ [Next]_vars => RefinementInv'
<1> SUFFICES ASSUME RefinementInv, [Next]_vars
             PROVE  NoneFailed'
  BY DeadmanStep DEF RefinementInv
<1>1. CASE \E request, force, bypass : SetMotorOutputs(request, force, bypass)
  BY <1>1, OutputsFail DEF RefinementInv, DeadmanInv
<1>2. CASE UNCHANGED stale
  BY <1>2 DEF RefinementInv, NoneFailed
<1>3. CASE DestroyNode
  BY <1>3, ShutdownSlows, LimitsAreNatural DEF RefinementInv, DeadmanInv, NoneFailed
<1>4. CASE Boot
  BY <1>4 DEF Boot, NoneFailed
<1>5. QED
  BY <1>1, <1>2, <1>3, <1>4
     DEF Next, Join, Leave, Publish, Lose, CmdVelCallback, Watchdog,
         MonitorCmdVelPublishers, Tick, vars, outputs, hardware

LEMMA FastestType ==
  ASSUME pwm \in [Wheel -> 0 .. MaxPwm]
  PROVE  /\ Fastest \in 0 .. MaxPwm
         /\ \A w \in Wheel : pwm[w] <= Fastest
         /\ \E w \in Wheel : Fastest = pwm[w]
  BY LimitsAreNatural DEF Fastest, Wheel

(* No wheel of pwm' is faster than in pwm.                                 *)
LEMMA SlowerIsSlow ==
  ASSUME pwm \in [Wheel -> 0 .. MaxPwm], pwm' \in [Wheel -> 0 .. MaxPwm],
         \A w \in Wheel : pwm'[w] <= pwm[w],
         sinceCmd' = sinceCmd
  PROVE  AbstractDeadman!Slow
<1>1. Fastest \in 0 .. MaxPwm /\ Fastest' \in 0 .. MaxPwm
  BY LimitsAreNatural DEF Fastest, Wheel
<1>2. Fastest' <= Fastest
  BY LimitsAreNatural DEF Fastest, Wheel
<1>3. Fastest' \in 0 .. Fastest
  BY <1>1, <1>2, LimitsAreNatural
<1>4. QED BY <1>3 DEF AbstractDeadman!Slow

LEMMA StopsNext == DeadmanInv' => DeadmanStop'
  BY InvImpliesDeadmanStop, PTL

(* Every step of the driver is a step of the dead man's switch or none.    *)
LEMMA RefinementStep ==
  ASSUME MaxFaults = 0, RefinementInv, RefinementInv', [Next]_vars
  PROVE  [AbstractDeadman!DMNext]_(AbstractDeadman!dmVars)
<1> USE DEF RefinementInv, DeadmanInv
<1>1. /\ pwm \in [Wheel -> 0 .. MaxPwm] /\ pwm' \in [Wheel -> 0 .. MaxPwm]
      /\ ~stale /\ ~stale'
  BY DEF TypeOK, NoneFailed
<1>2. Fastest' \in 0 .. MaxPwm
  BY <1>1, LimitsAreNatural DEF Fastest, Wheel
<1>3. CASE UNCHANGED <<sinceCmd, pwm>>
  BY <1>3 DEF AbstractDeadman!dmVars, Fastest
<1>4. CASE CmdVelCallback \/ Boot
  <2>1. sinceCmd' = 0
    BY <1>4 DEF CmdVelCallback, Boot
  <2>2. QED BY <1>2, <2>1 DEF AbstractDeadman!DMNext, AbstractDeadman!Hear
<1>5. CASE Watchdog /\ SetMotorOutputs(Stop, TRUE, FALSE)
  <2>1. running /\ running' /\ sinceCmd' = sinceCmd
    BY <1>5 DEF Watchdog
  <2>2. pwm = duty /\ pwm' = duty'
    BY <1>1, <2>1 DEF PinsFollow
  <2>3. ASSUME NEW w \in Wheel PROVE pwm'[w] <= pwm[w]
    <3>1. duty'[w] = IF RampRate > 0
                     THEN Greater(0, duty[w] - RampRate * sinceUpdate) ELSE 0
      BY <1>5, ForcedStop
    <3>2. sinceUpdate \in Nat /\ duty[w] \in 0 .. MaxPwm
      BY RampSpansFullDuty DEF TypeOK
    <3> DEFINE step == RampRate * sinceUpdate
    <3>3. step \in Nat
      BY <3>2, RampSpansFullDuty
    <3>4. duty'[w] = IF RampRate > 0 THEN Greater(0, duty[w] - step) ELSE 0
      BY <3>1
    <3> HIDE DEF step
    <3>5. QED BY <2>2, <3>2, <3>3, <3>4, LimitsAreNatural DEF Greater
  <2>4. QED BY <1>1, <2>1, <2>3, SlowerIsSlow DEF AbstractDeadman!DMNext
<1>6. CASE DestroyNode
  <2>1. sinceCmd' = sinceCmd /\ pwm = duty
    BY <1>1, <1>6 DEF DestroyNode, clocks, PinsFollow
  <2>2. \A w \in Wheel : pwm'[w] <= pwm[w]
    BY <1>6, <2>1, ShutdownSlows
  <2>3. QED BY <1>1, <2>1, <2>2, SlowerIsSlow DEF AbstractDeadman!DMNext
<1>7. CASE Tick
  <2>1. sinceCmd' = Older(sinceCmd, StopBound) /\ pwm' = pwm /\ running'
    BY <1>7 DEF Tick
  <2>2. sinceCmd \in 0 .. StopBound /\ StopBound \in Nat
    BY BoundsAreNatural DEF TypeOK
  <2>3. sinceCmd' = IF sinceCmd < StopBound THEN sinceCmd + 1 ELSE sinceCmd
    BY <2>1, <2>2 DEF Older, Lesser
  <2>4. Fastest' = Fastest
    BY <2>1 DEF Fastest
  <2>5. ASSUME sinceCmd' = StopBound PROVE Fastest = 0
    <3>1. DeadmanStop'
      BY StopsNext
    <3>2. \A w \in Wheel : pwm'[w] = 0
      BY <1>1, <2>1, <2>2, <2>5, <3>1 DEF DeadmanStop, StopBound, WatchdogGap
    <3>3. QED BY <2>1, <3>2 DEF Fastest, Wheel
  <2>6. QED BY <2>3, <2>4, <2>5 DEF AbstractDeadman!DMNext, AbstractDeadman!Wait
<1>8. QED
  BY <1>3, <1>4, <1>5, <1>6, <1>7
     DEF Next, Join, Leave, Publish, Lose, Watchdog, MonitorCmdVelPublishers,
         vars, clocks, outputs, hardware

(* Nothing but a received Twist, or a restart, speeds a wheel up, and      *)
(* silence brings the robot to rest: the driver is a dead man's switch for *)
(* every ramp, timeout and jitter, as long as the GPIO writes succeed.     *)
THEOREM DriverImplementsDeadman ==
  ASSUME MaxFaults = 0
  PROVE  Spec => ImplementsDeadman
<1>1. Init => RefinementInv
  BY DeadmanInit DEF Init, RefinementInv, NoneFailed
<1>2. Init => AbstractDeadman!DMInit
  BY DEF Init, AbstractDeadman!DMInit, Fastest, Wheel
<1>3. RefinementInv /\ RefinementInv' /\ [Next]_vars
        => [AbstractDeadman!DMNext]_(AbstractDeadman!dmVars)
  BY RefinementStep
<1>4. QED
  BY <1>1, <1>2, <1>3, RefinementInvStep, PTL
     DEF Spec, ImplementsDeadman, AbstractDeadman!DMSpec

----------------------------------------------------------------------------
(* Stall protection: as long as some wheel runs at StallDuty, the time it  *)
(* has done so and the longest it may still do so are together paid for,   *)
(* once by the time-out and again by each failed write.                    *)

High == \E w \in Wheel : pwm[w] >= StallDuty

\* Until the watchdog stops the wheels, if no command is handled.
UntilStop ==
  IF sinceCmd > Timeout THEN WatchdogGap - sinceWatchdog
  ELSE Timeout + 1 - sinceCmd + WatchdogGap

\* Until an output that the rate limit does not drop.
UntilOutput ==
  IF sinceOutput < MinPeriod THEN MinPeriod - sinceOutput + Timeout + 1 + WatchdogGap
  ELSE UntilStop

\* After a failed write the timer may only start with that output.
Remaining ==
  IF stale THEN StallTimeout + OutputGap + UntilOutput
  ELSE IF stallAge < StallTimeout THEN StallTimeout - stallAge + OutputGap
  ELSE UntilOutput

FaultCost == StallTimeout + 2 * OutputGap

Price(n) == StallTimeout + OutputGap + n * FaultCost

Paid == Price(faults)

StallInv ==
  StallTimeout > 0 /\ RampRate = 0 =>
    /\ ~running \/ ~High => hot = 0
    /\ running /\ High /\ ~stale => stallAge >= 0
    /\ running /\ High => hot + Remaining <= Paid

LEMMA StallNaturals ==
  /\ WatchdogGap \in Nat /\ OutputGap \in Nat /\ FaultCost \in Nat
  /\ OutputGap = MinPeriod + Timeout + 1 + WatchdogGap
  /\ \A n \in Nat : n * FaultCost \in Nat /\ (n + 1) * FaultCost = n * FaultCost + FaultCost
  /\ \A m, n \in Nat : m <= n => m * FaultCost <= n * FaultCost
<1>1. WatchdogGap \in Nat
  BY BoundsAreNatural
<1>2. OutputGap \in Nat /\ OutputGap = MinPeriod + Timeout + 1 + WatchdogGap
  BY <1>1, LimitsAreNatural DEF OutputGap
<1>3. FaultCost \in Nat
  BY <1>2, LimitsAreNatural DEF FaultCost
<1>4. \A c, n \in Nat : n * c \in Nat /\ (n + 1) * c = n * c + c
  OBVIOUS
<1>5. \A c, m, n \in Nat : m <= n => m * c <= n * c
  <2> SUFFICES ASSUME NEW c \in Nat, NEW m \in Nat, NEW n \in Nat, m <= n
               PROVE  m * c <= n * c
    OBVIOUS
  <2>1. PICK d \in Nat : n = m + d
    <3>1. n - m \in Nat /\ n = m + (n - m)
      OBVIOUS
    <3> QED BY <3>1
  <2>2. n * c = m * c + d * c
    BY <2>1
  <2>3. m * c \in Nat /\ d * c \in Nat
    OBVIOUS
  <2> QED BY <2>2, <2>3
<1> QED BY <1>1, <1>2, <1>3, <1>4, <1>5

LEMMA PriceFacts ==
  /\ \A n \in Nat : /\ Price(n) \in Nat /\ Price(n) >= StallTimeout + OutputGap
                     /\ Price(n + 1) = Price(n) + FaultCost
  /\ \A m, n \in Nat : m <= n => Price(m) <= Price(n)
<1>1. StallTimeout + OutputGap \in Nat
  BY StallNaturals, LimitsAreNatural
<1>2. ASSUME NEW n \in Nat
      PROVE  /\ Price(n) \in Nat /\ Price(n) >= StallTimeout + OutputGap
             /\ Price(n + 1) = Price(n) + FaultCost
  <2>1. n * FaultCost \in Nat /\ (n + 1) * FaultCost = n * FaultCost + FaultCost
    BY StallNaturals
  <2>2. /\ Price(n) = (StallTimeout + OutputGap) + n * FaultCost
        /\ Price(n + 1) = (StallTimeout + OutputGap) + (n + 1) * FaultCost
    BY DEF Price
  <2>3. FaultCost \in Nat
    BY StallNaturals
  <2> QED BY <1>1, <2>1, <2>2, <2>3
<1>3. ASSUME NEW m \in Nat, NEW n \in Nat, m <= n PROVE Price(m) <= Price(n)
  <2>1. m * FaultCost \in Nat /\ n * FaultCost \in Nat /\ m * FaultCost <= n * FaultCost
    BY <1>3, StallNaturals
  <2> QED BY <1>1, <2>1 DEF Price
<1> QED BY <1>2, <1>3

UntilsBounded ==
  UntilOutput \in 0 .. OutputGap /\ UntilStop \in 0 .. Timeout + 1 + WatchdogGap

LEMMA UntilBounds == TypeOK => UntilsBounded
<1> SUFFICES ASSUME TypeOK PROVE UntilsBounded
  OBVIOUS
<1>1. /\ sinceCmd \in Nat /\ sinceWatchdog \in 0 .. WatchdogGap
      /\ sinceOutput \in 0 .. MinPeriod
  BY BoundsAreNatural DEF TypeOK
<1>2. UntilStop \in 0 .. Timeout + 1 + WatchdogGap
  BY <1>1, StallNaturals, LimitsAreNatural DEF UntilStop
<1> HIDE DEF UntilStop
<1>3. UntilOutput \in 0 .. OutputGap
  BY <1>1, <1>2, StallNaturals, LimitsAreNatural DEF UntilOutput
<1> QED BY <1>2, <1>3 DEF UntilsBounded

\* At any time the rest is a natural number, and no more than a fault costs.
RemainingBounded ==
  /\ Remaining \in Int /\ Remaining <= FaultCost
  /\ stale \/ stallAge >= 0 => Remaining >= 0

LEMMA RemainingBounds == TypeOK => RemainingBounded
<1> SUFFICES ASSUME TypeOK PROVE RemainingBounded
  OBVIOUS
<1>1. stallAge \in Int /\ stallAge >= -1 /\ stallAge <= StallTimeout /\ stale \in BOOLEAN
  BY LimitsAreNatural DEF TypeOK, NotTiming
<1>2. UntilOutput \in 0 .. OutputGap /\ OutputGap \in Nat /\ OutputGap >= 1
  BY UntilBounds, StallNaturals, LimitsAreNatural DEF UntilsBounded
<1> HIDE DEF UntilOutput
<1>3. Remaining \in Int /\ Remaining <= FaultCost
  BY <1>1, <1>2, LimitsAreNatural DEF Remaining, FaultCost
<1>4. stale \/ stallAge >= 0 => Remaining >= 0
  BY <1>1, <1>2, LimitsAreNatural DEF Remaining
<1> QED
  BY <1>3, <1>4 DEF RemainingBounded

LEMMA BoundsNext == TypeOK' => UntilsBounded' /\ RemainingBounded'
  BY UntilBounds, RemainingBounds, PTL

LEMMA StallOutputs ==
  ASSUME TypeOK, TypeOK', StallInv, StallTimeout > 0, RampRate = 0, running, running',
         NEW request, NEW force \in BOOLEAN, NEW bypass,
         force => request = Stop,
         SetMotorOutputs(request, force, bypass)
  PROVE  StallInv'
<1> DEFINE want == [w \in Wheel |-> Output(request[w], IF bypass THEN 0
                                              ELSE Lesser(Deadband, MaxPwm))]
           cut == stallActive' /\ ~force
           out == [w \in Wheel |-> IF cut THEN [want[w] EXCEPT !.duty = 0] ELSE want[w]]
           high == \E w \in Wheel : want[w].duty >= StallDuty
<1>0. /\ faults \in Nat /\ hot \in Nat /\ stallAge \in Int /\ stallAge <= StallTimeout
  BY BoundsAreNatural, LimitsAreNatural DEF TypeOK, NotTiming
<1>3. Paid \in Nat /\ StallTimeout + OutputGap <= Paid
  BY <1>0, PriceFacts, StallNaturals, LimitsAreNatural DEF Paid
<1>1. CASE /\ ~force /\ sinceOutput < MinPeriod
           /\ UNCHANGED <<sinceOutput, lastCommanded, stall, hardware>>
  <2>1. UNCHANGED <<sinceOutput, stallAge, pwm, faults, stale, hot>>
    BY <1>1 DEF stall, hardware
  <2>2. UntilOutput' = UntilOutput
    BY <1>1, <2>1 DEF UntilOutput
  <2> QED
    BY <2>1, <2>2 DEF StallInv, High, Remaining, Paid
<1>2. ASSUME NEW done \in 0 .. 4,
             done < 4 => faults < MaxFaults,
             duty' = [w \in Wheel |-> out[w].duty],
             pwm' = [w \in Wheel |-> IF PwmWrite(w) <= done THEN duty'[w] ELSE pwm[w]],
             faults' = IF done < 4 THEN faults + 1 ELSE faults,
             stale' = (done < 4),
             hot' = IF \E w \in Wheel : pwm'[w] >= StallDuty THEN hot ELSE 0,
             TrackStall(high)
      PROVE  StallInv'
  <2>1. ~High' => hot' = 0
    BY <1>2 DEF High
  <2>2. High' => hot' = hot
    BY <1>2 DEF High
  <2>3. CASE done < 4
    <3>1. stale' /\ Paid' = Paid + FaultCost
      <4>1. stale' /\ faults' = faults + 1
        BY <1>2, <2>3
      <4> QED BY <1>0, <4>1, PriceFacts DEF Paid
    <3>2. Remaining' \in Int /\ Remaining' <= FaultCost
      BY BoundsNext DEF RemainingBounded
    <3>3. hot <= Paid
      <4>1. CASE High
        <5>1. hot + Remaining <= Paid /\ (stale \/ stallAge >= 0)
          BY <4>1 DEF StallInv
        <5>2. Remaining \in Int /\ Remaining >= 0
          BY <5>1, RemainingBounds DEF RemainingBounded
        <5> QED BY <1>0, <1>3, <5>1, <5>2
      <4>2. CASE ~High
        BY <1>0, <1>3, <4>2 DEF StallInv
      <4> QED BY <4>1, <4>2
    <3>4. High' => hot' + Remaining' <= Paid'
      <4>1. FaultCost \in Nat
        BY StallNaturals
      <4>2. \A h, r, p, c \in Int : h <= p /\ r <= c => h + r <= p + c
        OBVIOUS
      <4>3. hot \in Int /\ Paid \in Int /\ Remaining' \in Int /\ FaultCost \in Int
        BY <1>0, <1>3, <3>2, <4>1
      <4>4. hot + Remaining' <= Paid + FaultCost
        BY <3>2, <3>3, <4>2, <4>3
      <4> QED BY <2>2, <3>1, <4>4
    <3> QED BY <2>1, <3>1, <3>4 DEF StallInv
  <2>4. CASE done = 4
    <3>1. /\ ~stale' /\ Paid' = Paid
          /\ \A w \in Wheel : pwm'[w] = out[w].duty
      <4>1. faults' = faults /\ ~stale'
        <5>1. ~(done < 4) /\ stale' = (done < 4)
          BY <1>2, <2>4
        <5> QED BY <1>2, <5>1
      <4>2. \A w \in Wheel : PwmWrite(w) <= done
        BY <2>4 DEF PwmWrite
      <4>3. \A w \in Wheel : pwm'[w] = out[w].duty
        BY <1>2, <4>2
      <4> QED BY <4>1, <4>3 DEF Paid
    <3>2. ASSUME High'
          PROVE  /\ high /\ ~cut /\ ~force
      <4>1. PICK w \in Wheel : out[w].duty >= StallDuty
        BY <3>1, <3>2 DEF High
      <4>2. want[w] = [duty |-> want[w].duty, dir |-> want[w].dir]
        BY DEF Output
      <4>3. ~cut
        <5>1. cut => out[w].duty = 0
          BY <4>2
        <5> QED BY <4>1, <5>1, LimitsAreNatural
      <4>4. high
        BY <4>1, <4>3
      <4>5. force => want[w].duty = 0
        BY DEF Stop, Output, Magnitude
      <4> QED BY <4>1, <4>3, <4>4, <4>5, LimitsAreNatural
    <3>3. ASSUME High'
          PROVE  /\ stallAge < StallTimeout /\ stallAge' >= 0 /\ stallAge' < StallTimeout
                 /\ stallAge >= 0 => stallAge' = stallAge
      <4> HIDE DEF want
      <4>1. high /\ ~stallActive'
        BY <3>2, <3>3
      <4>2. /\ stallAge' = CASE ~high                -> NotTiming
                             [] stallAge = NotTiming -> 0
                             [] OTHER                -> stallAge
            /\ stallActive' = (high /\ (stallActive \/ stallAge >= StallTimeout))
        BY <1>2, LimitsAreNatural DEF TrackStall
      <4>3. stallAge' = IF stallAge = NotTiming THEN 0 ELSE stallAge
        BY <4>1, <4>2
      <4>4. ~(stallAge >= StallTimeout)
        BY <4>1, <4>2
      <4> QED BY <1>0, <4>3, <4>4, LimitsAreNatural DEF NotTiming, TypeOK
    <3>4. High' => Remaining' = StallTimeout - stallAge' + OutputGap
      BY <3>1, <3>3 DEF Remaining
    <3>5. ASSUME High' PROVE hot' + Remaining' <= Paid'
      <4>1. stallAge' \in Int /\ Remaining' = StallTimeout - stallAge' + OutputGap
        BY <3>3, <3>4, <3>5, LimitsAreNatural DEF TypeOK, NotTiming
      <4>2. CASE ~High
        BY <1>0, <1>3, <2>2, <3>1, <3>3, <3>5, <4>1, <4>2, StallNaturals, LimitsAreNatural DEF StallInv
      <4>3. CASE High /\ stale
        BY <1>0, <1>3, <2>2, <3>1, <3>3, <3>5, <4>1, <4>3, StallNaturals, UntilBounds,
           LimitsAreNatural DEF StallInv, Remaining, UntilsBounded
      <4>4. CASE High /\ ~stale
        BY <1>0, <1>3, <2>2, <3>1, <3>3, <3>5, <4>1, <4>4 DEF StallInv, Remaining
      <4> QED BY <4>2, <4>3, <4>4
    <3> QED BY <2>1, <3>3, <3>5 DEF StallInv
  <2> QED BY <2>3, <2>4
<1>4. QED
  <2> HIDE DEF want
  <2>1. SUFFICES ASSUME TrackStall(high), SetMotor(out, bypass) PROVE StallInv'
    BY <1>1 DEF SetMotorOutputs, want
  <2>2. PICK done \in 0 .. 4 :
          /\ done < 4 => faults < MaxFaults
          /\ duty' = [w \in Wheel |-> out[w].duty]
          /\ pwm' = [w \in Wheel |-> IF PwmWrite(w) <= done THEN duty'[w] ELSE pwm[w]]
          /\ faults' = IF done < 4 THEN faults + 1 ELSE faults
          /\ stale' = (done < 4)
          /\ hot' = IF \E w \in Wheel : pwm'[w] >= StallDuty THEN hot ELSE 0
    BY <2>1 DEF SetMotor
  <2>3. QED BY <1>2, <2>1, <2>2

LEMMA StallTick ==
  ASSUME TypeOK, TypeOK', StallInv, StallTimeout > 0, RampRate = 0, Tick
  PROVE  StallInv'
<1>1. /\ running /\ running' /\ UNCHANGED <<pwm, faults, stale>>
      /\ sinceWatchdog < WatchdogGap /\ sinceWatchdog' = sinceWatchdog + 1
      /\ sinceCmd' = Older(sinceCmd, StopBound)
      /\ sinceOutput' = Older(sinceOutput, MinPeriod)
      /\ stallAge' = IF stallAge = NotTiming THEN NotTiming ELSE Older(stallAge, StallTimeout)
      /\ hot' = IF High THEN Older(hot, HotCap) ELSE 0
  BY DEF Tick, High
<1>2. /\ sinceCmd \in Nat /\ sinceWatchdog \in Nat /\ sinceOutput \in 0 .. MinPeriod
      /\ stallAge \in Int /\ stallAge <= StallTimeout /\ hot \in Nat /\ HotCap \in Nat
      /\ StopBound \in Nat /\ StopBound > Timeout
  BY BoundsAreNatural, LimitsAreNatural DEF TypeOK, NotTiming
<1>3. UntilStop' <= UntilStop - 1
  BY <1>1, <1>2, StallNaturals, LimitsAreNatural DEF UntilStop, Older, Lesser
<1>4. UntilOutput' <= UntilOutput - 1
  <2>1. CASE sinceOutput = MinPeriod
    <3>1. sinceOutput' = MinPeriod
      BY <1>1, <2>1, LimitsAreNatural DEF Older, Lesser
    <3> QED BY <1>3, <2>1, <3>1, LimitsAreNatural DEF UntilOutput
  <2>2. CASE sinceOutput < MinPeriod
    <3>1. sinceOutput' = sinceOutput + 1
      BY <1>1, <1>2, <2>2, LimitsAreNatural DEF Older, Lesser
    <3>2. UntilStop' \in 0 .. Timeout + 1 + WatchdogGap
      BY BoundsNext, StallNaturals, LimitsAreNatural DEF UntilsBounded
    <3>3. UntilOutput = MinPeriod - sinceOutput + Timeout + 1 + WatchdogGap
      BY <2>2 DEF UntilOutput
    <3>4. UntilOutput' = IF sinceOutput' < MinPeriod
                         THEN MinPeriod - sinceOutput' + Timeout + 1 + WatchdogGap
                         ELSE UntilStop'
      BY DEF UntilOutput
    <3> QED
      BY <1>2, <2>2, <3>1, <3>2, <3>3, <3>4, StallNaturals, LimitsAreNatural
  <2> QED BY <1>2, <2>1, <2>2, LimitsAreNatural
<1>5. High' = High /\ (High => hot' <= hot + 1)
  BY <1>1, <1>2 DEF High, Older, Lesser
<1>6. ASSUME High PROVE Remaining' <= Remaining - 1 /\ (~stale => stallAge' >= 0)
  <2>1. UntilOutput \in Int /\ UntilOutput' \in Int /\ UntilOutput' <= OutputGap
    BY UntilBounds, BoundsNext, StallNaturals DEF UntilsBounded
  <2>2. CASE stale
    <3>1. /\ Remaining = StallTimeout + OutputGap + UntilOutput
          /\ Remaining' = StallTimeout + OutputGap + UntilOutput'
      BY <1>1, <2>2 DEF Remaining
    <3>2. UntilOutput' <= UntilOutput - 1
      BY <1>4
    <3>3. StallTimeout + OutputGap \in Int
      BY StallNaturals, LimitsAreNatural
    <3>4. \A c, u, v \in Int : v <= u - 1 => c + v <= (c + u) - 1
      OBVIOUS
    <3>5. Remaining' <= Remaining - 1
      BY <2>1, <3>1, <3>2, <3>3, <3>4
    <3> QED BY <2>2, <3>5
  <2>3. CASE ~stale
    <3>1. stallAge >= 0 /\ stallAge' = Older(stallAge, StallTimeout)
      BY <1>1, <1>6, <2>3 DEF StallInv, NotTiming
    <3>2. stallAge' = IF stallAge < StallTimeout THEN stallAge + 1 ELSE StallTimeout
      BY <1>2, <3>1, LimitsAreNatural DEF Older, Lesser
    <3> QED
      BY <1>1, <1>2, <1>4, <2>1, <2>3, <3>1, <3>2, StallNaturals, LimitsAreNatural DEF Remaining
  <2> QED BY <2>2, <2>3
<1>7. ASSUME High PROVE hot' + Remaining' <= Paid'
  <2>1. hot + Remaining <= Paid
    BY <1>1, <1>7 DEF StallInv
  <2>2. Paid' = Paid
    BY <1>1 DEF Paid
  <2>3. Paid \in Nat
    <3>1. faults \in Nat
      BY LimitsAreNatural DEF TypeOK
    <3> QED BY <3>1, PriceFacts DEF Paid
  <2>4. Remaining \in Int /\ Remaining' \in Int
    BY RemainingBounds, BoundsNext DEF RemainingBounded
  <2>5. hot' \in Int
    BY BoundsAreNatural DEF TypeOK
  <2>6. hot' <= hot + 1 /\ Remaining' <= Remaining - 1
    BY <1>5, <1>6, <1>7
  <2>7. \A h, g, r, q, p \in Int :
          h + r <= p /\ g <= h + 1 /\ q <= r - 1 => g + q <= p
    OBVIOUS
  <2>8. hot \in Int /\ Paid \in Int
    BY <1>2, <2>3
  <2>9. hot' + Remaining' <= Paid
    BY <2>1, <2>4, <2>5, <2>6, <2>7, <2>8
  <2> QED BY <2>2, <2>9
<1> QED BY <1>1, <1>5, <1>6, <1>7 DEF StallInv

LEMMA StallStep == TypeOK /\ StallInv /\ [Next]_vars => StallInv'
<1> SUFFICES ASSUME TypeOK, StallInv, [Next]_vars, StallTimeout > 0, RampRate = 0
             PROVE  StallInv'
  BY DEF StallInv
<1>0. TypeOK'
  BY TypeStep
<1>1. ASSUME UNCHANGED <<running, sinceCmd, sinceOutput, stallAge, pwm, faults, stale, hot>>,
             sinceCmd <= Timeout \/ UNCHANGED sinceWatchdog
      PROVE  StallInv'
  <2>1. UntilStop' = UntilStop
    BY <1>1, BoundsAreNatural, LimitsAreNatural DEF UntilStop, TypeOK
  <2> QED BY <1>1, <2>1 DEF StallInv, High, Remaining, UntilOutput, Paid
<1>2. CASE \/ \E p \in Publisher : Join(p) \/ Leave(p)
           \/ \E p \in Publisher, c \in Command : Publish(p, c)
           \/ Lose \/ MonitorCmdVelPublishers \/ UNCHANGED vars
  BY <1>1, <1>2 DEF Join, Leave, Publish, Lose, MonitorCmdVelPublishers,
                    vars, clocks, outputs, limiter, stall, hardware
<1>3. CASE CmdVelCallback
  <2>1. /\ running /\ running'
        /\ \/ SetMotorOutputs(Stop, TRUE, FALSE)
           \/ SetMotorOutputs(queue, FALSE, IsRotate(queue) /\ RotateBypass)
    BY <1>3 DEF CmdVelCallback
  <2>2. CASE SetMotorOutputs(Stop, TRUE, FALSE)
    BY <1>0, <2>1, <2>2, StallOutputs
  <2>3. CASE SetMotorOutputs(queue, FALSE, IsRotate(queue) /\ RotateBypass)
    BY <1>0, <2>1, <2>3, StallOutputs
  <2> QED BY <2>1, <2>2, <2>3
<1>4. CASE Watchdog
  <2>1. CASE Expired
    <3>1. running /\ running' /\ SetMotorOutputs(Stop, TRUE, FALSE)
      BY <1>4, <2>1 DEF Watchdog
    <3> QED BY <1>0, <3>1, StallOutputs
  <2>2. CASE ~Expired
    <3>1. UNCHANGED <<running, sinceCmd, outputs>> /\ sinceCmd <= Timeout
      BY <1>4, <2>2, BoundsAreNatural, LimitsAreNatural DEF Watchdog, Expired, TypeOK
    <3> QED BY <1>1, <3>1 DEF outputs, limiter, stall, hardware
  <2> QED BY <2>1, <2>2
<1>5. CASE DestroyNode
  <2>1. ~running' /\ hot' = 0
    BY <1>5 DEF DestroyNode
  <2> QED BY <2>1 DEF StallInv
<1>6. CASE Boot
  <2>1. ~running /\ hot' = hot /\ pwm' = [w \in Wheel |-> 0]
    BY <1>6 DEF Boot
  <2>2. ~High' /\ hot' = 0
    BY <2>1, LimitsAreNatural DEF StallInv, High
  <2> QED BY <2>2 DEF StallInv
<1>7. CASE Tick
  BY <1>0, <1>7, StallTick
<1> QED BY <1>2, <1>3, <1>4, <1>5, <1>6, <1>7 DEF Next

(* Whatever is commanded, dropped by the rate limit, fails or restarts: no *)
(* wheel runs at StallDuty for longer than StallBound (_set_motor_outputs, *)
(* its stall protection).                                                  *)
THEOREM HighDutyAlwaysCut == Spec => []HighDutyIsCut
<1>1. Init => StallInv
  <2>1. Init => ~High /\ hot = 0
    BY LimitsAreNatural DEF Init, High
  <2> QED BY <2>1 DEF StallInv
<1>2. TypeOK /\ StallInv => HighDutyIsCut
  <2> SUFFICES ASSUME TypeOK, StallInv, StallTimeout > 0, RampRate = 0
               PROVE  hot <= StallBound
    BY DEF HighDutyIsCut
  <2>1. /\ faults \in Nat /\ faults <= MaxFaults /\ MaxFaults \in Nat /\ hot \in Nat
        /\ StallTimeout \in Nat
    BY BoundsAreNatural, LimitsAreNatural DEF TypeOK
  <2>2. StallBound = Price(MaxFaults)
    BY DEF StallBound, Price, FaultCost
  <2>3. Paid \in Nat /\ Price(MaxFaults) \in Nat /\ Paid <= Price(MaxFaults)
    BY <2>1, PriceFacts DEF Paid
  <2>4. hot <= Paid
    <3>1. CASE running /\ High
      <4>1. hot + Remaining <= Paid /\ Remaining \in Int /\ Remaining >= 0
        BY <3>1, RemainingBounds DEF StallInv, RemainingBounded
      <4> QED BY <2>1, <2>3, <4>1
    <3>2. CASE ~running \/ ~High
      BY <2>1, <2>3, <3>2 DEF StallInv
    <3> QED BY <3>1, <3>2
  <2> QED BY <2>1, <2>2, <2>3, <2>4
<1> QED BY <1>1, <1>2, StallStep, TypeCorrect, PTL DEF Spec
----------------------------------------------------------------------------
(* The limiter never goes QuietBound ticks without an update.  What the    *)
(* rate limit drops was updated less than MinPeriod ago and starts the     *)
(* watchdog's timeout anew; then the watchdog updates it.                  *)

QuietInv ==
  /\ sinceUpdate <= sinceOutput \/ sinceOutput = MinPeriod
  /\ sinceUpdate <= MinPeriod + sinceCmd
  /\ sinceUpdate <= MinPeriod + Timeout + sinceWatchdog

LEMMA AgesAreNatural ==
  TypeOK => /\ {sinceUpdate, sinceOutput, sinceCmd, sinceWatchdog} \subseteq Nat
            /\ sinceOutput <= MinPeriod /\ sinceWatchdog <= WatchdogGap
  BY BoundsAreNatural, LimitsAreNatural, RampSpansFullDuty DEF TypeOK

\* An output is applied, or dropped by the rate limit.
LEMMA QuietOutputs ==
  ASSUME TypeOK, QuietInv, NEW request, NEW force, NEW bypass,
         SetMotorOutputs(request, force, bypass)
  PROVE  \/ sinceUpdate' = 0
         \/ /\ ~force /\ sinceOutput < MinPeriod /\ sinceUpdate <= sinceOutput
            /\ UNCHANGED <<sinceUpdate, sinceOutput>>
<1>1. CASE /\ ~force /\ sinceOutput < MinPeriod
           /\ UNCHANGED <<sinceOutput, lastCommanded, stall, hardware>>
  <2>1. sinceOutput # MinPeriod
    BY <1>1, AgesAreNatural, LimitsAreNatural
  <2> QED BY <1>1, <2>1 DEF QuietInv, hardware
<1>2. CASE \E out : SetMotor(out, bypass)
  BY <1>2 DEF SetMotor, TouchUpdate
<1> QED BY <1>1, <1>2 DEF SetMotorOutputs

LEMMA QuietTick ==
  ASSUME TypeOK, QuietInv, Tick
  PROVE  QuietInv'
<1>1. /\ {sinceUpdate, sinceOutput, sinceCmd, sinceWatchdog} \subseteq Nat
      /\ sinceOutput <= MinPeriod /\ sinceWatchdog < WatchdogGap
  BY AgesAreNatural DEF Tick
<1>2. {MinPeriod, Timeout, WatchdogGap, RampTicks, StopBound} \subseteq Nat
  BY BoundsAreNatural, LimitsAreNatural, RampSpansFullDuty
<1>3. StopBound >= Timeout + WatchdogGap
  BY <1>2 DEF StopBound, Greater
<1>4. /\ sinceUpdate' = Lesser(sinceUpdate + 1, RampTicks)
      /\ sinceOutput' = Lesser(sinceOutput + 1, MinPeriod)
      /\ sinceCmd' = Lesser(sinceCmd + 1, StopBound)
      /\ sinceWatchdog' = sinceWatchdog + 1
  BY DEF Tick, Older
<1>5. sinceUpdate' \in Nat /\ sinceUpdate' <= sinceUpdate + 1
  BY <1>1, <1>2, <1>4 DEF Lesser
<1>6. sinceUpdate' <= MinPeriod + Timeout + sinceWatchdog'
  BY <1>1, <1>2, <1>4, <1>5 DEF QuietInv
<1>7. sinceUpdate' <= MinPeriod + sinceCmd'
  BY <1>1, <1>2, <1>3, <1>4, <1>5, <1>6 DEF QuietInv, Lesser
<1>8. sinceUpdate' <= sinceOutput' \/ sinceOutput' = MinPeriod
  BY <1>1, <1>2, <1>4, <1>5 DEF QuietInv, Lesser
<1> QED BY <1>6, <1>7, <1>8 DEF QuietInv

LEMMA QuietStep == TypeOK /\ QuietInv /\ [Next]_vars => QuietInv'
<1> SUFFICES ASSUME TypeOK, QuietInv, [Next]_vars PROVE QuietInv'
  OBVIOUS
<1>1. TypeOK'
  BY TypeStep
<1>2. /\ {sinceUpdate, sinceOutput, sinceCmd, sinceWatchdog} \subseteq Nat
      /\ {sinceUpdate', sinceOutput', sinceCmd', sinceWatchdog'} \subseteq Nat
      /\ MinPeriod \in Nat /\ Timeout \in Nat
  <2>1. TypeOK' => {sinceUpdate', sinceOutput', sinceCmd', sinceWatchdog'} \subseteq Nat
    BY BoundsAreNatural, LimitsAreNatural, RampSpansFullDuty DEF TypeOK
  <2> QED BY <1>1, <2>1, AgesAreNatural, LimitsAreNatural
<1>3. CASE UNCHANGED <<sinceUpdate, sinceOutput, sinceCmd, sinceWatchdog>>
  BY <1>3 DEF QuietInv
<1>4. CASE CmdVelCallback
  <2>1. \/ sinceUpdate' = 0
        \/ /\ sinceOutput < MinPeriod /\ sinceUpdate <= sinceOutput
           /\ UNCHANGED <<sinceUpdate, sinceOutput>>
    BY <1>4, QuietOutputs DEF CmdVelCallback
  <2>2. UNCHANGED sinceWatchdog
    BY <1>4 DEF CmdVelCallback
  <2> QED BY <1>2, <2>1, <2>2 DEF QuietInv
<1>5. CASE Watchdog /\ Expired
  <2>1. sinceUpdate' = 0
    BY <1>5, QuietOutputs DEF Watchdog
  <2> QED BY <1>2, <2>1 DEF QuietInv
<1>6. CASE Watchdog /\ ~Expired
  <2>1. sinceCmd <= Timeout /\ sinceWatchdog' = 0
        /\ UNCHANGED <<sinceUpdate, sinceOutput, sinceCmd>>
    BY <1>2, <1>6 DEF Watchdog, Expired, outputs, limiter, hardware
  <2> QED BY <1>2, <2>1 DEF QuietInv
<1>7. CASE Boot
  BY <1>2, <1>7 DEF Boot, QuietInv
<1>8. CASE Tick
  BY <1>8, QuietTick
<1> QED
  BY <1>3, <1>4, <1>5, <1>6, <1>7, <1>8
     DEF Next, Join, Leave, Publish, Lose, MonitorCmdVelPublishers, DestroyNode,
         vars, bus, clocks, outputs, limiter, hardware

LEMMA QuietlyBounded ==
  TypeOK /\ QuietInv => RampRate * sinceUpdate <= RampRate * QuietBound
<1> SUFFICES ASSUME TypeOK, QuietInv
             PROVE  RampRate * sinceUpdate <= RampRate * QuietBound
  OBVIOUS
<1>1. /\ sinceUpdate \in Nat /\ QuietBound \in Nat /\ RampRate \in Nat
      /\ sinceUpdate <= QuietBound
  BY AgesAreNatural, BoundsAreNatural, LimitsAreNatural, RampSpansFullDuty
     DEF QuietInv, QuietBound
<1>2. PICK rest \in Nat : QuietBound = sinceUpdate + rest
  BY <1>1, QuietBound - sinceUpdate \in Nat
<1>3. RampRate * QuietBound = RampRate * sinceUpdate + RampRate * rest
  BY <1>1, <1>2
<1>4. RampRate * rest \in Nat /\ RampRate * sinceUpdate \in Nat
  BY <1>1, <1>2
<1> QED BY <1>3, <1>4

\* The one write that can raise a pin.
Softly == \A w \in Wheel : pwm'[w] - pwm[w] <= RampRate * QuietBound

LEMMA SoftOutputs ==
  ASSUME DeadmanInv, QuietInv, running, RampRate > 0, ~stale,
         NEW request \in [Wheel -> -MaxPwm .. MaxPwm], NEW force \in BOOLEAN,
         SetMotorOutputs(request, force, FALSE)
  PROVE  Softly
<1>1. /\ pwm = duty /\ duty \in [Wheel -> 0 .. MaxPwm] /\ MaxPwm \in Nat
      /\ RampRate * sinceUpdate \in Nat /\ RampRate * QuietBound \in Nat
      /\ RampRate * sinceUpdate <= RampRate * QuietBound
  <2>1. /\ RampRate \in Nat /\ sinceUpdate \in Nat /\ QuietBound \in Nat
    BY AgesAreNatural, BoundsAreNatural, LimitsAreNatural, RampSpansFullDuty
       DEF QuietBound, DeadmanInv
  <2> QED BY <2>1, QuietlyBounded, LimitsAreNatural DEF DeadmanInv, PinsFollow, TypeOK
<1>2. CASE UNCHANGED pwm
  BY <1>1, <1>2 DEF Softly
<1>3. CASE \E out : SetMotor(out, FALSE)
  <2>1. PICK out : SetMotor(out, FALSE)
    BY <1>3
  <2>2. \A w \in Wheel : /\ duty'[w] = Ramp(duty[w], out[w].duty)
                         /\ pwm'[w] \in {pwm[w], duty'[w]}
    BY <2>1 DEF SetMotor
  <2>3. duty' \in [Wheel -> 0 .. MaxPwm]
    BY SetMotorOutputsType DEF DeadmanInv
  <2>4. ASSUME NEW w \in Wheel
        PROVE  pwm'[w] - pwm[w] <= RampRate * QuietBound
    <3>1. duty[w] \in Nat /\ duty'[w] \in Nat /\ pwm[w] = duty[w]
      BY <1>1, <2>3
    <3> DEFINE step == RampRate * sinceUpdate
               target == out[w].duty
    <3>2. step \in Nat /\ step <= RampRate * QuietBound
      BY <1>1
    <3>3. duty'[w] = IF target > duty[w] THEN Lesser(target, duty[w] + step)
                                         ELSE Greater(target, duty[w] - step)
      BY <2>2 DEF Ramp
    <3> HIDE DEF step, target
    <3>4. duty'[w] <= duty[w] + step
      BY <3>1, <3>2, <3>3 DEF Lesser, Greater
    <3> QED BY <1>1, <2>2, <3>1, <3>2, <3>4
  <2> QED BY <2>4 DEF Softly
<1> QED BY <1>2, <1>3 DEF SetMotorOutputs, hardware

LEMMA SoftStep ==
  ASSUME DeadmanInv, QuietInv, [Next]_vars
  PROVE  [RampRate > 0 /\ ~RotateBypass /\ ~stale => Softly]_vars
<1> SUFFICES ASSUME RampRate > 0, ~RotateBypass, ~stale PROVE Softly \/ UNCHANGED vars
  OBVIOUS
<1>1. /\ pwm \in [Wheel -> 0 .. MaxPwm] /\ MaxPwm \in Nat /\ RampRate * QuietBound \in Nat
  BY BoundsAreNatural, LimitsAreNatural, RampSpansFullDuty
     DEF DeadmanInv, TypeOK, QuietBound
<1>2. CASE UNCHANGED pwm
  BY <1>1, <1>2 DEF Softly
<1>3. CASE CmdVelCallback
  <2>1. queue \in [Wheel -> -MaxPwm .. MaxPwm] /\ Stop \in [Wheel -> -MaxPwm .. MaxPwm]
    BY <1>3, CommandsAreWheelRequests DEF CmdVelCallback, DeadmanInv, TypeOK
  <2>2. running /\ \E request \in [Wheel -> -MaxPwm .. MaxPwm], force \in BOOLEAN :
                     SetMotorOutputs(request, force, FALSE)
    BY <1>3, <2>1 DEF CmdVelCallback
  <2> QED BY <2>2, SoftOutputs
<1>4. CASE Watchdog /\ Expired
  BY <1>4, SoftOutputs, StopIsRequest DEF Watchdog
<1>5. CASE DestroyNode
  <2>1. pwm = duty
    BY <1>5 DEF DestroyNode, DeadmanInv, PinsFollow
  <2>2. \A w \in Wheel : pwm'[w] <= pwm[w] /\ pwm'[w] \in 0 .. MaxPwm
    BY <1>5, <2>1, ShutdownSlows DEF DeadmanInv
  <2> QED BY <1>1, <2>2 DEF Softly
<1>6. CASE Boot
  <2>1. pwm' = [w \in Wheel |-> 0]
    BY <1>6 DEF Boot
  <2> QED BY <1>1, <2>1 DEF Softly
<1> QED
  BY <1>2, <1>3, <1>4, <1>5, <1>6
     DEF Next, Join, Leave, Publish, Lose, Watchdog, MonitorCmdVelPublishers,
         Tick, outputs, hardware

(* No step raises a wheel by more than QuietBound ticks allow, however     *)
(* long the robot was idle (set_motor's _ramp scales with the time since    *)
(* _last_update).                                                          *)
THEOREM StartsSoftly == Spec => SoftStart
<1>1. Init => QuietInv
  BY LimitsAreNatural DEF Init, QuietInv
<1>2. DeadmanInv /\ QuietInv /\ [Next]_vars =>
        [RampRate > 0 /\ ~RotateBypass /\ ~stale =>
           \A w \in Wheel : pwm'[w] - pwm[w] <= RampRate * QuietBound]_vars
  BY SoftStep DEF Softly
<1>3. DeadmanInv => TypeOK
  BY DEF DeadmanInv
<1> QED
  BY <1>1, <1>2, <1>3, DeadmanInit, DeadmanStep, QuietStep, PTL DEF Spec, SoftStart
=============================================================================
