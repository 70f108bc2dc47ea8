---------------------------- MODULE MotorDriver ----------------------------
(***************************************************************************)
(* The motor driver of one differential-drive robot: MotorDriverNode and   *)
(* the HardwareInterface it owns, between the robot's cmd_vel topic and    *)
(* the H-bridge pins.                                                      *)
(*                                                                         *)
(* The node spins in one thread, so each callback is one action.  Time is  *)
(* counted in ticks and kept as ages ("how long ago"), each capped where   *)
(* the code stops telling larger values apart.  A callback of a timer runs *)
(* when its period is over and at most Jitter ticks late.                  *)
(*                                                                         *)
(* Definitions whose names say how they differ from the one below them     *)
(* (RampPerCall and Ramp, ...) are faults a change of the code could bring *)
(* in; no action uses them.  They show that the properties notice.         *)
(*                                                                         *)
(* A Twist is abstracted to what the mixer makes of it: the signed duty    *)
(* each wheel is asked for, after trim and clipping.                       *)
(***************************************************************************)
EXTENDS Integers, FiniteSets

CONSTANTS
  Publisher,       \* identities of the nodes that may publish on cmd_vel
  Exempt,          \* the ones strict_cmd_vel_exempt_publishers names
  Unnamed,         \* the ones the ROS graph cannot name
  Command,         \* the wheel requests a Twist can mix to
  MaxPwm,          \* max_pwm
  Deadband,        \* pwm_deadband_pct
  ChangeStep,      \* a duty change up to this much is "not changed" (0.5 %)
  MinPeriod,       \* min_cmd_period; 0 when cmd_rate_hz is 0
  Timeout,         \* watchdog_timeout_s
  WatchdogPeriod,  \* period of the watchdog timer (0.1 s)
  MonitorPeriod,   \* period of the publisher monitor (2 s)
  Jitter,          \* how late a timer callback can run
  RampRate,        \* duty per tick the ramp or slew allows; 0 when off
  RampTicks,       \* ticks the limiter needs from full duty to zero
  StallTimeout,    \* stall_timeout_s; 0 when the protection is off
  StallDuty,       \* stall_duty_pct
  Strict,          \* strict_single_cmd_vel_publisher
  RotateBypass,    \* allow_rotate_bypass_safety
  MaxFaults,       \* bound: GPIO writes that may fail in a behaviour
  None             \* an empty cmd_vel queue

Wheel == {"left", "right"}

Stop == [w \in Wheel |-> 0]

ASSUME PublishersAreFinite == IsFiniteSet(Publisher)

ASSUME NoneIsNoCommand == None \notin Command

ASSUME CommandsAreWheelRequests ==
  /\ Command \subseteq [Wheel -> -MaxPwm .. MaxPwm]
  /\ Stop \in Command

ASSUME LimitsAreNatural ==
  /\ MaxPwm \in Nat /\ Deadband \in Nat /\ ChangeStep \in Nat
  /\ MinPeriod \in Nat /\ Timeout \in Nat /\ Jitter \in Nat
  /\ WatchdogPeriod \in Nat \ {0} /\ MonitorPeriod \in Nat \ {0}
  /\ StallTimeout \in Nat /\ StallDuty \in Nat \ {0}
  /\ MaxFaults \in Nat
  /\ Strict \in BOOLEAN /\ RotateBypass \in BOOLEAN

ASSUME RampSpansFullDuty ==
  /\ RampRate \in Nat /\ RampTicks \in Nat
  /\ RampRate > 0 => RampRate * RampTicks >= MaxPwm

VARIABLES
  pubs,          \* nodes that have a cmd_vel publisher now
  pubAge,        \* time since pubs changed, or the driver booted
  queue,         \* the subscription's queue: KEEP_LAST, depth 1
  running,       \* the driver process is up
  sinceCmd,      \* age of last_cmd_time
  sinceOutput,   \* age of last_output_time
  sinceWatchdog, \* age of the last run of _watchdog
  sinceMonitor,  \* age of the last run of _monitor_cmd_vel_publishers
  pubCount,      \* _cmd_vel_pub_count
  requested,     \* _last_left_duty, _last_right_duty
  lastCommanded, \* _last_commanded
  stallAge,      \* age of _stall_start_time, or NotTiming
  stallActive,   \* _stall_active
  duty,          \* _cur_left_duty, _cur_right_duty
  sinceUpdate,   \* age of _last_update
  pwm,           \* duty on the enable pins
  dir,           \* direction on the input pins
  faults,        \* GPIO writes that failed so far
  stale,         \* history: the last output did not reach every pin
  hot            \* history: how long the driver has run some wheel at StallDuty

bus == <<pubs, pubAge, queue>>
limiter == <<requested, sinceOutput, lastCommanded>>
stall == <<stallAge, stallActive>>
hardware == <<duty, sinceUpdate, pwm, dir, faults, stale, hot>>
outputs == <<limiter, stall, hardware>>
clocks == <<sinceCmd, sinceWatchdog, sinceMonitor>>
vars == <<bus, running, clocks, pubCount, outputs>>

NotTiming == -1

Lesser(a, b) == IF a < b THEN a ELSE b
Greater(a, b) == IF a < b THEN b ELSE a
Magnitude(x) == IF x < 0 THEN -x ELSE x

\* One tick older, up to the cap.
Older(age, cap) == Lesser(age + 1, cap)

\* The longest the timer callbacks leave between two runs.
WatchdogGap == WatchdogPeriod + Jitter
MonitorGap == MonitorPeriod + Jitter

\* Silence after which the watchdog must have brought the wheels to rest.
StopBound == Greater(Timeout + 1, RampTicks) + WatchdogGap

\* The longest that no output is applied: the rate limit drops repeats for
\* MinPeriod, and the watchdog stops what then gets no command.
OutputGap == MinPeriod + Timeout + 1 + WatchdogGap

\* The longest a wheel may run at StallDuty while the protection is on.
StallBound ==
  StallTimeout + OutputGap + MaxFaults * (StallTimeout + 2 * OutputGap)

\* hot is tracked only as far as the properties need it.
HotCap == IF StallTimeout = 0 THEN 0 ELSE StallBound + 1

Off == [w \in Wheel |-> [duty |-> 0, dir |-> 1]]
----------------------------------------------------------------------------
(* The publishers the monitor counts.  Nodes the graph cannot name share   *)
(* one placeholder name and are counted, as one, only when nobody else is. *)

PublisherCount(P) ==
  LET known == P \ Unnamed
  IN CASE known # {} -> Cardinality(known \ Exempt)
       [] P = {}     -> 0
       [] OTHER      -> 1

(* speed_to_pwm: a request below the deadband turns into no duty, and zero *)
(* counts as forward.                                                      *)
Output(request, band) ==
  LET size == Magnitude(request)
  IN [duty |-> IF size < band THEN 0 ELSE size,
      dir  |-> IF request >= 0 THEN 1 ELSE -1]

(* Is want told apart from the last applied output?                        *)
ChangedSinceRequest(want) ==
  \E w \in Wheel :
    \/ Magnitude(want[w].duty - requested[w]) > ChangeStep
    \/ want[w].dir # lastCommanded[w].dir

Changed(want) ==
  \E w \in Wheel :
    \/ Magnitude(want[w].duty - lastCommanded[w].duty) > ChangeStep
    \/ want[w].dir # lastCommanded[w].dir

(* The limiter: move towards target by at most RampRate per tick since the *)
(* last update.                                                            *)
RampOvershooting(current, target) ==
  IF target > current THEN Lesser(target, current + RampRate * sinceUpdate)
                      ELSE current - RampRate * sinceUpdate

RampPerCall(current, target) ==
  IF target > current THEN Lesser(target, current + RampRate)
                      ELSE Greater(target, current - RampRate)

Ramp(current, target) ==
  LET step == RampRate * sinceUpdate
  IN IF target > current THEN Lesser(target, current + step)
                         ELSE Greater(target, current - step)

(* The pins are written in this order; a failing write leaves the later    *)
(* ones as they were.                                                      *)
DirWrite(w) == IF w = "left" THEN 1 ELSE 2
PwmWrite(w) == IF w = "left" THEN 3 ELSE 4

TouchUpdateOnChange == sinceUpdate' = IF duty' = duty THEN sinceUpdate ELSE 0

TouchUpdate == sinceUpdate' = 0

(* HardwareInterface.set_motor, followed by the bookkeeping its caller     *)
(* does when it returns and skips when it raises.                          *)
SetMotor(out, bypass) ==
  \E done \in 0 .. 4 :
    /\ done < 4 => faults < MaxFaults
    /\ duty' = [w \in Wheel |->
                  IF RampRate > 0 /\ ~bypass THEN Ramp(duty[w], out[w].duty)
                                             ELSE out[w].duty]
    /\ TouchUpdate
    /\ dir' = [w \in Wheel |-> IF DirWrite(w) <= done THEN out[w].dir ELSE dir[w]]
    /\ pwm' = [w \in Wheel |-> IF PwmWrite(w) <= done THEN duty'[w] ELSE pwm[w]]
    /\ faults' = IF done < 4 THEN faults + 1 ELSE faults
    /\ stale' = (done < 4)
    /\ sinceOutput' = IF done = 4 THEN 0 ELSE sinceOutput
    /\ lastCommanded' = IF done = 4 THEN out ELSE lastCommanded
    /\ hot' = IF \E w \in Wheel : pwm'[w] >= StallDuty THEN hot ELSE 0

(* Stall protection: note how long a high duty has been asked for.         *)
TrackStallRestarting(high) ==
  IF StallTimeout = 0
  THEN UNCHANGED stall
  ELSE /\ stallAge' = IF high THEN 0 ELSE NotTiming
       /\ stallActive' = (high /\ (stallActive \/ stallAge >= StallTimeout))

TrackStall(high) ==
  IF StallTimeout = 0
  THEN UNCHANGED stall
  ELSE /\ stallAge' = CASE ~high                -> NotTiming
                        [] stallAge = NotTiming -> 0
                        [] OTHER                -> stallAge
       /\ stallActive' = (high /\ (stallActive \/ stallAge >= StallTimeout))

(* _set_motor_outputs                                                      *)
SetMotorOutputs(request, force, bypass) ==
  LET want == [w \in Wheel |-> Output(request[w], IF bypass THEN 0
                                              ELSE Lesser(Deadband, MaxPwm))]
      throttled == ~force /\ sinceOutput < MinPeriod /\ ~Changed(want)
      cut == stallActive' /\ ~force
  IN /\ requested' = [w \in Wheel |-> want[w].duty]
     /\ \/ /\ throttled
           /\ UNCHANGED <<sinceOutput, lastCommanded, stall, hardware>>
        \/ /\ ~throttled
           /\ TrackStall(\E w \in Wheel : want[w].duty >= StallDuty)
           /\ SetMotor([w \in Wheel |-> IF cut THEN [want[w] EXCEPT !.duty = 0]
                                               ELSE want[w]],
                       bypass)
----------------------------------------------------------------------------
(* The nodes around the driver: controllers come and go, publish, and the  *)
(* best-effort transport drops what it likes.                              *)

Join(p) ==
  /\ p \notin pubs
  /\ pubs' = pubs \cup {p}
  /\ pubAge' = 0
  /\ UNCHANGED <<queue, running, clocks, pubCount, outputs>>

\* A controller leaves or crashes: nothing is published on its behalf.
Leave(p) ==
  /\ p \in pubs
  /\ pubs' = pubs \ {p}
  /\ pubAge' = 0
  /\ UNCHANGED <<queue, running, clocks, pubCount, outputs>>

\* The newest Twist replaces one that still waits.
Publish(p, c) ==
  /\ p \in pubs
  /\ running
  /\ queue' = c
  /\ UNCHANGED <<pubs, pubAge, running, clocks, pubCount, outputs>>

Lose ==
  /\ queue # None
  /\ queue' = None
  /\ UNCHANGED <<pubs, pubAge, running, clocks, pubCount, outputs>>
----------------------------------------------------------------------------
(* The driver's callbacks.                                                 *)

BlockedAboveTwo(c) == Strict /\ pubCount > 2 /\ c # Stop

(* The strict gate lets a stop through whoever sends it.                   *)
Blocked(c) == Strict /\ pubCount > 1 /\ c # Stop

IsRotate(c) == c["left"] * c["right"] < 0

CmdVelCallback ==
  /\ running
  /\ queue # None
  /\ queue' = None
  /\ sinceCmd' = 0
  /\ IF Blocked(queue)
     THEN SetMotorOutputs(Stop, TRUE, FALSE)
     ELSE SetMotorOutputs(queue, FALSE, IsRotate(queue) /\ RotateBypass)
  /\ UNCHANGED <<pubs, pubAge, running, sinceWatchdog, sinceMonitor, pubCount>>

(* The watchdog goes by the time the last Twist was handled, blocked or not. *)
ExpiredWhileMoving ==
  sinceCmd > Timeout /\ \E w \in Wheel : lastCommanded[w].duty > 0

ExpiredUngated == sinceCmd > Timeout /\ ~(Strict /\ pubCount > 1)

Expired == sinceCmd > Timeout

Watchdog ==
  /\ running
  /\ sinceWatchdog >= WatchdogPeriod
  /\ sinceWatchdog' = 0
  /\ IF Expired
     THEN SetMotorOutputs(Stop, TRUE, FALSE)
     ELSE UNCHANGED outputs
  /\ UNCHANGED <<bus, running, sinceCmd, sinceMonitor, pubCount>>

\* The graph query itself does not fail here.
MonitorCmdVelPublishers ==
  /\ running
  /\ sinceMonitor >= MonitorPeriod
  /\ sinceMonitor' = 0
  /\ pubCount' = PublisherCount(pubs)
  /\ UNCHANGED <<bus, running, sinceCmd, sinceWatchdog, outputs>>

(* destroy_node: one last ramped stop, then hw.stop() ends the PWMs.  Both  *)
(* catch a write that fails and leave the later pins as they are.          *)
SoftStop(w) == IF RampRate > 0 THEN Ramp(duty[w], 0) ELSE 0

DestroyNode ==
  /\ running
  /\ running' = FALSE
  /\ queue' = None
  /\ \E done \in 0 .. 4, ended \in 2 .. 4 :
       /\ faults' = faults + (IF done < 4 THEN 1 ELSE 0) + (IF ended < 4 THEN 1 ELSE 0)
       /\ faults' <= MaxFaults
       /\ dir' = [w \in Wheel |-> IF DirWrite(w) <= done THEN 1 ELSE dir[w]]
       /\ pwm' = [w \in Wheel |-> CASE PwmWrite(w) <= ended -> 0
                                   [] PwmWrite(w) \in ended + 1 .. done -> SoftStop(w)
                                   [] OTHER -> pwm[w]]
       /\ stale' = (ended < 4)
  /\ hot' = 0
  /\ UNCHANGED <<pubs, pubAge, clocks, pubCount, limiter, stall, duty, sinceUpdate>>

\* A new process: every field is what __init__ makes it, the PWMs start at 0.
Boot ==
  /\ ~running
  /\ running' = TRUE
  /\ pubAge' = 0
  /\ sinceCmd' = 0 /\ sinceWatchdog' = 0 /\ sinceMonitor' = 0
  /\ pubCount' = 0
  /\ sinceOutput' = MinPeriod
  /\ requested' = [w \in Wheel |-> 0]
  /\ lastCommanded' = Off
  /\ stallAge' = NotTiming /\ stallActive' = FALSE
  /\ duty' = [w \in Wheel |-> 0]
  /\ pwm' = [w \in Wheel |-> 0] /\ stale' = FALSE
  /\ sinceUpdate' = 0
  /\ UNCHANGED <<pubs, queue, dir, faults, hot>>

(* Time passes, but never past the moment a timer callback is due.         *)
Tick ==
  /\ running
  /\ sinceWatchdog < WatchdogGap
  /\ sinceMonitor < MonitorGap
  /\ sinceCmd' = Older(sinceCmd, StopBound)
  /\ sinceOutput' = Older(sinceOutput, MinPeriod)
  /\ sinceWatchdog' = sinceWatchdog + 1
  /\ sinceMonitor' = sinceMonitor + 1
  /\ sinceUpdate' = Older(sinceUpdate, RampTicks)
  /\ stallAge' = IF stallAge = NotTiming THEN NotTiming
                 ELSE Older(stallAge, StallTimeout)
  /\ pubAge' = Older(pubAge, MonitorGap + 1)
  /\ hot' = IF \E w \in Wheel : pwm[w] >= StallDuty
            THEN Older(hot, HotCap) ELSE 0
  /\ UNCHANGED <<pubs, queue, running, pubCount, requested, lastCommanded,
                 stallActive, duty, pwm, dir, faults, stale>>

Init ==
  /\ pubs = {} /\ pubAge = 0
  /\ queue = None
  /\ running = TRUE
  /\ sinceCmd = 0 /\ sinceWatchdog = 0 /\ sinceMonitor = 0
  /\ pubCount = 0
  /\ sinceOutput = MinPeriod
  /\ requested = [w \in Wheel |-> 0]
  /\ lastCommanded = Off
  /\ stallAge = NotTiming /\ stallActive = FALSE
  /\ duty = [w \in Wheel |-> 0]
  /\ pwm = [w \in Wheel |-> 0]
  /\ dir = [w \in Wheel |-> 1]
  /\ sinceUpdate = 0
  /\ faults = 0 /\ stale = FALSE /\ hot = 0

Next ==
  \/ \E p \in Publisher : Join(p) \/ Leave(p)
  \/ \E p \in Publisher, c \in Command : Publish(p, c)
  \/ Lose
  \/ CmdVelCallback
  \/ Watchdog
  \/ MonitorCmdVelPublishers
  \/ DestroyNode
  \/ Boot
  \/ Tick

(* Time does not stop, and rclpy.spin runs every timer that is due.        *)
Fairness ==
  WF_vars(Tick) /\ WF_vars(Watchdog) /\ WF_vars(MonitorCmdVelPublishers)

Spec == Init /\ [][Next]_vars /\ Fairness
----------------------------------------------------------------------------
TypeOK ==
  /\ pubs \subseteq Publisher
  /\ pubAge \in 0 .. MonitorGap + 1
  /\ queue \in Command \cup {None}
  /\ running \in BOOLEAN
  /\ sinceCmd \in 0 .. StopBound
  /\ sinceOutput \in 0 .. MinPeriod
  /\ sinceWatchdog \in 0 .. WatchdogGap
  /\ sinceMonitor \in 0 .. MonitorGap
  /\ pubCount \in Nat
  /\ requested \in [Wheel -> 0 .. MaxPwm]
  /\ lastCommanded \in [Wheel -> [duty : 0 .. MaxPwm, dir : {-1, 1}]]
  /\ stallAge \in NotTiming .. StallTimeout
  /\ stallActive \in BOOLEAN
  /\ duty \in [Wheel -> 0 .. MaxPwm]
  /\ sinceUpdate \in 0 .. RampTicks
  /\ pwm \in [Wheel -> 0 .. MaxPwm]
  /\ dir \in [Wheel -> {-1, 1}]
  /\ faults \in 0 .. MaxFaults
  /\ stale \in BOOLEAN
  /\ hot \in 0 .. HotCap

(* The watchdog is a dead man's switch: once no Twist has reached the node *)
(* for StopBound ticks both wheels rest, although the stop it commands is  *)
(* itself ramped and needs several runs of the timer.  Only pins whose     *)
(* last write failed may still be driven.                                  *)
DeadmanStop ==
  running /\ sinceCmd >= StopBound =>
    \A w \in Wheel : duty[w] = 0 /\ (pwm[w] = 0 \/ stale)

(* The longest the limiter goes without an update, which is what its next  *)
(* step is computed from.                                                  *)
QuietBound == MinPeriod + Timeout + WatchdogGap

(* Soft start: the limiter scales with the time since its last update, so  *)
(* an idle robot could jump to full duty on its first command.  It cannot, *)
(* because the watchdog keeps updating it: no step raises a wheel by more  *)
(* than QuietBound ticks allow.                                            *)
SoftStart ==
  [][RampRate > 0 /\ ~RotateBypass /\ ~stale =>
       \A w \in Wheel : pwm'[w] - pwm[w] <= RampRate * QuietBound]_vars

(* "The most recent command always wins": the rate limit may drop repeats, *)
(* never what the wheels were last asked for.  However many commands it    *)
(* drops in a row, the applied output is within ChangeStep of the request. *)
LatestCommandWins ==
  running /\ ~stallActive /\ ~stale =>
    \A w \in Wheel : Magnitude(requested[w] - lastCommanded[w].duty) <= ChangeStep

(* Stall protection: however commands repeat, pause, are rate limited or   *)
(* alternate, no wheel runs at StallDuty or more for longer than           *)
(* StallBound.  A failed write can cost another StallTimeout and two gaps: *)
(* a stop that does not reach the pins ends the timer, which the next      *)
(* command restarts.  This takes the limiter off: with it on, the timer    *)
(* follows what is asked for while the limiter keeps the duty of the pins  *)
(* up, so commands that alternate run a wheel at StallDuty for good.       *)
HighDutyIsCut == StallTimeout > 0 /\ RampRate = 0 => hot <= StallBound

(* The strict gate works on a count refreshed by a timer.  Once several    *)
(* controllers have been publishing for longer than the monitor's gap, a   *)
(* command can only bring the wheels to rest.                              *)
StrictGate ==
  [][Strict /\ running /\ pubAge > MonitorGap /\ PublisherCount(pubs) > 1 =>
       \A w \in Wheel : requested'[w] \in {0, requested[w]}]_vars

(* Controllers that crash while driving leave no stop behind; the robot    *)
(* comes to rest and stays there all the same.                             *)
CrashedControllersLeaveItAtRest ==
  <>[](pubs = {}) => <>[](\A w \in Wheel : pwm[w] = 0)

\* The faster wheel.
Fastest == LET s == pwm["left"]
               t == pwm["right"]
           IN IF s < t THEN t ELSE s

AbstractDeadman ==
  INSTANCE Deadman WITH Bound <- StopBound, MaxSpeed <- MaxPwm,
                        silence <- sinceCmd, speed <- Fastest

(* The driver implements the dead man's switch of module Deadman: nothing  *)
(* but a received Twist speeds a wheel up, whatever the ramp, the rate     *)
(* limit, the watchdog, a shutdown or a restart do.                        *)
ImplementsDeadman == AbstractDeadman!DMSpec
=============================================================================
