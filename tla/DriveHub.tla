------------------------------ MODULE DriveHub ------------------------------
(***************************************************************************)
(* The path of a drive command from the control server to the wheels: the  *)
(* drive half of RosFleetHub, the cmd_vel topic and, at its end, a driver  *)
(* of which only module Deadman is assumed.                                *)
(*                                                                         *)
(* Two threads share the hub's dictionaries without a lock: the event loop *)
(* calls set_drive_target, the executor runs _drive_publish_tick.  A step  *)
(* is what one thread does between two accesses to the shared              *)
(* dictionaries or the topic; each such access is atomic in CPython.       *)
(*                                                                         *)
(* A message is delivered within NetBound or lost.  Definitions named for  *)
(* how they differ from the one below them are faults a change of the code *)
(* could bring in; no action uses them.                                    *)
(***************************************************************************)
EXTENDS Integers

CONSTANTS
  Robot,
  Trusted,      \* robots the registry lists
  Motion,       \* commands that move a robot
  Stop,         \* the command that does not
  None,
  HoldTimeout,  \* drive_hold_timeout_s
  HalfPeriod,   \* half a period of drive_cmd_rate_hz
  TickPeriod,   \* a period of it
  Jitter,       \* how late the timer can fire
  Work,         \* the longest one call of either thread takes
  NetBound,     \* the longest a message is under way
  DriverBound,  \* silence after which the driver has the robot at rest
  MaxSpeed

Command == Motion \cup {Stop}

ASSUME TrustedAreRobots == Trusted \subseteq Robot

ASSUME NoneAndStopAreApart == None \notin Command /\ Stop \notin Motion

ASSUME TimesAreNatural ==
  /\ HoldTimeout \in Nat /\ HalfPeriod \in Nat /\ TickPeriod \in Nat
  /\ Jitter \in Nat /\ Work \in Nat /\ NetBound \in Nat
  /\ DriverBound \in Nat \ {0} /\ MaxSpeed \in Nat

VARIABLES
  target,     \* _drive_targets: the command a robot is kept at
  quiet,      \* age of its updated_s; time since the operators' last command
  sincePub,   \* age of _drive_last_pub_s
  step,       \* where the event loop is in set_drive_target
  call,       \* its arguments
  callAge,    \* how long it has been running
  sinceTick,  \* time since _drive_publish_tick last began
  ticking,    \* it is running
  snapshot,   \* what it has to publish, as of its beginning
  toPublish,  \* the robots whose turn is still to come
  expired,    \* its list stale
  latest,     \* history: the operators' last command
  last,       \* history: the last message on a robot's cmd_vel
  queue,      \* the message on its way to the driver
  underWay,   \* for how long
  silence,    \* time since the driver received one
  speed       \* of the robot

setter == <<step, call, callAge>>
ticker == <<sinceTick, ticking, snapshot, toPublish, expired>>
topic == <<last, queue, underWay>>
driver == <<silence, speed>>
vars == <<target, quiet, sincePub, setter, ticker, latest, topic, driver>>

Lesser(a, b) == IF a < b THEN a ELSE b
Greater(a, b) == IF a < b THEN b ELSE a

\* The longest time between two beginnings of the tick.
TickGap == Greater(TickPeriod + Jitter, Work)

\* The hub's last message comes this long after the operators' last command.
HubBound == HoldTimeout + 1 + TickGap + Work

\* The robot is at rest this long after the operators' last command.
ChainBound == HubBound + NetBound + DriverBound

Steps == {"idle", "recorded", "publishing"}
----------------------------------------------------------------------------
(* _publish_drive_once: the message replaces one that still waits at the   *)
(* driver, whose queue has depth 1.                                        *)
Publish(r, c) ==
  /\ last' = [last EXCEPT ![r] = c]
  /\ queue' = [queue EXCEPT ![r] = c]
  /\ underWay' = [underWay EXCEPT ![r] = 0]
  /\ sincePub' = [sincePub EXCEPT ![r] = 0]

StoredUnlessStop(r, c) ==
  [target EXCEPT ![r] = IF c = Stop THEN None ELSE c]

Stored(r, c) == [target EXCEPT ![r] = c]

(* set_drive_target, in three steps: record the target,                    *)
SetDriveTarget(r, c) ==
  /\ step = "idle"
  /\ r \in Trusted
  /\ target' = Stored(r, c)
  /\ quiet' = [quiet EXCEPT ![r] = 0]
  /\ latest' = [latest EXCEPT ![r] = c]
  /\ step' = "recorded"
  /\ call' = <<r, c>>
  /\ callAge' = 0
  /\ UNCHANGED <<sincePub, ticker, topic, driver>>

(* look when something was last published for the robot,                   *)
Decide ==
  /\ step = "recorded"
  /\ step' = IF call[2] = Stop \/ sincePub[call[1]] >= HalfPeriod
             THEN "publishing" ELSE "idle"
  /\ UNCHANGED <<target, quiet, sincePub, call, callAge, ticker, latest,
                 topic, driver>>

(* and publish unless that is a moment ago.                                *)
PublishNow ==
  /\ step = "publishing"
  /\ step' = "idle"
  /\ Publish(call[1], call[2])
  /\ UNCHANGED <<target, quiet, call, callAge, ticker, latest, driver>>
----------------------------------------------------------------------------
OutdatedSincePublished(r) == sincePub[r] > HoldTimeout

Outdated(r) == quiet[r] > HoldTimeout

AllTrusted == Trusted

Kept == {r \in Robot : target[r] # None}

(* _drive_publish_tick takes the time and a snapshot of all targets,       *)
TickBegin ==
  /\ ~ticking
  /\ sinceTick >= TickPeriod
  /\ sinceTick' = 0
  /\ ticking' = (Kept # {})
  /\ toPublish' = Kept
  /\ expired' = {r \in Kept : Outdated(r)}
  /\ snapshot' = [r \in Robot |-> IF r \in Kept /\ Outdated(r)
                                  THEN Stop ELSE target[r]]
  /\ UNCHANGED <<target, quiet, sincePub, setter, latest, topic, driver>>

(* publishes them one by one, a stop for the outdated ones,                *)
TickPublish(r) ==
  /\ ticking
  /\ r \in toPublish
  /\ toPublish' = toPublish \ {r}
  /\ Publish(r, snapshot[r])
  /\ UNCHANGED <<target, quiet, setter, sinceTick, ticking, snapshot, expired,
                 latest, driver>>

(* and forgets those, whatever was recorded for them in the meantime.      *)
TickEnd ==
  /\ ticking
  /\ toPublish = {}
  /\ ticking' = FALSE
  /\ target' = [r \in Robot |-> IF r \in expired THEN None ELSE target[r]]
  /\ UNCHANGED <<quiet, sincePub, setter, sinceTick, snapshot, toPublish,
                 expired, latest, topic, driver>>
----------------------------------------------------------------------------
(* The topic and the driver.  Receive and Restart are Hear of Deadman, Slow*)
(* is Slow, and Tick lets it Wait.                                         *)

Receive(r) ==
  /\ queue[r] # None
  /\ queue' = [queue EXCEPT ![r] = None]
  /\ silence' = [silence EXCEPT ![r] = 0]
  /\ \E v \in 0 .. MaxSpeed : speed' = [speed EXCEPT ![r] = v]
  /\ UNCHANGED <<target, quiet, sincePub, setter, ticker, latest, last,
                 underWay>>

Lose(r) ==
  /\ queue[r] # None
  /\ queue' = [queue EXCEPT ![r] = None]
  /\ UNCHANGED <<target, quiet, sincePub, setter, ticker, latest, last,
                 underWay, driver>>

\* The driver's process ends, which stops the wheels, and starts again.
Restart(r) ==
  /\ queue' = [queue EXCEPT ![r] = None]
  /\ silence' = [silence EXCEPT ![r] = 0]
  /\ speed' = [speed EXCEPT ![r] = 0]
  /\ UNCHANGED <<target, quiet, sincePub, setter, ticker, latest, last,
                 underWay>>

\* Of its own accord the driver only slows the robot down.
Slow(r) ==
  /\ speed[r] > 0
  /\ \E v \in 0 .. speed[r] - 1 : speed' = [speed EXCEPT ![r] = v]
  /\ UNCHANGED <<target, quiet, sincePub, setter, ticker, latest, topic,
                 silence>>

(* Time passes, but never past a bound.                                    *)
Tick ==
  /\ step # "idle" => callAge < Work
  /\ IF ticking THEN sinceTick < Work ELSE sinceTick < TickPeriod + Jitter
  /\ \A r \in Robot : queue[r] # None => underWay[r] < NetBound
  /\ \A r \in Robot : silence[r] >= DriverBound - 1 => speed[r] = 0
  /\ quiet' = [r \in Robot |-> Lesser(quiet[r] + 1, ChainBound)]
  /\ sincePub' = [r \in Robot |-> Lesser(sincePub[r] + 1, HalfPeriod)]
  /\ callAge' = IF step = "idle" THEN callAge ELSE callAge + 1
  /\ sinceTick' = sinceTick + 1
  /\ underWay' = [r \in Robot |-> IF queue[r] = None THEN underWay[r]
                                  ELSE underWay[r] + 1]
  /\ silence' = [r \in Robot |-> Lesser(silence[r] + 1, DriverBound)]
  /\ UNCHANGED <<target, step, call, ticking, snapshot, toPublish, expired,
                 latest, last, queue, speed>>

Init ==
  /\ target = [r \in Robot |-> None]
  /\ quiet = [r \in Robot |-> ChainBound]
  /\ sincePub = [r \in Robot |-> HalfPeriod]
  /\ step = "idle" /\ call = <<None, None>> /\ callAge = 0
  /\ sinceTick = 0 /\ ticking = FALSE
  /\ snapshot = [r \in Robot |-> None]
  /\ toPublish = {} /\ expired = {}
  /\ latest = [r \in Robot |-> Stop]
  /\ last = [r \in Robot |-> Stop]
  /\ queue = [r \in Robot |-> None]
  /\ underWay = [r \in Robot |-> 0]
  /\ silence = [r \in Robot |-> 0]
  /\ speed = [r \in Robot |-> 0]

Next ==
  \/ \E r \in Robot, c \in Command : SetDriveTarget(r, c)
  \/ Decide
  \/ PublishNow
  \/ TickBegin
  \/ \E r \in Robot : TickPublish(r)
  \/ TickEnd
  \/ \E r \in Robot : Receive(r) \/ Lose(r) \/ Restart(r) \/ Slow(r)
  \/ Tick

Spec == Init /\ [][Next]_vars
----------------------------------------------------------------------------
TypeOK ==
  /\ target \in [Robot -> Command \cup {None}]
  /\ quiet \in [Robot -> 0 .. ChainBound]
  /\ sincePub \in [Robot -> 0 .. HalfPeriod]
  /\ step \in Steps
  /\ step # "idle" => call \in Trusted \X Command
  /\ callAge \in 0 .. Work
  /\ sinceTick \in 0 .. TickGap
  /\ ticking \in BOOLEAN
  /\ toPublish \subseteq Robot /\ expired \subseteq Robot
  /\ snapshot \in [Robot -> Command \cup {None}]
  /\ \A r \in toPublish : snapshot[r] # None
  /\ latest \in [Robot -> Command]
  /\ last \in [Robot -> Command]
  /\ queue \in [Robot -> Command \cup {None}]
  /\ underWay \in [Robot -> 0 .. NetBound]
  /\ silence \in [Robot -> 0 .. DriverBound]
  /\ speed \in [Robot -> 0 .. MaxSpeed]

(* The dead man's switch from end to end: ChainBound after the operators'  *)
(* last command for a robot it is at rest.  The hub repeats a command and  *)
(* so keeps the driver's watchdog quiet, a race can make it forget a       *)
(* command it has published without ever publishing a stop, and messages   *)
(* are lost; between the hub's time-out and the driver's the robot stops.  *)
ChainStops ==
  \A r \in Robot : quiet[r] >= ChainBound => speed[r] = 0

(* An older command may overtake a newer one, because the tick publishes   *)
(* what it saw at its beginning; but not for good.  Once set_drive_target  *)
(* has returned and a tick that began later has served the robot, the last *)
(* message is the operators' last command, or a stop.  Only a motion that  *)
(* TickEnd forgets, because it replaced an outdated one during the tick,   *)
(* may be lost; a stop never is.                                           *)
FollowsTheLatest ==
  \A r \in Robot :
    /\ quiet[r] > sinceTick /\ r \notin toPublish
    /\ step # "idle" => call[1] # r
    /\ target[r] # None \/ latest[r] = Stop
    => last[r] \in {latest[r], Stop}
=============================================================================
