------------------------------- MODULE Teleop -------------------------------
(***************************************************************************)
(* The keyboard terminal from which an operator drives one robot at a time.*)
(*                                                                         *)
(* The program is one thread that reads keys.  The node's timers, by which *)
(* it repeats the last twist, looks for robots gone offline and tells the  *)
(* robot that a human drives it, run only where the thread spins: while    *)
(* the choice of a robot waits for discovery.  Which timer a spin serves   *)
(* is left open; each of them may be due.                                  *)
(*                                                                         *)
(* Definitions named for how they differ from the one below them are       *)
(* faults a change of the code could bring in; no action uses them.        *)
(***************************************************************************)
EXTENDS Fleet

CONSTANTS
  Mecanum,       \* the robots that can strafe
  MecanumListed, \* those the profile registry takes for such
  Profiled,      \* the robots the registry has drive parameters for
  Given,         \* which settings it has for each, other than zero
  Overridden,    \* the settings a ROS parameter was given for
  Switching      \* allow_cmd_vel_switching

\* The settings that outlast a switch; the steps to the faster profiles do not.
Speeds == {"linear", "angular", "step"}
Setting == Speeds \cup {"wheel_separation", "turn_gain", "arc_ratio", "smoothing"}

ASSUME TeleopAssumption ==
  /\ Mecanum \subseteq Robot /\ MecanumListed \subseteq Robot /\ Profiled \subseteq Robot
  /\ Given \in [Robot -> SUBSET Setting]
  /\ Overridden \subseteq Setting \ {"turn_gain", "smoothing"}
  /\ Switching \in BOOLEAN

VARIABLES
  pc,        \* where the thread is
  online,    \* the robots with a subscriber on cmd_vel
  robot,     \* current_robot_name, None without a publisher
  last,      \* last_twist; is_moving unless it is "still"
  strafe,    \* strafe_mode
  tuned,     \* whose value each setting has, None for the program's own
  observed,  \* the robots in _observed_profiles
  asked,     \* history: for whom a motion was last asked since the last stop
  heir       \* history: the robot chosen while that motion was the last one

motion == <<last, asked, heir>>
keyboard == <<robot, strafe, tuned, motion>>
teleopVars == <<pc, online, keyboard, observed>>

TeleopTypeOK ==
  /\ pc \in {"warmup", "prompt", "keys", "over"}
  /\ online \subseteq Robot /\ observed \subseteq Robot
  /\ robot \in Robot \cup {None} /\ tuned \in [Setting -> Robot \cup {None}]
  /\ asked \in Robot \cup {None} /\ heir \in Robot \cup {None}
  /\ last \in Twist /\ strafe \in BOOLEAN

-----------------------------------------------------------------------------
(* What the terminal publishes and repeats.                                 *)

Publish(r, twist) == Tell(r, "terminal", twist)

SilentRest == asked' = None /\ heir' = None /\ UNCHANGED last

\* The twist to be repeated, and what was asked for.
Rest == last' = "still" /\ asked' = None /\ heir' = None

-----------------------------------------------------------------------------
(* The callbacks a spin may serve while the thread waits for discovery.    *)

\* A spin is over.  The wait ends with the first robot that is there, or when
\* its time is over.
Spun ==
  pc = "warmup" /\ pc' \in IF online # {} THEN {"prompt"} ELSE {"warmup", "prompt"}

NothingDue == Spun /\ UNCHANGED <<online, keyboard, observed, topics>>

RepublishLastTwist ==
  /\ Spun
  /\ last # "still" /\ robot # None
  /\ Publish(robot, last)
  /\ UNCHANGED <<online, keyboard, observed, overrides>>

OfflineWatchdog ==
  /\ Spun
  /\ robot # None /\ robot \notin online
  /\ Publish(robot, "still")
  /\ Rest
  /\ robot' = None
  /\ UNCHANGED <<online, strafe, tuned, observed, overrides>>

PublishHumanOverride ==
  /\ Spun
  /\ robot # None
  /\ TellOverride(robot, TRUE)
  /\ UNCHANGED <<online, keyboard, observed, cmd>>

\* A heartbeat tells a robot's drive type; an old one is forgotten.
Heartbeats(r) ==
  /\ Spun
  /\ observed' = IF r \in observed THEN observed \ {r} ELSE observed \cup {r}
  /\ UNCHANGED <<online, keyboard, topics>>

-----------------------------------------------------------------------------
(* The choice of a robot.                                                  *)

\* The operator has the list brought up to date.
Refresh ==
  /\ pc = "prompt"
  /\ pc' = "warmup"
  /\ UNCHANGED <<online, keyboard, observed, topics>>

\* The registry has parameters of its own for the robot.
HasParameters(r) == r \in Profiled

\* A setting is the robot's own if its drive parameters have it and no ROS
\* parameter stands against it: one for a speed against all but the wheels.
Takes(r, setting) ==
  /\ HasParameters(r) /\ setting \in Given[r]
  /\ setting \notin Overridden
  /\ setting # "wheel_separation" => Overridden \cap Speeds = {}

TunedByHeartbeat(r) ==
  [s \in Setting |-> IF Takes(r, s) /\ r \in observed THEN r ELSE tuned[s]]

\* The settings when robot r is chosen: where it has none of its own, that of
\* the robot before stays.
TunedFor(r) == [s \in Setting |-> IF Takes(r, s) THEN r ELSE tuned[s]]

\* A robot can be chosen while something subscribes to its cmd_vel.
Available(r) == r \in online

\* The operator names robot r.  The last twist stays, to be repeated to r.
ChooseRobot(r) ==
  /\ pc = "prompt"
  /\ Available(r)
  /\ pc' = "keys"
  /\ IF Switching \/ robot = None
     THEN /\ robot' = r
          /\ tuned' = TunedFor(r)
          /\ strafe' = FALSE
          /\ heir' = IF last = "still" THEN None ELSE r
     ELSE UNCHANGED <<robot, tuned, strafe, heir>>
  /\ UNCHANGED <<online, last, asked, observed, topics>>

-----------------------------------------------------------------------------
(* The keys.                                                               *)

Key(to) == pc = "keys" /\ pc' = to /\ UNCHANGED <<online, observed>>

\* The drive type from the heartbeat, else from the registry.
SupportsStrafe(r) == r \in IF r \in observed THEN Mecanum ELSE MecanumListed

\* A key for a motion; the digits strafe in strafe mode, if the robot can.
Move(digit) ==
  /\ Key("keys")
  /\ robot # None
  /\ IF digit /\ strafe /\ ~SupportsStrafe(robot)
     THEN strafe' = FALSE /\ UNCHANGED <<motion, cmd>>
     ELSE /\ Publish(robot, "moving")
          /\ last' = "moving" /\ asked' = robot /\ heir' = None
          /\ UNCHANGED strafe
  /\ UNCHANGED <<robot, tuned, overrides>>

StopKey ==
  /\ Key("keys")
  /\ robot # None
  /\ Publish(robot, "still")
  /\ Rest
  /\ UNCHANGED <<robot, strafe, tuned, overrides>>

\* Changing modes stops the robot; one that cannot strafe only leaves the mode.
ToggleStrafe ==
  /\ Key("keys")
  /\ robot # None
  /\ IF SupportsStrafe(robot)
     THEN strafe' = ~strafe /\ Publish(robot, "still") /\ Rest
     ELSE strafe' = FALSE /\ UNCHANGED <<motion, cmd>>
  /\ UNCHANGED <<robot, tuned, overrides>>

SwitchRobot == Key("warmup") /\ UNCHANGED <<keyboard, topics>>

-----------------------------------------------------------------------------
(* The end of the program, and of robots.                                  *)

\* Ctrl-C, also while the choice of a robot waits: the last robot is stopped
\* and told that the human is gone.
Interrupt ==
  /\ pc # "over"
  /\ pc' = "over"
  /\ Publish(robot, "still") /\ TellOverride(robot, FALSE)
  /\ UNCHANGED <<online, keyboard, observed>>

\* The terminal is closed or killed: nothing is said.
Kill ==
  /\ pc # "over"
  /\ pc' = "over"
  /\ robot' = None /\ Rest
  /\ UNCHANGED <<online, strafe, tuned, observed, topics>>

\* It is started again and knows of nothing.
Restart ==
  /\ pc = "over"
  /\ pc' = "warmup"
  /\ robot' = None /\ Rest /\ strafe' = FALSE
  /\ tuned' = [s \in Setting |-> None]
  /\ observed' = {}
  /\ UNCHANGED <<online, topics>>

\* A robot's driver comes or goes.
ComeOrGo(r) ==
  /\ online' = IF r \in online THEN online \ {r} ELSE online \cup {r}
  /\ UNCHANGED <<pc, keyboard, observed, topics>>

TeleopInit ==
  /\ pc = "warmup"
  /\ online = Robot
  /\ robot = None /\ asked = None /\ heir = None
  /\ tuned = [s \in Setting |-> None]
  /\ last = "still" /\ strafe = FALSE
  /\ observed = {}

TeleopNext ==
  \/ NothingDue \/ RepublishLastTwist \/ OfflineWatchdog \/ PublishHumanOverride
  \/ Refresh \/ StopKey \/ ToggleStrafe \/ SwitchRobot
  \/ Interrupt \/ Kill \/ Restart
  \/ \E digit \in BOOLEAN : Move(digit)
  \/ \E r \in Robot : Heartbeats(r) \/ ChooseRobot(r) \/ ComeOrGo(r)
-----------------------------------------------------------------------------
\* Whatever was pressed before, the terminal sets a robot in motion only by a
\* motion asked of it since the last stop, or by one asked of another and still
\* the last when this one was chosen: no repetition outlives a stop, reaches a
\* robot that was only passed over, or is left over from a program before.
MovesOnlyWhenAsked ==
  [][cmd' # cmd => \A r \in Robot :
       cmd'[r] # cmd[r] /\ cmd'[r] = [by |-> "terminal", twist |-> "moving"]
         => asked' # None /\ r \in {asked', heir'}]_cmd

\* "ROS params still override", and no robot is driven with the settings of
\* another one where the registry has its own, whichever were driven before.
\* (A speed given as a parameter keeps the other settings as they were.)
OwnSettings ==
  /\ \A s \in Overridden : tuned[s] = None
  /\ robot \in Profiled /\ Overridden \cap Speeds = {}
       => \A s \in Given[robot] \ Overridden : tuned[s] = robot
=============================================================================
