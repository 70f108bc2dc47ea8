----------------------------- MODULE Overriding -----------------------------
(***************************************************************************)
(* An operator's terminal and the autonomy of a robot's camera, which meet *)
(* on that robot's cmd_vel and on its human_override.                      *)
(***************************************************************************)
EXTENDS Teleop, CameraAutonomy

CONSTANT Grace    \* the time in which a human's override should have taken effect

VARIABLE driven   \* history: how long the operator has been moving the rover

vars == <<teleopVars, cameraVars, topics, driven>>

\* The operator moves the rover.
Drives == robot = rover /\ last = "moving" /\ pc \in {"warmup", "prompt", "keys"}

Init == TeleopInit /\ CameraInit /\ TopicsInit /\ driven = 0

Since == IF Drives' THEN driven ELSE 0

Terminal == TeleopNext /\ driven' = Since /\ UNCHANGED cameraVars

Node == NodeNext /\ UNCHANGED <<teleopVars, driven>>

Surroundings ==
  /\ Capture \/ \E m \in Asked : RequestMode(m)
  /\ UNCHANGED <<teleopVars, driven>>

Time ==
  /\ Clock
  /\ UNCHANGED teleopVars
  /\ driven' = IF Drives /\ driven < Grace THEN driven + 1 ELSE driven

Next == Terminal \/ Node \/ Surroundings \/ Time

\* The camera's thread is scheduled; time passes.
Spec == Init /\ [][Next]_vars /\ WF_vars(Node) /\ WF_vars(Time)
-----------------------------------------------------------------------------
\* "Human override (/robot/human_override) always wins": while an operator has
\* been moving the rover for the time of Grace, autonomy does not move it.
HumanWins == [][driven = Grace /\ cmd' # cmd => ~Moves']_cmd
=============================================================================
