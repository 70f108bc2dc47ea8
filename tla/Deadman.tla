------------------------------ MODULE Deadman ------------------------------
(***************************************************************************)
(* What a robot's motor driver promises to the people around the robot:    *)
(* only a command it receives makes the robot faster, and Bound ticks      *)
(* after the last one the robot is at rest.                                *)
(***************************************************************************)
EXTENDS Integers

CONSTANTS Bound,     \* silence after which the robot must be at rest
          MaxSpeed

VARIABLES silence,   \* time since the last command, up to Bound
          speed

dmVars == <<silence, speed>>

DMInit == silence = 0 /\ speed = 0

\* A command arrives, or the driver starts afresh.
Hear ==
  /\ silence' = 0
  /\ speed' \in 0 .. MaxSpeed

\* Without a command the robot may slow down.
Slow ==
  /\ speed' \in 0 .. speed
  /\ UNCHANGED silence

\* Time passes; the robot must be at rest when the bound is reached.
Wait ==
  /\ silence' = IF silence < Bound THEN silence + 1 ELSE silence
  /\ silence' = Bound => speed = 0
  /\ UNCHANGED speed

DMNext == Hear \/ Slow \/ Wait

DMSpec == DMInit /\ [][DMNext]_dmVars
=============================================================================
