--------------------------- MODULE MotorDriverMC ---------------------------
(* Instances of MotorDriver for TLC.                                       *)
EXTENDS MotorDriver

CONSTANTS teleop, fpv, executor, ghost

Both(x) == [w \in Wheel |-> x]

\* Full ahead, full astern, and duties one change step apart from full.
Driving == {Stop, Both(MaxPwm), Both(-MaxPwm), Both(MaxPwm - 1), Both(MaxPwm - 2)}

\* Full ahead and a spin on the spot below the deadband.
Spinning == {Stop, Both(MaxPwm), [left |-> -1, right |-> 1]}
=============================================================================
