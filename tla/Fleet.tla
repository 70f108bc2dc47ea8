------------------------------- MODULE Fleet --------------------------------
(***************************************************************************)
(* What the programs of the control machine and of the robots have in      *)
(* common: the robots and, of their topics, those two programs write to.   *)
(***************************************************************************)
EXTENDS Integers, SequencesExt

CONSTANTS
  Robot,
  None,
  Autonomous,  \* the robots on which the camera's autonomy runs
  Depth        \* depth of the subscriptions to human_override

ASSUME FleetAssumption ==
  None \notin Robot /\ Autonomous \subseteq Robot /\ Depth \in Nat \ {0}

VARIABLES
  cmd,       \* the last message on a robot's cmd_vel, and whose it is
  overrides  \* what a robot has on human_override and has not yet taken

topics == <<cmd, overrides>>

Twist == {"still", "moving"}
Message == [by : {"terminal", "camera"}, twist : Twist]

TopicsTypeOK ==
  /\ cmd \in [Robot -> Message]
  /\ \A r \in Robot : overrides[r] \in Seq(BOOLEAN) /\ Len(overrides[r]) <= Depth

TopicsInit ==
  /\ cmd = [r \in Robot |-> [by |-> "terminal", twist |-> "still"]]
  /\ overrides = [r \in Robot |-> <<>>]

\* A twist goes out to robot r, if there is one.
Tell(r, who, twist) ==
  cmd' = [q \in Robot |-> IF q = r THEN [by |-> who, twist |-> twist] ELSE cmd[q]]

\* A full subscription loses the oldest message.
Enqueued(queue, active) ==
  LET all == Append(queue, active)
  IN IF Len(all) > Depth THEN Tail(all) ELSE all

\* Robot r is told that a human drives it, or does not any more; what is said to
\* one whose autonomy does not listen is lost.
TellOverride(r, active) ==
  overrides' = [q \in Robot |-> IF q = r /\ q \in Autonomous
                                THEN Enqueued(overrides[q], active) ELSE overrides[q]]
=============================================================================
