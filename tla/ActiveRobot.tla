---------------------------- MODULE ActiveRobot -----------------------------
(***************************************************************************)
(* Which robot an operator's page shows and drives.                        *)
(*                                                                         *)
(* The operator's choice takes effect after a short delay; the server      *)
(* proposes robots in its messages and in its state, which the page        *)
(* fetches once a second.  What the page does when the robot changes is    *)
(* left to the modules that extend this one: an action here says only what *)
(* becomes of the choice.                                                  *)
(***************************************************************************)
EXTENDS Fleet

VARIABLES
  loaded,      \* the page is there
  listed,      \* robots: those the page knows
  activeRobot,
  pinned,      \* localActiveRobotPinned: the operator has chosen
  pending      \* pendingLocalRobotSelection, None if the timer is not set

choice == <<loaded, listed, activeRobot, pinned, pending>>

ChoiceTypeOK ==
  /\ loaded \in BOOLEAN /\ listed \subseteq Robot
  /\ {activeRobot, pending} \subseteq Robot \cup {None}
  /\ pinned \in BOOLEAN

Changed == activeRobot' # activeRobot

\* The robots a list leaves to choose from, when one is preferred and another
\* is in use: the page takes the first of a list of its own.
Reconciled(preferred, current, available) ==
  IF preferred \in available THEN {preferred}
  ELSE IF current \in available THEN {current}
  ELSE IF available = {} THEN {None} ELSE available

\* The operator picks a tile, or goes on to the next robot by a key.
Pick(r) ==
  /\ loaded
  /\ r \in listed
  /\ pending' = r
  /\ UNCHANGED <<loaded, listed, activeRobot, pinned>>

\* The delay is over.
Settle ==
  /\ loaded /\ pending # None
  /\ activeRobot' = pending /\ pending' = None
  /\ pinned' = (pinned \/ Changed)
  /\ UNCHANGED <<loaded, listed>>

\* The server's robot r.  It ends a choice that is not yet settled, and is not
\* taken over while the operator's own robot is there.
Propose(r) ==
  /\ pending' = None
  /\ activeRobot' = IF pinned /\ r # None /\ activeRobot \in listed' THEN activeRobot ELSE r

\* A message about the active robot.
ServerRobot(r) ==
  /\ loaded
  /\ r # activeRobot
  /\ UNCHANGED <<loaded, listed, pinned>>
  /\ Propose(r)

\* The server's list, and the robot it says is in use (None if it says nothing):
\* first in its greeting, then in every state fetched.
ServerState(greeting, r, available) ==
  /\ loaded
  /\ listed' = available
  /\ LET heeds == r # None /\ (~pinned \/ (greeting /\ activeRobot = None))
     IN \E next \in Reconciled(IF heeds THEN r ELSE activeRobot, activeRobot, available) :
          /\ pinned' = (pinned /\ next # None)
          /\ IF next = activeRobot
             THEN UNCHANGED <<activeRobot, pending>>
             ELSE pending' = None /\ activeRobot' =
                    IF pinned' /\ activeRobot \in available THEN activeRobot ELSE next
  /\ UNCHANGED loaded

\* The greeting, and the state fetched once a second.
Greeted(r, available) == ServerState(TRUE, r, available)

Polled(r, available) == ServerState(FALSE, r, available)

\* The page is left, which ends a choice not yet settled.
Exit ==
  /\ loaded
  /\ loaded' = FALSE
  /\ pending' = None
  /\ UNCHANGED <<listed, activeRobot, pinned>>

\* It is loaded, with the robot the server says is in use or another one.
Load(r, available) ==
  /\ ~loaded
  /\ loaded' = TRUE
  /\ listed' = available
  /\ activeRobot' \in Reconciled(r, None, available)
  /\ pinned' = FALSE
  /\ UNCHANGED pending

ChoiceInit ==
  /\ loaded = FALSE
  /\ listed = {} /\ activeRobot = None /\ pinned = FALSE /\ pending = None

\* The server has its say.
ServerNext ==
  \E r \in Robot \cup {None} :
    \/ r # None /\ ServerRobot(r)
    \/ \E available \in SUBSET Robot : Greeted(r, available) \/ Polled(r, available)

ChoiceNext == Settle \/ ServerNext \/ \E r \in Robot : Pick(r)
=============================================================================
