----------------------------- MODULE PageDrive ------------------------------
(***************************************************************************)
(* Driving from the operator's page: keys and on-screen buttons that move  *)
(* the active robot for as long as they are held.                          *)
(*                                                                         *)
(* The page is one thread of event handlers.  It sends twists on a socket  *)
(* that it opens once; when the socket ends the server lets go of all that *)
(* the page held.  The operator may drive the trusted robots of the list   *)
(* the server sent last.                                                   *)
(***************************************************************************)
EXTENDS ActiveRobot

CONSTANTS
  Keys, Buttons, \* what the operator can hold down to move the robot
  Shifted,       \* the keys that mean something else with Shift: the upper digits
  Operable       \* the robots that are trusted, and have control_allowed if listed

ASSUME PageDriveAssumption ==
  Keys \cap Buttons = {} /\ Shifted \subseteq Keys /\ Operable \subseteq Robot

Holds == Keys \cup Buttons

VARIABLES
  down,      \* what the operator holds down
  missed,    \* history: the keys whose last release came with Shift
  holds,     \* driveHoldOrder: the last moves the robot; its keys are pressedDriveKeys
  away,      \* the page is "blurred" or "hidden", or the operator is at it: "no"
  socket,    \* the state of ws
  taken,     \* the robots locked by others, as far as the page knows
  sent,      \* what the page last sent to a robot and the server still heeds
  lost       \* history: the robots not stopped because they had left the list

told == <<sent, lost>>
handlers == <<down, missed, holds, away, socket, taken, told>>

DriveTypeOK ==
  /\ ChoiceTypeOK
  /\ down \subseteq Holds /\ missed \subseteq Shifted
  /\ holds \in Seq(Holds) /\ IsInjective(holds)
  /\ away \in {"no", "blurred", "hidden"}
  /\ socket \in {"connecting", "open", "closed"}
  /\ taken \subseteq Robot
  /\ sent \in [Robot -> Twist \cup {"none"}]
  /\ lost \subseteq Robot

-----------------------------------------------------------------------------
(* drive, and the holds.                                                   *)

\* canControlRobot, by a list of robots: what it says of others is forgotten.
MayDrive(r, list) == r \in Operable \cap list

\* What is sent to a robot is heeded if the robot is not locked by another and
\* the socket is open.
Heeded(r) == r \notin taken /\ socket = "open"

\* drive, by the list of robots there is.
SendTo(r, twist, list) ==
  IF MayDrive(r, list) /\ Heeded(r)
  THEN /\ sent' = [q \in Robot |-> IF q = r THEN twist ELSE sent[q]]
       /\ lost' = lost \ {r}
  ELSE /\ lost' = lost \cup {q \in Robot \ list : q = r /\ sent[q] = "moving"}
       /\ UNCHANGED sent

Send(twist) == SendTo(activeRobot, twist, listed)

\* stopAllDriveHolds
StopAll(list) == holds' = <<>> /\ SendTo(activeRobot, "still", list)

\* The holds that are not over, in the order in which they began.
Remaining(over) ==
  FlattenSeq([i \in DOMAIN holds |-> IF holds[i] \in over THEN <<>> ELSE <<holds[i]>>])

\* The holds that are over go.  With the last of them the robot stops; when the
\* one that moved it has gone, the one before moves it.
LetGo(over) ==
  LET rest == Remaining(over)
  IN /\ holds' = rest
     /\ CASE rest = <<>> -> Send("still")
          [] rest # <<>> /\ Last(rest) # Last(holds) -> Send("moving")
          [] OTHER -> UNCHANGED told

HereNow == loaded /\ away = "no"

\* startDriveHold
StartHold(h) ==
  IF h \notin Range(holds)
  THEN holds' = Append(holds, h) /\ Send("moving")
  ELSE UNCHANGED <<holds, told>>

Ignored == UNCHANGED <<holds, told>>

Press(h) ==
  /\ HereNow /\ h \notin down
  /\ down' = down \cup {h} /\ missed' = missed \ {h}
  /\ UNCHANGED <<choice, away, socket, taken>>

\* The keys of a robot the operator may not drive do nothing, and it has no
\* buttons.
PressKey(h) ==
  /\ h \in Keys /\ Press(h)
  /\ IF MayDrive(activeRobot, listed) THEN StartHold(h) ELSE Ignored

\* A key typed in a text field, or with a Shift that makes it another.
PressOther(h) == h \in Keys /\ Press(h) /\ Ignored

PressButton(h) ==
  /\ h \in Buttons /\ MayDrive(activeRobot, listed)
  /\ Press(h) /\ StartHold(h)

Release(h) ==
  /\ h \in down
  /\ down' = down \ {h}
  /\ UNCHANGED <<choice, away, socket, taken>>

\* A release elsewhere is not seen.
ReleaseKey(h) ==
  /\ h \in Keys /\ Release(h)
  /\ IF HereNow /\ MayDrive(activeRobot, listed) THEN LetGo({h}) ELSE Ignored
  /\ UNCHANGED missed

\* The release of a key that Shift makes another one is not that of the hold.
ReleaseShifted(h) ==
  /\ h \in Shifted /\ Release(h)
  /\ HereNow
  /\ missed' = missed \cup {h}
  /\ Ignored

\* With one button all of them are let go.
ReleaseButton(h) ==
  /\ h \in Buttons /\ Release(h)
  /\ IF HereNow THEN LetGo(Buttons) ELSE Ignored
  /\ UNCHANGED missed

\* The interval of the hold that moves the robot.
HoldTick ==
  /\ loaded /\ holds # <<>>
  /\ Send("moving")
  /\ UNCHANGED <<choice, down, missed, holds, away, socket, taken>>

\* The stop key, or the change of the drive mode.
StopHolds ==
  /\ HereNow
  /\ StopAll(listed)
  /\ UNCHANGED <<choice, down, missed, away, socket, taken>>

\* The STOP button on the screen, which ends no hold.
ScreenStop ==
  /\ HereNow
  /\ Send("still")
  /\ UNCHANGED <<choice, down, missed, holds, away, socket, taken>>

LeaveHolds == StopAll(listed)

\* The window loses the focus or the page is hidden.
Leave(how) ==
  /\ loaded /\ away # how
  /\ away' = how
  /\ LeaveHolds
  /\ UNCHANGED <<choice, down, missed, socket, taken>>

Return ==
  /\ away # "no"
  /\ away' = "no"
  /\ UNCHANGED <<choice, down, missed, holds, socket, taken, told>>

-----------------------------------------------------------------------------
(* The socket, the locks and the choice of the robot.                      *)

Opened ==
  /\ loaded /\ socket = "connecting"
  /\ socket' = "open"
  /\ UNCHANGED <<choice, down, missed, holds, away, taken, told>>

Nothing == [r \in Robot |-> "none"]

Closed ==
  /\ socket # "closed"
  /\ socket' = "closed" /\ sent' = Nothing /\ lost' = {}
  /\ UNCHANGED <<choice, down, missed, holds, away, taken>>

\* What was sent to a robot that another one has taken counts no more.
LockUpdate(others) ==
  /\ loaded /\ socket = "open"
  /\ taken' = others
  /\ sent' = [r \in Robot |-> IF r \in others THEN "none" ELSE sent[r]]
  /\ lost' = lost \ others
  /\ UNCHANGED <<choice, down, missed, holds, away, socket>>

NewRobotStops == holds' = <<>> /\ SendTo(activeRobot', "still", listed')

\* The robot is stopped before another one takes its place, if it is still in
\* the list.
OldRobotStops == StopAll(listed')

\* setActiveRobot: only a change of the robot ends the holds.
Choose ==
  /\ ChoiceNext
  /\ IF Changed THEN OldRobotStops ELSE Ignored
  /\ UNCHANGED <<down, missed, away, socket, taken>>

\* _closeRealtimeClients
PageExit ==
  /\ Exit
  /\ holds' = <<>>
  /\ socket' = "closed" /\ sent' = Nothing /\ lost' = {}
  /\ UNCHANGED <<down, missed, away, taken>>

PageLoad ==
  /\ \E r \in Robot \cup {None}, available \in SUBSET Robot : Load(r, available)
  /\ socket' = "connecting"
  /\ taken' \in SUBSET Robot
  /\ UNCHANGED <<down, missed, holds, away, told>>

DriveInit ==
  /\ ChoiceInit
  /\ down = {} /\ missed = {} /\ holds = <<>> /\ away = "no"
  /\ socket = "closed" /\ taken = {} /\ sent = Nothing /\ lost = {}

DriveNext ==
  \/ HoldTick \/ StopHolds \/ ScreenStop \/ Return
  \/ Opened \/ Closed \/ Choose \/ PageExit \/ PageLoad
  \/ \E h \in Keys : PressKey(h) \/ PressOther(h) \/ ReleaseKey(h) \/ ReleaseShifted(h)
  \/ \E h \in Buttons : PressButton(h) \/ ReleaseButton(h)
  \/ \E how \in {"blurred", "hidden"} : Leave(how)
  \/ \E others \in SUBSET Robot : LockUpdate(others)
-----------------------------------------------------------------------------
\* Whatever is pressed, let go, locked or chosen in between: what is let go moves
\* the robot no longer, but for a key whose release came with Shift; and once no
\* hold is left or the operator is not at the page, no robot is left moving by
\* it, but for one that had gone from the list before it could be stopped.
ReleasedMeansStopped ==
  /\ Range(holds) \subseteq down \cup missed
  /\ holds = <<>> \/ away # "no" => \A r \in Robot : sent[r] = "moving" => r \in lost
=============================================================================
