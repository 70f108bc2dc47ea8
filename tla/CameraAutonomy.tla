--------------------------- MODULE CameraAutonomy ---------------------------
(***************************************************************************)
(* The node that drives one robot by what its camera sees.                 *)
(*                                                                         *)
(* It is one thread.  A wait collects the callbacks that are due and runs  *)
(* each once, the timer first.  A callback takes no time, but for the look *)
(* at a frame in a control tick, which may take as long as Work.           *)
(*                                                                         *)
(* Ages are counted in ticks of a clock and not beyond what the code and   *)
(* the properties tell apart.  Definitions named for how they differ from  *)
(* the one below them are faults a change of the code could bring in; no   *)
(* action uses them.                                                       *)
(***************************************************************************)
EXTENDS Fleet

CONSTANTS
  rover,     \* its robot
  Period,    \* the period of control_hz
  Stale,     \* frame_stale_timeout_s
  TurnTime,  \* patrol_turn_sec
  Work,      \* the longest a look at a frame takes
  FrameQueue,\* depth of the subscription to the camera
  Asked      \* bound: the modes anyone asks for

Driving == {"follow", "patrol"}
Mode == {"manual", "detect"} \cup Driving

ASSUME Times ==
  /\ rover \in Robot \cap Autonomous
  /\ Period \in Nat \ {0} /\ Stale \in Nat /\ TurnTime \in Nat
  /\ Work \in Nat /\ FrameQueue \in Nat \ {0}
  /\ Asked \subseteq Mode

VARIABLES
  mode,      \* the autonomy mode
  human,     \* _human_override_active
  frames,    \* ages of the frames that wait to be taken
  stamp,     \* age of _latest_frame_stamp
  latest,    \* age of the latest frame itself
  requests,  \* the modes asked for and not yet taken
  round,     \* the callbacks the wait collected
  ticking,   \* how long the control tick has been at work, None if there is none
  due,       \* time since the timer was last due
  turn       \* time until _turn_until_s

inputs == <<frames, requests>>
outlook == <<stamp, latest>>
timing == <<ticking, due, turn>>
cameraVars == <<mode, human, inputs, outlook, round, timing>>

\* How old the frame may be by which the robot moves: what it waited to be
\* taken, two looks and another one for each frame before it, the time allowed,
\* and the time to the next control tick.
Blind == (FrameQueue + 1) * Work + Stale + (IF Period > Work THEN Period ELSE Work)

\* An age no property and no guard tells from a greater one.
Old == Blind + 1

CameraTypeOK ==
  /\ mode \in Mode /\ human \in BOOLEAN
  /\ frames \in Seq(0 .. Old) /\ Len(frames) <= FrameQueue
  /\ stamp \in 0 .. Old /\ latest \in 0 .. Old /\ stamp <= latest
  /\ requests \in Seq(Mode)
  /\ round \subseteq {"timer", "image", "mode", "override"}
  /\ ticking \in -1 .. Work
  /\ due \in 0 .. Period + Work
  /\ turn \in 0 .. TurnTime

-----------------------------------------------------------------------------
Idle == ticking = -1

Due ==
  {c \in {"timer", "image", "mode", "override"} :
     CASE c = "timer" -> due >= Period
       [] c = "image" -> frames # <<>>
       [] c = "mode" -> requests # <<>>
       [] c = "override" -> overrides[rover] # <<>>}

Drive(twist) == Tell(rover, "camera", twist)

HeedsLater(active) == UNCHANGED cmd

\* A human who takes over finds the robot at rest.
Heeds(active) == IF active THEN Drive("still") ELSE UNCHANGED cmd

\* The wait is over: the callbacks that are due form the next round.
Wait ==
  /\ Idle /\ round = {} /\ Due # {}
  /\ round' = Due
  /\ UNCHANGED <<mode, human, inputs, outlook, timing, cmd, overrides>>

\* The turn of callback c: those before it in the round are done.
Turn(c) ==
  /\ c \in round
  /\ CASE c = "timer" -> TRUE
       [] c = "image" -> "timer" \notin round
       [] c = "mode" -> round \cap {"timer", "image"} = {}
       [] c = "override" -> round = {"override"}

Serve(c) == Idle /\ Turn(c) /\ round' = round \ {c}

-----------------------------------------------------------------------------
(* The callbacks.                                                          *)

OnMode ==
  /\ Serve("mode")
  /\ mode' = Head(requests)
  /\ requests' = Tail(requests)
  /\ turn' = 0
  /\ Drive("still")
  /\ UNCHANGED <<human, frames, outlook, ticking, due, overrides>>

\* The last word holds until the next one.
OnOverride ==
  /\ Serve("override")
  /\ human' = Head(overrides[rover])
  /\ overrides' = [overrides EXCEPT ![rover] = Tail(@)]
  /\ Heeds(human')
  /\ UNCHANGED <<mode, inputs, outlook, timing>>

\* A frame is taken, if it can be decoded; its time is the time of its taking.
OnImage(sound) ==
  /\ Serve("image")
  /\ frames' = Tail(frames)
  /\ IF sound THEN stamp' = 0 /\ latest' = Head(frames) ELSE UNCHANGED outlook
  /\ UNCHANGED <<mode, human, requests, timing, cmd, overrides>>

NeverStale == stamp > Old - 1

StaleFrame == stamp > Stale

\* The control tick looks at the frame only if it may drive or detect.
ControlTick ==
  /\ Serve("timer")
  /\ due' = 0
  /\ IF human \/ mode = "manual" \/ StaleFrame
     THEN Drive("still") /\ UNCHANGED ticking
     ELSE ticking' = 0 /\ UNCHANGED cmd
  /\ UNCHANGED <<mode, human, inputs, outlook, turn, overrides>>

\* It publishes what the frame calls for: nothing but detections, a motion
\* after or away from what it shows, or the turn begun before.
EndTick(obstacle) ==
  /\ ~Idle
  /\ ticking' = -1
  /\ turn' = IF mode = "patrol" /\ turn = 0 /\ obstacle THEN TurnTime ELSE turn
  /\ Drive(IF mode \in Driving THEN "moving" ELSE "still")
  /\ UNCHANGED <<mode, human, inputs, outlook, round, due, overrides>>

-----------------------------------------------------------------------------
(* What surrounds the node.                                                *)

\* The camera publishes a frame; the oldest in a full subscription is lost.
Capture ==
  /\ frames' = LET all == Append(frames, 0)
               IN IF Len(all) > FrameQueue THEN Tail(all) ELSE all
  /\ UNCHANGED <<mode, human, requests, outlook, round, timing, cmd,
                 overrides>>

RequestMode(m) ==
  /\ requests = <<>>
  /\ requests' = <<m>>
  /\ UNCHANGED <<mode, human, frames, outlook, round, timing, cmd,
                 overrides>>

Older(age) == IF age < Old THEN age + 1 ELSE age

\* Time passes while there is nothing to do, or during a look at a frame.
Clock ==
  /\ IF Idle THEN round = {} /\ Due = {} ELSE ticking < Work
  /\ ticking' = IF Idle THEN -1 ELSE ticking + 1
  /\ due' = due + 1
  /\ turn' = IF turn > 0 THEN turn - 1 ELSE 0
  /\ frames' = [i \in DOMAIN frames |-> Older(frames[i])]
  /\ stamp' = Older(stamp) /\ latest' = Older(latest)
  /\ UNCHANGED <<mode, human, requests, round, cmd, overrides>>

CameraInit ==
  /\ mode = "manual" /\ human = FALSE
  /\ frames = <<>> /\ requests = <<>>
  /\ stamp = Old /\ latest = Old
  /\ round = {} /\ ticking = -1
  /\ due = 0 /\ turn = 0

NodeNext ==
  \/ Wait \/ OnMode \/ OnOverride \/ ControlTick
  \/ \E flag \in BOOLEAN : OnImage(flag) \/ EndTick(flag)
-----------------------------------------------------------------------------
Moves == cmd[rover] = [by |-> "camera", twist |-> "moving"]

\* "If camera frames go stale, robot is stopped immediately": no robot is left
\* moving by a frame older than Blind, however long a look takes and however
\* many frames waited.
SeesWhereItGoes == Moves => latest <= Blind
=============================================================================
