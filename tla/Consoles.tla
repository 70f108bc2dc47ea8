------------------------------ MODULE Consoles ------------------------------
(***************************************************************************)
(* The programs at which operators sit and what serves them, one at a time.*)
(* They share no state but the robots' topics; part says which of them     *)
(* runs, from the first state on, and the others rest in their initial     *)
(* states.  So each is checked by itself, in one run.                      *)
(***************************************************************************)
EXTENDS Teleop, CameraAutonomy, PageDrive, PageVideo, ImageFeeds, PeerSessions, RuntimeConfig

VARIABLES
  part,    \* the program that runs
  waited   \* history: how long each word on the rover's human_override has waited

vars == <<part, waited, teleopVars, cameraVars, topics, choice, handlers, videoVars,
          feedVars, peerVars, configVars>>

Part == {"terminal", "autonomy", "drive", "video", "feeds", "peers", "config"}

\* Only what program p's modules declare may change.
Rests(programs, p, v) == IF p \in programs THEN TRUE ELSE UNCHANGED v

Only(p) ==
  /\ UNCHANGED part
  /\ Rests({"terminal"}, p, teleopVars) /\ Rests({"autonomy"}, p, cameraVars)
  /\ Rests({"terminal", "autonomy"}, p, topics)
  /\ Rests({"autonomy"}, p, waited)
  /\ Rests({"drive", "video"}, p, choice)
  /\ Rests({"drive"}, p, handlers) /\ Rests({"video"}, p, videoVars)
  /\ Rests({"feeds"}, p, feedVars) /\ Rests({"peers"}, p, peerVars)
  /\ Rests({"config"}, p, configVars)

\* How long a word on human_override may wait: a look for each word before it,
\* one more, and the one that goes on.
Patience == (Depth + 1) * Work

\* A wait no property tells from a longer one.
Longer(age) == IF age > Patience THEN age ELSE age + 1

\* A word reaches the rover's autonomy, from the terminal or any other program;
\* the oldest in a full subscription is lost.
HumanSpeaks(active) ==
  /\ TellOverride(rover, active)
  /\ waited' = LET all == Append(waited, 0) IN IF Len(all) > Depth THEN Tail(all) ELSE all
  /\ UNCHANGED <<cameraVars, cmd>>

\* The words on human_override wait while the rover's programs go on.
NodeActs ==
  /\ NodeNext
  /\ waited' = IF UNCHANGED overrides THEN waited ELSE Tail(waited)

TimePasses ==
  /\ Clock
  /\ waited' = [i \in DOMAIN waited |-> Longer(waited[i])]

OthersAct ==
  /\ Capture \/ \E m \in Asked : RequestMode(m)
  /\ UNCHANGED waited

Terminal == TeleopNext /\ Only("terminal")

AutonomyNext == NodeActs \/ TimePasses \/ OthersAct \/ \E active \in BOOLEAN : HumanSpeaks(active)

Autonomy == AutonomyNext /\ Only("autonomy")

Page == DriveNext /\ Only("drive")

Videos == VideoNext /\ Only("video")

Feeds == FeedsNext /\ Only("feeds")

Sessions == PeersNext /\ Only("peers")

Tools == ConfigNext /\ Only("config")

Init ==
  /\ part \in Part /\ waited = <<>>
  /\ TeleopInit /\ CameraInit /\ TopicsInit /\ DriveInit /\ VideoInit
  /\ FeedsInit /\ PeersInit /\ ConfigInit
  /\ part # "feeds" => mute = {}

Next ==
  \/ part = "terminal" /\ Terminal
  \/ part = "autonomy" /\ Autonomy
  \/ part = "drive" /\ Page
  \/ part = "video" /\ Videos
  \/ part = "feeds" /\ Feeds
  \/ part = "peers" /\ Sessions
  \/ part = "config" /\ Tools

\* A step of the executor or the event loop that is always possible again is
\* taken: both serve what is due.  A camera that has fallen silent is found so.
Fairly(A) == part = "feeds" /\ A

Fairness ==
  /\ WF_feedVars(Fairly(ExecutorNext)) /\ WF_feedVars(Fairly(Added))
  /\ WF_feedVars(Fairly(Decode)) /\ WF_feedVars(Fairly(Silence))
  /\ SF_feedVars(Fairly(SyncRead)) /\ SF_feedVars(Fairly(CameraHealth))

Spec == Init /\ [][Next]_vars /\ Fairness
-----------------------------------------------------------------------------
\* The type invariant of the program that runs.
TypeOK ==
  CASE part = "terminal" -> TopicsTypeOK /\ TeleopTypeOK
    [] part = "autonomy" ->
         /\ TopicsTypeOK /\ CameraTypeOK
         /\ waited \in Seq(Nat) /\ Len(waited) = Len(overrides[rover])
    [] part = "drive" -> DriveTypeOK
    [] part = "video" -> VideoTypeOK
    [] part = "feeds" -> FeedsTypeOK
    [] part = "peers" -> PeersTypeOK
    [] part = "config" -> ConfigTypeOK

\* "Human override always wins": whatever the camera keeps the node busy with
\* and however many words come, none waits longer than Patience to be taken, and
\* autonomy does not move the robot while the last word is that a human drives.
HumansAreHeard ==
  /\ \A i \in DOMAIN waited : waited[i] <= Patience
  /\ human => ~Moves
=============================================================================
