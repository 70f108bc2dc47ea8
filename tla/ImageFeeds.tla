----------------------------- MODULE ImageFeeds -----------------------------
(***************************************************************************)
(* The camera of one robot in the server of the operator's page: whether   *)
(* its topic is subscribed to, and the pictures handed to the viewers.     *)
(*                                                                         *)
(* Two threads share this state without a lock.  ROS's executor serves the *)
(* frames and, at a timer, makes the subscriptions follow the interest     *)
(* there is; the event loop serves the viewers, who show their interest    *)
(* and look at pictures, and the page's poll of the state, which looks     *)
(* after a subscription that brings nothing.                               *)
(*                                                                         *)
(* A camera has a topic for compressed pictures, one for raw ones, or both,*)
(* and may have one that it never publishes on; the two names either topic *)
(* may have are subscribed to together and count as one.  A frame is a     *)
(* number, and stands also for the time at which it was marked.            *)
(* Definitions named for how they differ from the one below them are       *)
(* faults a change of the code could bring in; no action uses them.        *)
(***************************************************************************)
EXTENDS Integers, Sequences

CONSTANT MaxFrames   \* bound: the frames the camera publishes

ASSUME FeedsAssumption == MaxFrames \in Nat \ {0}

VARIABLES
  mute,        \* the topics the camera never publishes on
  advertised,  \* the topics that have a publisher, as far as the server sees
  chosen,      \* whether the robot is the active one, and in list_robots
  interest,    \* whether _img_interest_until_s lies ahead
  tracked,     \* whether the robot is in _img_subs
  subs,        \* the formats subscribed to there
  untracked,   \* the formats of subscriptions nothing refers to any more
  topic,       \* _img_topic_for_robot, and with it _img_source_for_robot
  executor,    \* what the executor is at
  loop,        \* what the event loop is at
  stored,      \* the latest frame of each format
  marked,      \* _img_last_frame_s
  kinds,       \* history: the formats of the frames, in their order
  silent,      \* no frame was marked of late
  cache        \* the decoded picture and the mark it is filed under

world == <<mute, advertised>>
viewers == <<chosen, interest>>
subscription == <<tracked, subs, untracked, topic>>
pictures == <<stored, marked, kinds, silent>>
feedVars == <<world, viewers, subscription, executor, loop, pictures, cache>>

Format == {"compressed", "raw"}
FiledPicture == [picture : 0 .. MaxFrames, mark : 0 .. MaxFrames]
Empty == [picture |-> 0, mark |-> 0]

FeedsTypeOK ==
  /\ mute \subseteq Format /\ advertised \subseteq Format
  /\ topic \in Format \cup {"none"}
  /\ {chosen, interest, tracked, silent} \subseteq BOOLEAN
  /\ subs \subseteq Format /\ untracked \subseteq Format
  /\ executor \in {"idle", "marking", "popping", "wanted", "unwanted"}
  /\ loop.at \in {"idle", "adding", "lost", "looking"}
  /\ stored \in [Format -> 0 .. MaxFrames] /\ marked \in 0 .. MaxFrames
  /\ kinds \in Seq(Format) /\ Len(kinds) <= MaxFrames
  /\ cache \in FiledPicture

-----------------------------------------------------------------------------
(* The executor: frames.                                                   *)

\* A frame is stored as the latest of its format; or it is marked as the latest
\* of all, and its topic as the one in use.
Stores(n, kind, what) ==
  IF what = "picture"
  THEN stored' = [stored EXCEPT ![kind] = n] /\ UNCHANGED <<topic, marked, silent>>
  ELSE marked' = n /\ topic' = kind /\ silent' = FALSE /\ UNCHANGED stored

MarkFirst == <<"mark", "picture">>

\* A frame is stored before it is marked, as the readers need it.
InOrder == <<"picture", "mark">>

Serves(from, to) == executor = from /\ executor' = to

OnFrame(kind) ==
  /\ Serves("idle", "marking")
  /\ kind \in (advertised \ mute) \cap (subs \cup untracked)
  /\ Len(kinds) < MaxFrames
  /\ kinds' = Append(kinds, kind)
  /\ Stores(Len(kinds) + 1, kind, InOrder[1])
  /\ UNCHANGED <<world, viewers, tracked, subs, untracked, loop, cache>>

MarkFrame ==
  /\ Serves("marking", "idle")
  /\ Stores(Len(kinds), kinds[Len(kinds)], InOrder[2])
  /\ UNCHANGED <<world, viewers, tracked, subs, untracked, kinds, loop, cache>>

-----------------------------------------------------------------------------
(* Subscribing.                                                            *)

\* _choose_image_topic: by the publishers there are, not by what they bring.
Target ==
  CASE "compressed" \in advertised -> "compressed"
    [] advertised = {"raw"} -> "raw"
    [] OTHER -> IF topic = "none" THEN "compressed" ELSE topic

\* _sync_image_subscriptions.  An interest counts while the robot is in the list;
\* one found to have run out is forgotten, also if it was renewed meanwhile.
SyncRead ==
  /\ executor = "idle"
  /\ executor' \in IF ~interest THEN {"popping"}
                   ELSE {"wanted"} \cup (IF chosen THEN {} ELSE {"unwanted"})
  /\ UNCHANGED <<world, viewers, subscription, loop, pictures, cache>>

SyncPop ==
  /\ Serves("popping", IF chosen THEN "wanted" ELSE "unwanted")
  /\ interest' = FALSE
  /\ UNCHANGED <<world, chosen, subscription, loop, pictures, cache>>

SyncEnsure ==
  /\ Serves("wanted", "idle")
  /\ IF tracked THEN UNCHANGED subscription
     ELSE /\ tracked' = TRUE /\ topic' = Target /\ subs' = subs \cup {Target}
          /\ UNCHANGED untracked
  /\ UNCHANGED <<world, viewers, loop, pictures, cache>>

\* bound: what the loop adds gets lost in the drop of a subscription once.
LostOnce == loop.at = "adding" => untracked = {}

\* The subscriptions go, and with them the raw and the decoded picture; the
\* compressed one and the mark stay.  What the event loop is about to add to them
\* will belong to nothing.
SyncDrop ==
  /\ Serves("unwanted", "idle") /\ LostOnce
  /\ IF tracked /\ ~interest
     THEN /\ tracked' = FALSE /\ subs' = {} /\ topic' = "none"
          /\ stored' = [stored EXCEPT !["raw"] = 0]
          /\ cache' = Empty
          /\ loop' = IF loop.at = "adding" THEN [loop EXCEPT !.at = "lost"] ELSE loop
     ELSE UNCHANGED <<tracked, subs, topic, stored, cache, loop>>
  /\ UNCHANGED <<world, viewers, untracked, marked, kinds, silent>>

-----------------------------------------------------------------------------
(* The event loop.                                                         *)

AtRest == [at |-> "idle"]

\* mark_image_interest
Interested == interest' = TRUE

\* A tile, a track or an offer asks for the robot's pictures.
MarkInterest ==
  /\ loop = AtRest
  /\ Interested
  /\ UNCHANGED <<world, chosen, subscription, executor, loop, pictures, cache>>

\* The page chooses this robot, or another one.
SetActive ==
  /\ loop = AtRest
  /\ chosen' \in BOOLEAN
  /\ IF chosen' THEN Interested ELSE UNCHANGED interest
  /\ UNCHANGED <<world, subscription, executor, loop, pictures, cache>>

\* Another program does, whose message the executor serves, or the robot enters or
\* leaves the list.
OnActiveRobot ==
  /\ executor = "idle"
  /\ chosen' = ~chosen
  /\ UNCHANGED <<world, interest, subscription, executor, loop, pictures, cache>>

NeverRetargets == FALSE

\* maybe_retarget_image_subscription: another topic is the one to have, and
\* the one subscribed to brings nothing.
Retargets == tracked /\ (topic = "none" \/ (topic # Target /\ silent))

\* camera_health, which the page's poll of the state calls: the set of
\* subscriptions is found, then the one that is missing is added to it.
CameraHealth ==
  /\ loop = AtRest /\ Retargets
  /\ topic' = Target
  /\ loop' = [at |-> "adding", format |-> Target]
  /\ UNCHANGED <<world, viewers, tracked, subs, untracked, executor, pictures, cache>>

Added ==
  /\ loop.at \in {"adding", "lost"}
  /\ IF loop.at = "adding"
     THEN subs' = subs \cup {loop.format} /\ UNCHANGED untracked
     ELSE untracked' = untracked \cup {loop.format} /\ UNCHANGED subs
  /\ loop' = AtRest
  /\ UNCHANGED <<world, viewers, tracked, topic, executor, pictures, cache>>

\* latest_rgb reads the mark of the latest frame, unless the picture decoded for
\* the same mark does.  What it decodes before any mark it files nowhere.
Look ==
  /\ loop = AtRest
  /\ marked > 0 /\ cache.mark # marked
  /\ loop' = [at |-> "looking", mark |-> marked]
  /\ UNCHANGED <<world, viewers, subscription, executor, pictures, cache>>

\* The picture to decode, 0 if there is none: that of the topic in use, or the
\* other one if it is missing, or cannot be decoded where it is compressed.
ToDecode ==
  IF topic = "compressed" /\ stored["compressed"] > 0
  THEN {stored["compressed"], stored["raw"]}
  ELSE IF stored["raw"] > 0 THEN {stored["raw"]} ELSE {stored["compressed"]}

\* Then it finds which topic is in use, decodes a picture, if it can, and files
\* it under the mark it read before.  A picture encoded for a tile is filed under
\* the same mark as the one it is made from.
Decode ==
  /\ loop.at = "looking"
  /\ loop' = AtRest
  /\ \E n \in ToDecode \cup {0} :
       cache' = IF n > 0 THEN [picture |-> n, mark |-> loop.mark] ELSE cache
  /\ UNCHANGED <<world, viewers, subscription, executor, pictures>>

-----------------------------------------------------------------------------
(* What surrounds the server.                                              *)

Outside == UNCHANGED <<mute, subscription, executor, loop, stored, marked, kinds, cache>>

\* A publisher of the camera is discovered or gone.
Publishes(kind) ==
  /\ advertised' = IF kind \in advertised THEN advertised \ {kind} ELSE advertised \cup {kind}
  /\ Outside /\ UNCHANGED <<viewers, silent>>

Expire ==
  /\ interest /\ interest' = FALSE
  /\ Outside /\ UNCHANGED <<advertised, chosen, silent>>

\* Time passes without a frame.
Silence ==
  /\ silent' = TRUE
  /\ Outside /\ UNCHANGED <<advertised, viewers>>

FeedsInit ==
  /\ mute \in {{}, {"compressed"}} /\ advertised = {}
  /\ chosen = FALSE /\ interest = FALSE
  /\ tracked = FALSE /\ subs = {} /\ untracked = {} /\ topic = "none"
  /\ executor = "idle" /\ loop = AtRest
  /\ stored = [f \in Format |-> 0] /\ marked = 0 /\ kinds = <<>> /\ silent = TRUE
  /\ cache = Empty

ExecutorNext ==
  \/ \E kind \in Format : OnFrame(kind)
  \/ MarkFrame \/ SyncRead \/ SyncPop \/ SyncEnsure \/ SyncDrop

FeedsNext ==
  \/ ExecutorNext
  \/ OnActiveRobot \/ MarkInterest \/ SetActive \/ CameraHealth \/ Added
  \/ Look \/ Decode
  \/ \E kind \in Format : Publishes(kind)
  \/ Expire \/ Silence
-----------------------------------------------------------------------------
\* No picture is filed under the time of a frame of the same format that came
\* after it, though the two threads take no lock and the subscription may be
\* dropped in between: while the camera keeps to one format, a viewer who is told
\* the time of a picture never looks at an older one.  (With both formats one may
\* see a kept picture of the other format under a later time.)
SeenIsCurrent ==
  cache # Empty /\ kinds[cache.picture] = kinds[cache.mark] => cache.picture >= cache.mark

\* "Without this re-check, the UI can stay on a dead topic forever": when a robot
\* stays active and its camera publishes on the topic the server chooses by the
\* publishers it sees, a topic that brings pictures is subscribed to in the end
\* and from then on, be it by a subscription that nothing refers to any more.
WatchedIsSeen ==
  \A kind \in Format :
    <>[](chosen /\ Target = kind /\ kind \in advertised \ mute)
      => <>[]((subs \cup untracked) \cap (advertised \ mute) # {})
=============================================================================
