----------------------------- MODULE PageThumbs -----------------------------
(***************************************************************************)
(* The still pictures in the tiles of the robots the operator does not     *)
(* drive.                                                                  *)
(*                                                                         *)
(* At every tick the page puts the tiles that need a picture in an order   *)
(* and asks for those of the first Budget of them.  All tiles are taken to *)
(* be on the screen and none to have been touched of late, so what orders  *)
(* them is whether the robot's camera is known to be live, then how old    *)
(* the picture is.                                                         *)
(***************************************************************************)
EXTENDS Integers, SequencesExt

CONSTANTS
  Tiles,     \* the robots in the order of their names, the active one left out
  Budget,    \* thumbRobotsPerTick, one at least
  Dark       \* those of the robots whose camera gives no picture

VARIABLES
  order,     \* the tiles by the time of their last picture, then by name
  needy,     \* thumbNeedsRefresh: the robots without a picture of late
  live,      \* the robots whose camera is known to be live
  inFlight,  \* thumbRequestInFlight
  backoff    \* the robots whose thumbBackoffUntilMs is in the future

tiles == <<order, needy, live, inFlight, backoff>>

Shown == Range(Tiles)

ThumbsTypeOK ==
  /\ order \in [DOMAIN Tiles -> Shown] /\ IsInjective(order)
  /\ needy \subseteq Shown /\ live \subseteq Shown
  /\ inFlight \subseteq Shown /\ backoff \subseteq Shown

Of(robots) == SelectSeq(order, LAMBDA r : r \in robots \cap needy)

\* The tiles that need a picture, in the order of robotThumbPriority and of the
\* last picture.
Pool == Of(live) \o Of(Shown \ live)

\* refreshThumbImage: nothing is asked for while a request is under way, or a
\* while after one has failed.
MayAsk(r) == r \notin backoff \cup inFlight

\* refreshThumbs: a tile takes its part of the budget also when nothing may be
\* asked for it.
RefreshThumbs ==
  /\ Pool # <<>>
  /\ LET count == IF Budget < Len(Pool) THEN Budget ELSE Len(Pool)
     IN inFlight' = inFlight \cup {r \in {Pool[i] : i \in 1 .. count} : MayAsk(r)}
  /\ UNCHANGED <<order, needy, live, backoff>>

Loads(r) ==
  /\ r \in inFlight \ Dark
  /\ inFlight' = inFlight \ {r}
  /\ order' = Append(SelectSeq(order, LAMBDA q : q # r), r)
  /\ needy' = needy \ {r} /\ backoff' = backoff \ {r}
  /\ live' = live \cup {r}

Fails(r) ==
  /\ r \in inFlight \cap Dark
  /\ inFlight' = inFlight \ {r}
  /\ backoff' = backoff \cup {r}
  /\ UNCHANGED <<order, needy, live>>

BackoffOver(r) ==
  /\ r \in backoff
  /\ backoff' = backoff \ {r}
  /\ UNCHANGED <<order, needy, live, inFlight>>

\* A picture becomes too old.
Ages(r) ==
  /\ r \notin needy
  /\ needy' = needy \cup {r}
  /\ UNCHANGED <<order, live, inFlight, backoff>>

\* The server gives up the camera's topic, which nobody looks at.
Lapses(r) ==
  /\ r \in live
  /\ live' = live \ {r}
  /\ UNCHANGED <<order, needy, inFlight, backoff>>

ThumbsInit ==
  /\ order = Tiles /\ needy = Shown
  /\ live = {} /\ inFlight = {} /\ backoff = {}

ThumbsNext ==
  \/ RefreshThumbs
  \/ \E r \in Shown : Loads(r) \/ Fails(r) \/ BackoffOver(r) \/ Ages(r) \/ Lapses(r)

\* The timer fires, requests end, waits end.
ThumbsSpec ==
  /\ ThumbsInit /\ [][ThumbsNext]_tiles
  /\ WF_tiles(RefreshThumbs)
  /\ \A r \in Shown :
       WF_tiles(Loads(r)) /\ WF_tiles(Fails(r)) /\ WF_tiles(BackoffOver(r)) /\ WF_tiles(Ages(r))
-----------------------------------------------------------------------------
\* "Round-robin thumbnail refresh with bounded budget so fleet tiles do not stay
\* permanently black": a tile without a picture is asked for in the end.
ThumbsComeAround == \A r \in Shown : r \in needy ~> (r \in inFlight \/ r \notin needy)
=============================================================================
