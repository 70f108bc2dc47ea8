----------------------------- MODULE PageVideo ------------------------------
(***************************************************************************)
(* The video of the active robot on the operator's page: the connection    *)
(* that brings it, and the steps by which the page negotiates one.         *)
(*                                                                         *)
(* Between two steps of a negotiation the page handles other events, also  *)
(* a change of the robot.  Times are not counted: a wait that has begun    *)
(* ends at some time, and a loop may take its turn at any time.  The page  *)
(* is told to show video only (webrtc_only).  The still picture that       *)
(* bridges a change of the robot is left out.                              *)
(***************************************************************************)
EXTENDS ActiveRobot

VARIABLES
  conn,      \* pc: its robot and its state
  attempt,   \* the negotiation in flight: for whom, since the last change
             \* of the robot or before it, and what it waits for
  shown,     \* whose video is on the screen
  fresh,     \* its frames arrive
  waits,     \* webrtcRetryAtMs is in the future
  grace      \* the robot changed less than ROBOT_SWITCH_GRACE_MS ago

peer == <<conn, attempt>>
screen == <<shown, fresh>>
videoVars == <<peer, screen, waits, grace>>

Phase == {"offer", "post", "aborted", "answer", "apply"}

Connection == [of : Robot, state : {"new", "answered", "broken"}]

ASSUME VideoAssumption == None \notin Connection

VideoTypeOK ==
  /\ ChoiceTypeOK
  /\ conn \in Connection \cup {None}
  /\ attempt = None \/ attempt \in [of : Robot, current : BOOLEAN, at : Phase]
  /\ shown \in Robot \cup {None}
  /\ {fresh, waits, grace} \subseteq BOOLEAN

-----------------------------------------------------------------------------
(* setupWebRTC.                                                            *)

\* The next connection takes the place of the one before, whose last frame
\* stays on the screen.
Begin(r) ==
  /\ attempt' = [of |-> r, current |-> TRUE, at |-> "offer"]
  /\ conn' = [of |-> r, state |-> "new"]

Trying(phase) == loaded /\ attempt # None /\ attempt.at = phase

Proceed(phase) == attempt' = [attempt EXCEPT !.at = phase] /\ UNCHANGED waits

\* The attempt is over; after a failure the next one waits.
Over(wait) == attempt' = None /\ waits' = wait

\* An offer is made; an attempt for a robot that is not active any more ends.
Offered ==
  /\ Trying("offer")
  /\ IF attempt.current THEN Proceed("post") ELSE Over(waits)
  /\ UNCHANGED <<choice, conn, screen, grace>>

\* The server answers the offer.
Posted ==
  /\ Trying("post")
  /\ Proceed("answer")
  /\ UNCHANGED <<choice, conn, screen, grace>>

\* The post was aborted, or its answer came at that moment.
Aborted ==
  /\ Trying("aborted")
  /\ attempt' = None /\ waits' \in {waits, TRUE}
  /\ UNCHANGED <<choice, conn, screen, grace>>

Answered ==
  /\ Trying("answer")
  /\ IF attempt.current THEN Proceed("apply") ELSE Over(waits)
  /\ UNCHANGED <<choice, conn, screen, grace>>

\* The answer is applied, which fails on a connection closed meanwhile.
Applied ==
  /\ Trying("apply")
  /\ Over(~attempt.current)
  /\ conn' = IF attempt.current THEN [conn EXCEPT !.state = "answered"] ELSE conn
  /\ UNCHANGED <<choice, screen, grace>>

\* A step fails, or the server refuses.
Failed ==
  /\ loaded /\ attempt # None
  /\ Over(TRUE)
  /\ UNCHANGED <<choice, conn, screen, grace>>

\* ontrack: the video of the connection in use.
Track ==
  /\ loaded /\ conn # None
  /\ conn.state = "answered" /\ conn.of = activeRobot
  /\ shown' = conn.of /\ fresh' = TRUE
  /\ waits' = FALSE
  /\ UNCHANGED <<choice, peer, grace>>

-----------------------------------------------------------------------------
(* What happens to the connection, and the loops that renew it.            *)

Break ==
  /\ conn # None
  /\ conn' = [conn EXCEPT !.state = "broken"]
  /\ UNCHANGED <<choice, attempt, screen, waits, grace>>

\* Frames stop arriving, or arrive again.
Flow ==
  /\ conn # None /\ shown # None
  /\ fresh' = (~fresh /\ conn.state = "answered")
  /\ UNCHANGED <<choice, peer, shown, waits, grace>>

WaitOver ==
  /\ waits /\ waits' = FALSE
  /\ UNCHANGED <<choice, peer, screen, grace>>

GraceOver ==
  /\ grace /\ grace' = FALSE
  /\ UNCHANGED <<choice, peer, screen, waits>>

Renew ==
  /\ loaded /\ activeRobot # None
  /\ attempt = None /\ ~waits
  /\ Begin(activeRobot)
  /\ fresh' = FALSE
  /\ UNCHANGED <<choice, shown, waits, grace>>

\* shouldRetryWebRTC: without a connection, with a broken one, or one that
\* brings no frames.
ShouldRetry == ~(conn # None /\ conn.state # "broken" /\ (fresh \/ grace))

RetryLoop == ShouldRetry /\ Renew

\* setupMainFallbackLoop: also while the grace lasts, whatever arrives.
FallbackLoop == (grace \/ ~fresh) /\ Renew

-----------------------------------------------------------------------------
(* The change of the robot.                                                *)

KeepShown == UNCHANGED shown

\* The connection is closed and, with it, its video is taken off the screen.
ClearShown == shown' = IF conn # None \/ activeRobot' = None THEN None ELSE shown

\* An attempt in flight is not current any more, and a new one begins only
\* when there is none.
Switch ==
  /\ ClearShown
  /\ IF attempt # None
     THEN /\ conn' = None
          /\ attempt' = [attempt EXCEPT !.current = FALSE,
                           !.at = IF @ = "post" THEN "aborted" ELSE @]
     ELSE IF activeRobot' = None
     THEN conn' = None /\ UNCHANGED attempt
     ELSE Begin(activeRobot')
  /\ fresh' = FALSE /\ waits' = TRUE /\ grace' = TRUE

ChooseShown ==
  /\ ChoiceNext
  /\ IF Changed THEN Switch ELSE UNCHANGED videoVars

\* With the page all of it goes.
VideoExit ==
  /\ Exit
  /\ conn' = None /\ attempt' = None /\ shown' = None
  /\ fresh' = FALSE /\ waits' = FALSE /\ grace' = FALSE

VideoLoad ==
  /\ \E r \in Robot \cup {None}, available \in SUBSET Robot : Load(r, available)
  /\ IF activeRobot' # None THEN Begin(activeRobot') ELSE UNCHANGED peer
  /\ waits' = (activeRobot' # None) /\ grace' = waits'
  /\ UNCHANGED screen

VideoInit ==
  /\ ChoiceInit
  /\ conn = None /\ attempt = None /\ shown = None
  /\ fresh = FALSE /\ waits = FALSE /\ grace = FALSE

VideoNext ==
  \/ Offered \/ Posted \/ Aborted \/ Answered \/ Applied \/ Failed
  \/ Track \/ Break \/ Flow \/ WaitOver \/ GraceOver
  \/ RetryLoop \/ FallbackLoop
  \/ ChooseShown \/ VideoExit \/ VideoLoad
-----------------------------------------------------------------------------
\* "Prevent stale offers/answers from attaching to the wrong active robot": the
\* operator never looks at the video of another robot than the one the page
\* drives, however choices, offers, answers and tracks fall together.
ShowsTheActive == shown \in {None, activeRobot}
=============================================================================
