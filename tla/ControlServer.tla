--------------------------- MODULE ControlServer ---------------------------
(***************************************************************************)
(* Operators, their sessions and their control locks: BrowserServer of the *)
(* FPV user interface.                                                     *)
(*                                                                         *)
(* The server is one asyncio event loop.  A handler runs without           *)
(* interruption up to an await that really suspends; each such piece is    *)
(* one action, and the piece that follows the await is another.  A tab is  *)
(* one load of the page: it makes up its client_id and opens its socket    *)
(* once.  The tabs of one browser share the token in its local storage.    *)
(*                                                                         *)
(* Reapers may run at any moment; their period only delays them.           *)
(* Definitions named for how they differ from the one below them are       *)
(* faults a change of the code could bring in; no action uses them.        *)
(***************************************************************************)
EXTENDS Integers, FiniteSets

CONSTANTS
  Client,          \* tabs, by client_id
  Browser,
  BrowserOf,       \* which browser a tab is opened in
  User,
  CanControl,      \* users whose token has the scope swarm:control
  Robot,
  Trusted,         \* robots the registry lists
  Session,         \* session ids; each is issued once
  LockTimeout,     \* lock_timeout_s
  PendingTtl,      \* _dev_session_pending_ttl_s
  OrphanTtl,       \* _dev_session_orphan_ttl_s
  BroadcastBound,  \* bound: the longest a broadcast to all sockets takes
  None

ASSUME TabsHaveBrowsers == BrowserOf \in [Client -> Browser]

ASSUME NoneIsNobody ==
  None \notin Client /\ None \notin User /\ None \notin Robot /\ None \notin Session

ASSUME TimesAreNatural ==
  LockTimeout \in Nat /\ PendingTtl \in Nat /\ OrphanTtl \in Nat
    /\ BroadcastBound \in Nat

VARIABLES
  phase,      \* where a tab, and the handle_ws that serves it, is
  alive,      \* tabs whose page is loaded and reachable
  token,      \* the session a tab's token names
  stored,     \* the token in a browser's local storage
  beacons,    \* logouts that pages sent as they closed, not yet served
  sessions,   \* _dev_sessions_by_id: the live ones
  userOf,     \* the user a session was issued to
  boundTo,    \* DevLoginSession.client_id
  idle,       \* age of DevLoginSession.last_seen_s
  byUser,     \* _dev_session_id_by_username
  byClient,   \* _dev_session_id_by_client
  wsClients,  \* the keys of ws_clients
  closed,     \* those whose WebSocketResponse is closed
  holder,     \* locks: who holds a robot's lock
  lockAge,    \* age of ControlLock.last_heartbeat_s
  pending,    \* the robot of a drive that waits for its lock broadcast
  waited      \* for how long

pageVars == <<phase, alive, token, stored, beacons>>
sessionVars == <<sessions, userOf, boundTo, idle, byUser, byClient>>
socketVars == <<wsClients, closed>>
lockVars == <<holder, lockAge>>
driveVars == <<pending, waited>>
vars == <<pageVars, sessionVars, socketVars, lockVars, driveVars>>

Lesser(a, b) == IF a < b THEN a ELSE b

IdleCap == (IF PendingTtl > OrphanTtl THEN PendingTtl ELSE OrphanTtl) + 1
LockCap == LockTimeout + 1

Phases == {"new", "page", "handshake", "serving", "dispatching", "leaving", "gone"}
----------------------------------------------------------------------------
(* Sessions.                                                               *)

SocketOpen(c) == c \in wsClients /\ c \notin closed

ActiveWhileRegistered(s) ==
  \/ boundTo[s] \in wsClients
  \/ idle[s] <= (IF boundTo[s] = None THEN PendingTtl ELSE OrphanTtl)

(* _dev_session_is_active: its socket is open, or it was seen recently.    *)
SessionIsActive(s) ==
  \/ boundTo[s] # None /\ SocketOpen(boundTo[s])
  \/ idle[s] <= (IF boundTo[s] = None THEN PendingTtl ELSE OrphanTtl)

(* _close_dev_session, for every session of S that is still live.  Of the  *)
(* clients mapped to a session only the one it is bound to is unmapped,    *)
(* and those in popped.                                                    *)
CloseSessions(S, popped) ==
  LET ended == S \cap sessions
  IN /\ sessions' = sessions \ ended
     /\ byUser' = [u \in User |-> IF byUser[u] \in ended THEN None ELSE byUser[u]]
     /\ byClient' = [c \in Client |->
                       IF \/ c \in popped
                          \/ byClient[c] \in ended /\ boundTo[byClient[c]] = c
                       THEN None ELSE byClient[c]]
     /\ boundTo' = [s \in Session |-> IF s \in ended THEN None ELSE boundTo[s]]
     /\ idle' = [s \in Session |-> IF s \in ended THEN 0 ELSE idle[s]]
     /\ UNCHANGED userOf

SocketsUnchecked(S) == {boundTo[s] : s \in S \cap sessions} \ {None}

\* The sockets closed along with the sessions of S.
SocketsOf(S) == {boundTo[s] : s \in S \cap sessions} \cap wsClients

(* _touch_dev_session for a request that names no client.                  *)
Seen(s) == idle' = IF s \in sessions THEN [idle EXCEPT ![s] = 0] ELSE idle

(* _touch_dev_session for a message of socket c.  A token whose session is *)
(* closed changes nothing, and the caller does not look.                   *)
SeenOn(c) ==
  LET s == token[c]
  IN IF s \in sessions
     THEN /\ Seen(s)
          /\ boundTo' = [boundTo EXCEPT ![s] = c]
          /\ byClient' = [byClient EXCEPT ![c] = s]
          /\ UNCHANGED <<sessions, userOf, byUser>>
     ELSE UNCHANGED sessionVars
----------------------------------------------------------------------------
(* Pages: what the shipped page does, as the server sees it.               *)

\* A tab is opened; the token of its browser comes along.
Open(c) ==
  /\ phase[c] = "new"
  /\ phase' = [phase EXCEPT ![c] = "page"]
  /\ alive' = alive \cup {c}
  /\ token' = [token EXCEPT ![c] = stored[BrowserOf[c]]]
  /\ UNCHANGED <<stored, beacons, sessionVars, socketVars, lockVars, driveVars>>

\* The tab crashes or loses its network: nobody is told.
Vanish(c) ==
  /\ c \in alive
  /\ alive' = alive \ {c}
  /\ UNCHANGED <<phase, token, stored, beacons, sessionVars, socketVars,
                 lockVars, driveVars>>

\* The tab is closed: a last logout request, and the token is forgotten.
Exit(c) ==
  /\ c \in alive
  /\ alive' = alive \ {c}
  /\ stored' = [stored EXCEPT ![BrowserOf[c]] = None]
  /\ beacons' = beacons \cup ({token[c]} \ {None})
  /\ UNCHANGED <<phase, token, sessionVars, socketVars, lockVars, driveVars>>

LoseBeacon(s) ==
  /\ s \in beacons
  /\ beacons' = beacons \ {s}
  /\ UNCHANGED <<phase, alive, token, stored, sessionVars, socketVars,
                 lockVars, driveVars>>

(* The tab polls /api/state.                                               *)
Poll(c) ==
  /\ c \in alive
  /\ token[c] \in sessions
  /\ Seen(token[c])
  /\ UNCHANGED <<pageVars, sessions, userOf, boundTo, byUser, byClient,
                 socketVars, lockVars, driveVars>>
----------------------------------------------------------------------------
(* Requests.                                                               *)

(* handle_login: a user with an active session is turned away; one that    *)
(* is no longer active gives way.  It has no socket left to close, so      *)
(* nothing is awaited in between.                                          *)
ReplacedKeepingStale(u) == {}

Replaced(u) == {byUser[u]} \cap sessions

MayLogin(c, u) ==
  /\ c \in alive /\ phase[c] = "page" /\ token[c] \notin sessions
  /\ \A t \in {byUser[u]} \cap sessions : ~SessionIsActive(t)

Login(c, u, s) ==
  /\ MayLogin(c, u)
  /\ userOf[s] = None
  /\ sessions' = (sessions \ Replaced(u)) \cup {s}
  /\ userOf' = [userOf EXCEPT ![s] = u]
  /\ byUser' = [byUser EXCEPT ![u] = s]
  /\ byClient' = [d \in Client |->
                    IF byClient[d] \in Replaced(u) /\ boundTo[byClient[d]] = d
                    THEN None ELSE byClient[d]]
  /\ idle' = [idle EXCEPT ![s] = 0]
  /\ token' = [token EXCEPT ![c] = s]
  /\ stored' = [stored EXCEPT ![BrowserOf[c]] = s]
  /\ UNCHANGED <<phase, alive, beacons, boundTo, socketVars, lockVars, driveVars>>

\* No token can be made for the user, whose former session is closed already.
LoginFails(c, u) ==
  /\ MayLogin(c, u) /\ Replaced(u) # {}
  /\ CloseSessions(Replaced(u), {})
  /\ UNCHANGED <<pageVars, socketVars, lockVars, driveVars>>

(* handle_logout                                                           *)
Logout(s) ==
  /\ s \in beacons
  /\ beacons' = beacons \ {s}
  /\ CloseSessions({s}, {})
  /\ closed' = closed \cup SocketsOf({s})
  /\ UNCHANGED <<phase, alive, token, stored, wsClients, lockVars, driveVars>>

(* handle_ws, up to its first await: the session is bound to the tab,      *)
(* unless the tab it is bound to has an open socket.                       *)
Connect(c) ==
  LET s == token[c]
      previous == boundTo[s]
      refused == previous \notin {None, c} /\ SocketOpen(previous)
  IN /\ c \in alive /\ phase[c] = "page" /\ s \in sessions
     /\ Seen(s)
     /\ IF refused
        THEN /\ phase' = [phase EXCEPT ![c] = "gone"]
             /\ UNCHANGED <<boundTo, byClient>>
        ELSE /\ phase' = [phase EXCEPT ![c] = "handshake"]
             /\ boundTo' = [boundTo EXCEPT ![s] = c]
             /\ byClient' = [d \in Client |-> CASE d = c        -> s
                                                [] d = previous -> None
                                                [] OTHER        -> byClient[d]]
     /\ UNCHANGED <<alive, token, stored, beacons, sessions, userOf, byUser,
                    socketVars, lockVars, driveVars>>

(* ws.prepare returned: the socket is registered and said hello to.        *)
Prepared(c) ==
  /\ phase[c] = "handshake"
  /\ phase' = [phase EXCEPT ![c] = "serving"]
  /\ wsClients' = wsClients \cup {c}
  /\ UNCHANGED <<alive, token, stored, beacons, sessionVars, closed, lockVars,
                 driveVars>>

\* The peer is gone before ws.prepare is through.
PrepareFails(c) ==
  /\ phase[c] = "handshake" /\ c \notin alive
  /\ phase' = [phase EXCEPT ![c] = "gone"]
  /\ UNCHANGED <<alive, token, stored, beacons, sessionVars, socketVars,
                 lockVars, driveVars>>

(* The hello fails: it is sent before the try, so nothing is cleaned up.   *)
HelloFails(c) ==
  /\ phase[c] = "handshake" /\ c \notin alive
  /\ phase' = [phase EXCEPT ![c] = "gone"]
  /\ wsClients' = wsClients \cup {c}
  /\ UNCHANGED <<alive, token, stored, beacons, sessionVars, closed, lockVars,
                 driveVars>>

\* aiohttp's own heartbeat finds that nobody is there.
PingTimeout(c) ==
  /\ c \in wsClients \ closed /\ phase[c] = "gone"
  /\ closed' = closed \cup {c}
  /\ UNCHANGED <<pageVars, sessionVars, wsClients, lockVars, driveVars>>
----------------------------------------------------------------------------
(* Messages on a socket.                                                   *)

LockedByOther(r, c) == holder[r] \notin {None, c}

TouchLock(r, c) ==
  /\ holder' = [holder EXCEPT ![r] = c]
  /\ lockAge' = [lockAge EXCEPT ![r] = 0]

DropLocks(R) ==
  /\ holder' = [r \in Robot |-> IF r \in R THEN None ELSE holder[r]]
  /\ lockAge' = [r \in Robot |-> IF r \in R THEN 0 ELSE lockAge[r]]

\* The checks in front of every use of a lock.
MayUse(c, r) ==
  /\ phase[c] = "serving" /\ SocketOpen(c) /\ c \in alive
  /\ userOf[token[c]] \in CanControl
  /\ r \in Trusted
  /\ ~LockedByOther(r, c)

(* "heartbeat" keeps, or takes, the lock of the robot the tab shows.       *)
Heartbeat(c, r) ==
  /\ MayUse(c, r)
  /\ SeenOn(c)
  /\ TouchLock(r, c)
  /\ UNCHANGED <<pageVars, socketVars, driveVars>>

(* "drive", and "autonomy_mode" likewise.  A lock that changes hands is    *)
(* broadcast before the command is passed on.                              *)
Drive(c, r) ==
  /\ MayUse(c, r)
  /\ SeenOn(c)
  /\ TouchLock(r, c)
  /\ IF holder[r] = c
     THEN UNCHANGED <<phase, driveVars>>
     ELSE /\ phase' = [phase EXCEPT ![c] = "dispatching"]
          /\ pending' = [pending EXCEPT ![c] = r]
          /\ UNCHANGED waited
  /\ UNCHANGED <<alive, token, stored, beacons, socketVars>>

(* The broadcast is through, and the command goes to hub.set_drive_target. *)
Dispatch(c) ==
  /\ phase[c] = "dispatching"
  /\ phase' = [phase EXCEPT ![c] = "serving"]
  /\ pending' = [pending EXCEPT ![c] = None]
  /\ waited' = [waited EXCEPT ![c] = 0]
  /\ UNCHANGED <<alive, token, stored, beacons, sessionVars, socketVars, lockVars>>

\* Any other message, or one that is refused.
OtherMessage(c) ==
  /\ phase[c] = "serving" /\ SocketOpen(c) /\ c \in alive
  /\ SeenOn(c)
  /\ UNCHANGED <<pageVars, socketVars, lockVars, driveVars>>

\* The finally of handle_ws, up to the await that closes the tab's video.
CleanUp(c) ==
  /\ phase' = [phase EXCEPT ![c] = "leaving"]
  /\ wsClients' = wsClients \ {c}
  /\ closed' = closed \ {c}
  /\ UNCHANGED <<alive, token, stored, beacons, lockVars, driveVars>>

Leave(c) ==
  /\ phase[c] = "serving" /\ (c \in closed \/ c \notin alive)
  /\ CleanUp(c)
  /\ UNCHANGED sessionVars

\* A message that is no object, or a drive whose speeds are no numbers, ends the
\* handler while the page goes on.
BadMessage(c) ==
  /\ phase[c] = "serving" /\ SocketOpen(c) /\ c \in alive
  /\ SeenOn(c)
  /\ CleanUp(c)

HeldLately(c) == {r \in Robot : holder[r] = c /\ lockAge[r] < LockTimeout}

HeldBy(c) == {r \in Robot : holder[r] = c}

(* The rest of it: the locks, then the session mapped to the client.       *)
Release(c) ==
  /\ phase[c] = "leaving"
  /\ phase' = [phase EXCEPT ![c] = "gone"]
  /\ DropLocks(HeldBy(c))
  /\ CloseSessions({byClient[c]}, {c})
  /\ UNCHANGED <<alive, token, stored, beacons, socketVars, driveVars>>
----------------------------------------------------------------------------
(* Background tasks, and time.                                             *)

StaleOffByOne(r) == holder[r] # None /\ lockAge[r] >= LockTimeout

StaleOnceDisconnected(r) ==
  holder[r] # None /\ lockAge[r] > LockTimeout /\ holder[r] \notin wsClients

Stale(r) == holder[r] # None /\ lockAge[r] > LockTimeout

(* _lock_reaper *)
LockReaper ==
  /\ \E r \in Robot : Stale(r)
  /\ DropLocks({r \in Robot : Stale(r)})
  /\ UNCHANGED <<pageVars, sessionVars, socketVars, driveVars>>

(* _dev_session_reaper: the sessions it closes have no open socket.        *)
SessionReaper ==
  LET inactive == {s \in sessions : ~SessionIsActive(s)}
  IN /\ inactive # {}
     /\ CloseSessions(inactive, {})
     /\ UNCHANGED <<pageVars, socketVars, lockVars, driveVars>>

Tick ==
  /\ \A c \in Client : phase[c] = "dispatching" => waited[c] < BroadcastBound
  /\ idle' = [s \in Session |-> IF s \in sessions THEN Lesser(idle[s] + 1, IdleCap)
                                                  ELSE idle[s]]
  /\ lockAge' = [r \in Robot |-> IF holder[r] = None THEN lockAge[r]
                                 ELSE Lesser(lockAge[r] + 1, LockCap)]
  /\ waited' = [c \in Client |-> IF phase[c] = "dispatching" THEN waited[c] + 1
                                                             ELSE waited[c]]
  /\ UNCHANGED <<pageVars, sessions, userOf, boundTo, byUser, byClient,
                 socketVars, holder, pending>>

Init ==
  /\ phase = [c \in Client |-> "new"]
  /\ alive = {}
  /\ token = [c \in Client |-> None]
  /\ stored = [b \in Browser |-> None]
  /\ beacons = {}
  /\ sessions = {}
  /\ userOf = [s \in Session |-> None]
  /\ boundTo = [s \in Session |-> None]
  /\ idle = [s \in Session |-> 0]
  /\ byUser = [u \in User |-> None]
  /\ byClient = [c \in Client |-> None]
  /\ wsClients = {} /\ closed = {}
  /\ holder = [r \in Robot |-> None]
  /\ lockAge = [r \in Robot |-> 0]
  /\ pending = [c \in Client |-> None]
  /\ waited = [c \in Client |-> 0]

Page(c) == Open(c) \/ Vanish(c) \/ Exit(c) \/ Poll(c)

Message(c) ==
  OtherMessage(c) \/ BadMessage(c) \/ \E r \in Robot : Heartbeat(c, r) \/ Drive(c, r)

\* What the event loop does on its own once it can.
Handler(c) ==
  \/ Prepared(c) \/ PrepareFails(c) \/ HelloFails(c)
  \/ PingTimeout(c) \/ Dispatch(c) \/ Leave(c) \/ Release(c)

Next ==
  \/ \E c \in Client : Page(c) \/ Connect(c) \/ Message(c) \/ Handler(c)
  \/ \E c \in Client, u \in User, s \in Session : Login(c, u, s)
  \/ \E c \in Client, u \in User : LoginFails(c, u)
  \/ \E s \in Session : Logout(s) \/ LoseBeacon(s)
  \/ LockReaper
  \/ SessionReaper
  \/ Tick

(* Every task the event loop holds gets its turn, and time passes.         *)
Fairness ==
  /\ \A c \in Client : WF_vars(Handler(c))
  /\ WF_vars(LockReaper) /\ WF_vars(SessionReaper) /\ WF_vars(Tick)

Spec == Init /\ [][Next]_vars /\ Fairness
----------------------------------------------------------------------------
TypeOK ==
  /\ phase \in [Client -> Phases]
  /\ alive \subseteq Client
  /\ token \in [Client -> Session \cup {None}]
  /\ stored \in [Browser -> Session \cup {None}]
  /\ beacons \subseteq Session
  /\ sessions \subseteq Session
  /\ userOf \in [Session -> User \cup {None}]
  /\ boundTo \in [Session -> Client \cup {None}]
  /\ idle \in [Session -> 0 .. IdleCap]
  /\ byUser \in [User -> Session \cup {None}]
  /\ byClient \in [Client -> Session \cup {None}]
  /\ wsClients \subseteq Client /\ closed \subseteq wsClients
  /\ holder \in [Robot -> Client \cup {None}]
  /\ lockAge \in [Robot -> 0 .. LockCap]
  /\ pending \in [Client -> Robot \cup {None}]
  /\ waited \in [Client -> 0 .. BroadcastBound]

(* A user has one session at a time: however logins, logouts, expiries and *)
(* closing sockets interleave, nobody gets a second one beside a live one. *)
OneSessionPerUser ==
  \A s, t \in sessions : userOf[s] = userOf[t] => s = t

(* The lock is taken before the broadcast and the drive target set after   *)
(* it.  In between neither the reaper nor another tab gets hold of the     *)
(* lock, so the command still is the holder's when it is passed on; unless *)
(* the broadcast takes longer than an unused lock lives, as one to a peer  *)
(* that is gone may.                                                       *)
DrivesUnderItsLock ==
  \A c \in Client : phase[c] = "dispatching" =>
    holder[pending[c]] = c \/ waited[c] > LockTimeout

(* Locks end with the socket that took them: a tab that is gone holds      *)
(* none, however its handler was interrupted.                              *)
LocksEndWithTheSocket ==
  \A r \in Robot : holder[r] # None =>
    phase[holder[r]] \in {"serving", "dispatching", "leaving"}

(* A robot its holder no longer asks for (the tab shows another one, sits  *)
(* in the background or hangs) is freed, though the socket stays open.     *)
UnusedLocksAreFreed ==
  \A c \in Client, r \in Robot :
    <>[][~(Heartbeat(c, r) \/ Drive(c, r))]_vars => <>[](holder[r] # c)

(* When the pages of a user are all gone, crashed ones included, the user  *)
(* is not locked out by a session that nobody can close.                   *)
UsersCanReturn ==
  \A u \in User :
    <>[](\A c \in alive : token[c] = None \/ userOf[token[c]] # u)
      => <>[](\A s \in sessions : userOf[s] # u)

(* "the registry check is what makes session-token revocation immediate":  *)
(* a command is passed on only for a tab whose session is live.  It does   *)
(* not hold: handle_ws ignores what _touch_dev_session returns, so a       *)
(* socket that missed the end of its session drives on.                    *)
RevocationIsImmediate ==
  [][\A c \in Client, r \in Robot :
       Drive(c, r) => token[c] \in sessions]_vars
=============================================================================
