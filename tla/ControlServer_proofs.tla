----------------------- MODULE ControlServer_proofs -----------------------
(***************************************************************************)
(* Proofs about ControlServer, for any number of tabs, browsers, users,    *)
(* robots and sessions and for any timeouts.                               *)
(***************************************************************************)
EXTENDS ControlServer, TLAPS

USE DEF Lesser, IdleCap, LockCap, Phases

(* The shared pieces of the actions keep their variables well typed.       *)
LEMMA CloseSessionsTypes ==
  ASSUME TypeOK, NEW S, NEW popped, CloseSessions(S, popped)
  PROVE  /\ sessions' \subseteq Session
         /\ userOf' \in [Session -> User \cup {None}]
         /\ boundTo' \in [Session -> Client \cup {None}]
         /\ idle' \in [Session -> 0 .. IdleCap]
         /\ byUser' \in [User -> Session \cup {None}]
         /\ byClient' \in [Client -> Session \cup {None}]
BY TimesAreNatural DEF TypeOK, CloseSessions

LEMMA SeenOnTypes ==
  ASSUME TypeOK, NEW c \in Client, SeenOn(c)
  PROVE  /\ sessions' \subseteq Session
         /\ userOf' \in [Session -> User \cup {None}]
         /\ boundTo' \in [Session -> Client \cup {None}]
         /\ idle' \in [Session -> 0 .. IdleCap]
         /\ byUser' \in [User -> Session \cup {None}]
         /\ byClient' \in [Client -> Session \cup {None}]
BY TimesAreNatural DEF TypeOK, SeenOn, Seen, sessionVars

LEMMA TypeInitially == Init => TypeOK
BY TimesAreNatural DEF Init, TypeOK

LEMMA TypeStep == TypeOK /\ [Next]_vars => TypeOK'
<1> SUFFICES ASSUME TypeOK, [Next]_vars PROVE TypeOK'
  OBVIOUS
<1> USE TimesAreNatural
<1>1. ASSUME NEW c \in Client, Open(c) PROVE TypeOK'
  <2>1. stored[BrowserOf[c]] \in Session \cup {None}
    BY TabsHaveBrowsers DEF TypeOK
  <2> QED BY <1>1, <2>1 DEF Open, TypeOK, sessionVars, socketVars, lockVars, driveVars
<1>2. ASSUME NEW c \in Client, Vanish(c) PROVE TypeOK'
  BY <1>2 DEF Vanish, TypeOK, sessionVars, socketVars, lockVars, driveVars
<1>3. ASSUME NEW c \in Client, Exit(c) PROVE TypeOK'
  BY <1>3 DEF Exit, TypeOK, sessionVars, socketVars, lockVars, driveVars
<1>4. ASSUME NEW c \in Client, Poll(c) PROVE TypeOK'
  BY <1>4 DEF Poll, Seen, TypeOK, pageVars, socketVars, lockVars, driveVars
<1>5. ASSUME NEW c \in Client, Connect(c) PROVE TypeOK'
  <2> DEFINE s == token[c]
             refused == boundTo[s] \notin {None, c} /\ SocketOpen(boundTo[s])
  <2>1. s \in Session
    BY <1>5 DEF Connect, TypeOK
  <2>2. phase' \in [Client -> Phases]
    BY <1>5 DEF Connect, TypeOK
  <2>3. idle' \in [Session -> 0 .. IdleCap]
    BY <1>5 DEF Connect, Seen, TypeOK
  <2>4. boundTo' \in [Session -> Client \cup {None}]
    BY <1>5, <2>1 DEF Connect, TypeOK
  <2>5. byClient' \in [Client -> Session \cup {None}]
    BY <1>5, <2>1 DEF Connect, TypeOK
  <2> QED BY <1>5, <2>2, <2>3, <2>4, <2>5
          DEF Connect, TypeOK, socketVars, lockVars, driveVars
<1>6. ASSUME NEW c \in Client, Message(c) PROVE TypeOK'
  <2>1. CASE OtherMessage(c)
    BY <2>1, SeenOnTypes
    DEF OtherMessage, TypeOK, pageVars, socketVars, lockVars, driveVars
  <2>2. ASSUME NEW r \in Robot, Heartbeat(c, r) PROVE TypeOK'
    BY <2>2, SeenOnTypes
    DEF Heartbeat, TouchLock, TypeOK, pageVars, socketVars, driveVars
  <2>3. ASSUME NEW r \in Robot, Drive(c, r) PROVE TypeOK'
    BY <2>3, SeenOnTypes
    DEF Drive, TouchLock, TypeOK, socketVars, driveVars
  <2>4. CASE BadMessage(c)
    BY <2>4, SeenOnTypes DEF BadMessage, CleanUp, TypeOK, lockVars, driveVars
  <2> QED BY <1>6, <2>1, <2>2, <2>3, <2>4 DEF Message
<1>7. ASSUME NEW c \in Client, Handler(c) PROVE TypeOK'
  <2>1. CASE Prepared(c)
    BY <2>1 DEF Prepared, TypeOK, sessionVars, lockVars, driveVars
  <2>2. CASE PrepareFails(c)
    BY <2>2 DEF PrepareFails, TypeOK, sessionVars, socketVars, lockVars, driveVars
  <2>3. CASE HelloFails(c)
    BY <2>3 DEF HelloFails, TypeOK, sessionVars, lockVars, driveVars
  <2>4. CASE PingTimeout(c)
    BY <2>4 DEF PingTimeout, TypeOK, pageVars, sessionVars, lockVars, driveVars
  <2>5. CASE Dispatch(c)
    BY <2>5 DEF Dispatch, TypeOK, sessionVars, socketVars, lockVars
  <2>6. CASE Leave(c)
    BY <2>6 DEF Leave, CleanUp, TypeOK, sessionVars, lockVars, driveVars
  <2>7. CASE Release(c)
    <3>1. CloseSessions({byClient[c]}, {c})
      BY <2>7 DEF Release
    <3>2. /\ holder' \in [Robot -> Client \cup {None}]
          /\ lockAge' \in [Robot -> 0 .. LockCap]
      BY <2>7 DEF Release, DropLocks, TypeOK
    <3> QED BY <2>7, <3>1, <3>2, CloseSessionsTypes
            DEF Release, TypeOK, socketVars, driveVars
  <2> QED BY <1>7, <2>1, <2>2, <2>3, <2>4, <2>5, <2>6, <2>7 DEF Handler
<1>8. ASSUME NEW c \in Client, NEW u \in User, NEW s \in Session, Login(c, u, s)
      PROVE TypeOK'
  <2>1. stored' \in [Browser -> Session \cup {None}]
    BY <1>8, TabsHaveBrowsers DEF Login, MayLogin, TypeOK
  <2>2. idle' \in [Session -> 0 .. IdleCap] /\ sessions' \subseteq Session
    BY <1>8 DEF Login, TypeOK
  <2>3. byClient' \in [Client -> Session \cup {None}]
    BY <1>8 DEF Login, TypeOK
  <2>4. /\ userOf' \in [Session -> User \cup {None}]
        /\ byUser' \in [User -> Session \cup {None}]
        /\ token' \in [Client -> Session \cup {None}]
    BY <1>8 DEF Login, TypeOK
  <2>5. boundTo' \in [Session -> Client \cup {None}]
    BY <1>8 DEF Login, TypeOK
  <2> QED BY <1>8, <2>1, <2>2, <2>3, <2>4, <2>5
          DEF Login, MayLogin, TypeOK, socketVars, lockVars, driveVars
<1>15. ASSUME NEW c \in Client, NEW u \in User, LoginFails(c, u) PROVE TypeOK'
  <2>1. CloseSessions(Replaced(u), {})
    BY <1>15 DEF LoginFails
  <2> QED BY <1>15, <2>1, CloseSessionsTypes
          DEF LoginFails, TypeOK, pageVars, socketVars, lockVars, driveVars
<1>9. ASSUME NEW s \in Session, Logout(s) PROVE TypeOK'
  <2>1. CloseSessions({s}, {})
    BY <1>9 DEF Logout
  <2>2. closed' \subseteq wsClients'
    BY <1>9 DEF Logout, SocketsOf, TypeOK
  <2> QED BY <1>9, <2>1, <2>2, CloseSessionsTypes
          DEF Logout, TypeOK, lockVars, driveVars
<1>10. ASSUME NEW s \in Session, LoseBeacon(s) PROVE TypeOK'
  BY <1>10 DEF LoseBeacon, TypeOK, sessionVars, socketVars, lockVars, driveVars
<1>11. CASE LockReaper
  BY <1>11 DEF LockReaper, DropLocks, TypeOK, pageVars, sessionVars, socketVars, driveVars
<1>12. CASE SessionReaper
  <2>1. CloseSessions({s \in sessions : ~SessionIsActive(s)}, {})
    BY <1>12 DEF SessionReaper
  <2> QED BY <1>12, <2>1, CloseSessionsTypes
          DEF SessionReaper, TypeOK, pageVars, socketVars, lockVars, driveVars
<1>13. CASE Tick
  <2>1. waited' \in [Client -> 0 .. BroadcastBound]
    BY <1>13 DEF Tick, TypeOK
  <2>2. /\ idle' \in [Session -> 0 .. IdleCap]
        /\ lockAge' \in [Robot -> 0 .. LockCap]
    BY <1>13 DEF Tick, TypeOK
  <2> QED BY <1>13, <2>1, <2>2 DEF Tick, TypeOK, pageVars, socketVars
<1>14. CASE UNCHANGED vars
  BY <1>14 DEF vars, TypeOK, pageVars, sessionVars, socketVars, lockVars, driveVars
<1> QED BY <1>1, <1>2, <1>3, <1>4, <1>5, <1>6, <1>7, <1>8, <1>9, <1>10, <1>11,
           <1>12, <1>13, <1>14, <1>15 DEF Next, Page

(* Every reachable state of the server is of the declared type.            *)
THEOREM TypeCorrect == Spec => []TypeOK
BY TypeInitially, TypeStep, PTL DEF Spec
----------------------------------------------------------------------------
(* One session per user: every live session is the one its user's name     *)
(* maps to.                                                                *)
SessionsAreNamed ==
  \A s \in sessions : userOf[s] \in User /\ byUser[userOf[s]] = s

(* Closing sessions unmaps only the users whose session ends.              *)
LEMMA ClosingKeepsNames ==
  ASSUME TypeOK, SessionsAreNamed, NEW S, NEW popped, CloseSessions(S, popped)
  PROVE  SessionsAreNamed'
BY DEF TypeOK, CloseSessions, SessionsAreNamed

LEMMA NamesStep == TypeOK /\ SessionsAreNamed /\ [Next]_vars => SessionsAreNamed'
<1> SUFFICES ASSUME TypeOK, SessionsAreNamed, [Next]_vars PROVE SessionsAreNamed'
  OBVIOUS
<1>1. ASSUME UNCHANGED <<sessions, userOf, byUser>> PROVE SessionsAreNamed'
  BY <1>1 DEF SessionsAreNamed
<1>2. ASSUME NEW c \in Client, SeenOn(c) PROVE SessionsAreNamed'
  BY <1>1, <1>2 DEF SeenOn, sessionVars
<1>3. ASSUME NEW c \in Client, Release(c) PROVE SessionsAreNamed'
  BY <1>3, ClosingKeepsNames DEF Release
<1>4. ASSUME NEW c \in Client, NEW u \in User, NEW s \in Session, Login(c, u, s)
      PROVE SessionsAreNamed'
  <2>1. s \notin sessions
    BY <1>4, NoneIsNobody DEF Login, SessionsAreNamed
  <2>2. userOf'[s] = u /\ byUser'[u] = s
    BY <1>4 DEF Login, TypeOK
  <2>3. ASSUME NEW t \in sessions', t # s
        PROVE  userOf'[t] \in User /\ byUser'[userOf'[t]] = t
    <3>1. t \in sessions /\ t # byUser[u]
      BY <1>4, <2>3 DEF Login, Replaced
    <3>2. userOf'[t] = userOf[t] /\ userOf[t] # u
      BY <1>4, <2>3, <3>1 DEF Login, TypeOK, SessionsAreNamed
    <3> QED BY <1>4, <3>1, <3>2 DEF Login, TypeOK, SessionsAreNamed
  <2> QED BY <2>2, <2>3 DEF SessionsAreNamed
<1>5. ASSUME NEW s \in Session, Logout(s) PROVE SessionsAreNamed'
  BY <1>5, ClosingKeepsNames DEF Logout
<1>6. CASE SessionReaper
  BY <1>6, ClosingKeepsNames DEF SessionReaper
<1>7. ASSUME NEW c \in Client, Page(c) \/ Connect(c) PROVE SessionsAreNamed'
  BY <1>1, <1>7 DEF Page, Open, Vanish, Exit, Poll, Connect, sessionVars
<1>8. ASSUME NEW c \in Client, Message(c) PROVE SessionsAreNamed'
  BY <1>2, <1>8 DEF Message, OtherMessage, BadMessage, Heartbeat, Drive
<1>9. ASSUME NEW c \in Client, Handler(c) PROVE SessionsAreNamed'
  BY <1>1, <1>3, <1>9 DEF Handler, Prepared, PrepareFails, HelloFails, PingTimeout,
     Dispatch, Leave, sessionVars
<1>10. ASSUME NEW s \in Session, LoseBeacon(s) PROVE SessionsAreNamed'
  BY <1>1, <1>10 DEF LoseBeacon, sessionVars
<1>11. CASE LockReaper \/ Tick \/ UNCHANGED vars
  BY <1>1, <1>11 DEF LockReaper, Tick, vars, sessionVars
<1>12. ASSUME NEW c \in Client, NEW u \in User, LoginFails(c, u) PROVE SessionsAreNamed'
  BY <1>12, ClosingKeepsNames DEF LoginFails
<1> QED BY <1>4, <1>5, <1>6, <1>7, <1>8, <1>9, <1>10, <1>11, <1>12 DEF Next

(* No interleaving of logins, logouts, expiries and closing sockets gives  *)
(* a user two live sessions.                                               *)
THEOREM UsersHaveOneSession == Spec => []OneSessionPerUser
<1>1. Init => SessionsAreNamed
  BY DEF Init, SessionsAreNamed
<1>2. SessionsAreNamed => OneSessionPerUser
  BY DEF SessionsAreNamed, OneSessionPerUser
<1> QED BY <1>1, <1>2, TypeInitially, TypeStep, NamesStep, PTL DEF Spec
----------------------------------------------------------------------------
(* A command that waits for its broadcast: its tab holds the lock, which   *)
(* is not older than the wait, unless that is longer than a lock lives.    *)
WaitingInv ==
  \A c \in Client : phase[c] = "dispatching" =>
    /\ pending[c] \in Robot
    /\ \/ holder[pending[c]] = c /\ lockAge[pending[c]] <= waited[c]
       \/ waited[c] > LockTimeout

(* Outside a dispatch the wait counter is at rest.                         *)
WaitsAreReset ==
  \A c \in Client : phase[c] # "dispatching" => waited[c] = 0

LEMMA TouchKeepsWaiting ==
  ASSUME TypeOK, WaitingInv, NEW c \in Client, NEW r \in Robot,
         MayUse(c, r), TouchLock(r, c), waited' = waited,
         NEW d \in Client, phase[d] = "dispatching", pending'[d] = pending[d]
  PROVE  \/ holder'[pending'[d]] = d /\ lockAge'[pending'[d]] <= waited'[d]
         \/ waited'[d] > LockTimeout
<1> SUFFICES ASSUME ~(waited[d] > LockTimeout)
             PROVE  holder'[pending'[d]] = d /\ lockAge'[pending'[d]] <= waited'[d]
  OBVIOUS
<1>1. c # d
  BY DEF MayUse
<1>2. pending[d] # r
  BY <1>1, NoneIsNobody DEF MayUse, LockedByOther, WaitingInv
<1> QED BY <1>2 DEF TouchLock, TypeOK, WaitingInv

LEMMA WaitingStep ==
  TypeOK /\ WaitingInv /\ WaitsAreReset /\ [Next]_vars => WaitingInv' /\ WaitsAreReset'
<1> SUFFICES ASSUME TypeOK, WaitingInv, WaitsAreReset, [Next]_vars
             PROVE  WaitingInv' /\ WaitsAreReset'
  OBVIOUS
<1>1. ASSUME UNCHANGED <<lockVars, driveVars>>,
             \A d \in Client : phase'[d] = "dispatching" <=> phase[d] = "dispatching"
      PROVE  WaitingInv' /\ WaitsAreReset'
  BY <1>1 DEF WaitingInv, WaitsAreReset, lockVars, driveVars
<1>2. ASSUME NEW c \in Client, NEW r \in Robot, Heartbeat(c, r)
      PROVE  WaitingInv' /\ WaitsAreReset'
  BY <1>2, TouchKeepsWaiting
  DEF Heartbeat, WaitingInv, WaitsAreReset, pageVars, driveVars
<1>3. ASSUME NEW c \in Client, NEW r \in Robot, Drive(c, r)
      PROVE  WaitingInv' /\ WaitsAreReset'
  <2>1. phase[c] = "serving" /\ waited[c] = 0 /\ waited' = waited
    BY <1>3 DEF Drive, MayUse, WaitsAreReset, driveVars
  <2>2. \A d \in Client : d # c => phase'[d] = phase[d] /\ pending'[d] = pending[d]
    BY <1>3 DEF Drive, TypeOK, driveVars
  <2>3. ASSUME NEW d \in Client, d # c, phase'[d] = "dispatching"
        PROVE  /\ pending'[d] \in Robot
               /\ \/ holder'[pending'[d]] = d /\ lockAge'[pending'[d]] <= waited'[d]
                  \/ waited'[d] > LockTimeout
    BY <1>3, <2>1, <2>2, <2>3, TouchKeepsWaiting DEF Drive, WaitingInv
  <2>4. phase'[c] = "dispatching" =>
          pending'[c] = r /\ holder'[r] = c /\ lockAge'[r] = 0
    BY <1>3, <2>1 DEF Drive, TouchLock, TypeOK
  <2>5. WaitingInv'
    BY <2>1, <2>3, <2>4 DEF WaitingInv
  <2>6. WaitsAreReset'
    BY <2>1, <2>2 DEF WaitsAreReset
  <2> QED BY <2>5, <2>6
<1>4. ASSUME NEW c \in Client, Dispatch(c) PROVE WaitingInv' /\ WaitsAreReset'
  <2>1. \A d \in Client : d # c => /\ phase'[d] = phase[d]
                                  /\ pending'[d] = pending[d]
                                  /\ waited'[d] = waited[d]
    BY <1>4 DEF Dispatch, TypeOK
  <2>2. phase'[c] = "serving" /\ waited'[c] = 0
    BY <1>4 DEF Dispatch, TypeOK
  <2> QED BY <1>4, <2>1, <2>2 DEF Dispatch, WaitingInv, WaitsAreReset, lockVars
<1>5. ASSUME NEW c \in Client, Release(c) PROVE WaitingInv' /\ WaitsAreReset'
  <2>1. \A d \in Client : phase'[d] = "dispatching" <=> phase[d] = "dispatching"
    BY <1>5 DEF Release, TypeOK
  <2>2. \A d \in Client : phase[d] = "dispatching" => d # c
    BY <1>5 DEF Release
  <2>3. \A r \in Robot : holder[r] # c => holder'[r] = holder[r] /\ lockAge'[r] = lockAge[r]
    BY <1>5 DEF Release, DropLocks, HeldBy, TypeOK
  <2> QED BY <1>5, <2>1, <2>2, <2>3 DEF Release, WaitingInv, WaitsAreReset, driveVars
<1>6. CASE LockReaper
  <2>1. \A d \in Client : phase[d] = "dispatching" =>
          ~Stale(pending[d]) \/ waited[d] > LockTimeout
    BY TimesAreNatural DEF WaitingInv, Stale, TypeOK
  <2>2. \A r \in Robot : ~Stale(r) => holder'[r] = holder[r] /\ lockAge'[r] = lockAge[r]
    BY <1>6 DEF LockReaper, DropLocks, TypeOK
  <2> QED BY <1>6, <2>1, <2>2
          DEF LockReaper, WaitingInv, WaitsAreReset, pageVars, driveVars
<1>7. CASE Tick
  <2>1. ASSUME NEW d \in Client, phase[d] = "dispatching"
        PROVE  \/ holder'[pending[d]] = d /\ lockAge'[pending[d]] <= waited'[d]
               \/ waited'[d] > LockTimeout
    <3> DEFINE r == pending[d]
    <3>1. waited'[d] = waited[d] + 1 /\ waited[d] \in Nat /\ r \in Robot
      BY <1>7, <2>1, TimesAreNatural DEF Tick, TypeOK, WaitingInv
    <3>2. CASE waited[d] > LockTimeout
      BY <3>1, <3>2, TimesAreNatural
    <3>3. CASE holder[r] = d /\ lockAge[r] <= waited[d]
      <4>1. lockAge[r] \in Nat /\ lockAge'[r] \in Nat /\ lockAge'[r] <= lockAge[r] + 1
        BY <1>7, <3>1, TimesAreNatural DEF Tick, TypeOK
      <4> QED BY <1>7, <3>1, <3>3, <4>1 DEF Tick
    <3> QED BY <2>1, <3>2, <3>3 DEF WaitingInv
  <2>2. WaitsAreReset'
    BY <1>7 DEF Tick, WaitsAreReset, pageVars
  <2> QED BY <1>7, <2>1, <2>2 DEF Tick, WaitingInv, pageVars
<1>8. ASSUME NEW c \in Client, Page(c) \/ Connect(c) \/ OtherMessage(c) \/ BadMessage(c)
      PROVE  WaitingInv' /\ WaitsAreReset'
  <2>1. \A d \in Client : phase'[d] = "dispatching" <=> phase[d] = "dispatching"
    BY <1>8 DEF Page, Open, Vanish, Exit, Poll, Connect, OtherMessage, BadMessage, CleanUp,
                TypeOK, pageVars
  <2> QED BY <1>1, <1>8, <2>1
          DEF Page, Open, Vanish, Exit, Poll, Connect, OtherMessage, BadMessage, CleanUp
<1>9. ASSUME NEW c \in Client,
             \/ Prepared(c) \/ PrepareFails(c) \/ HelloFails(c)
             \/ PingTimeout(c) \/ Leave(c)
      PROVE  WaitingInv' /\ WaitsAreReset'
  <2>1. \A d \in Client : phase'[d] = "dispatching" <=> phase[d] = "dispatching"
    BY <1>9 DEF Prepared, PrepareFails, HelloFails, PingTimeout, Leave, CleanUp, TypeOK,
                pageVars
  <2> QED BY <1>1, <1>9, <2>1
          DEF Prepared, PrepareFails, HelloFails, PingTimeout, Leave, CleanUp
<1>10. ASSUME NEW c \in Client, NEW u \in User, NEW s \in Session, Login(c, u, s)
       PROVE  WaitingInv' /\ WaitsAreReset'
  BY <1>1, <1>10 DEF Login
<1>13. ASSUME NEW c \in Client, NEW u \in User, LoginFails(c, u)
       PROVE  WaitingInv' /\ WaitsAreReset'
  BY <1>1, <1>13 DEF LoginFails, pageVars
<1>11. ASSUME NEW s \in Session, Logout(s) \/ LoseBeacon(s)
       PROVE  WaitingInv' /\ WaitsAreReset'
  BY <1>1, <1>11 DEF Logout, LoseBeacon
<1>12. CASE SessionReaper \/ UNCHANGED vars
  BY <1>1, <1>12 DEF SessionReaper, vars, pageVars
<1> QED BY <1>2, <1>3, <1>4, <1>5, <1>6, <1>7, <1>8, <1>9, <1>10, <1>11, <1>12, <1>13
        DEF Next, Message, Handler

(* However long broadcasts take: a drive command is passed on under the    *)
(* lock its tab took for it, or its broadcast outlasted the lock.          *)
THEOREM CommandsHoldTheirLock == Spec => []DrivesUnderItsLock
<1>1. Init => WaitingInv /\ WaitsAreReset
  BY DEF Init, WaitingInv, WaitsAreReset
<1>2. WaitingInv => DrivesUnderItsLock
  BY DEF WaitingInv, DrivesUnderItsLock
<1> QED BY <1>1, <1>2, TypeInitially, TypeStep, WaitingStep, PTL DEF Spec
----------------------------------------------------------------------------
LEMMA TouchesAreAllowed ==
  ASSUME TypeOK, NEW c \in Client, NEW q \in Robot, MayUse(c, q), TouchLock(q, c),
         NEW r \in Robot, holder'[r] # holder[r]
  PROVE  r = q /\ holder[r] = None /\ phase[c] = "serving" /\ holder'[r] = c
BY DEF MayUse, LockedByOther, TouchLock, TypeOK

(* Only a tab that is being served, or is being cleaned up, holds a lock.  *)
THEOREM LocksEndWithSockets == Spec => []LocksEndWithTheSocket
<1>1. Init => LocksEndWithTheSocket
  BY DEF Init, LocksEndWithTheSocket
<1>2. TypeOK /\ LocksEndWithTheSocket /\ [Next]_vars => LocksEndWithTheSocket'
  <2> SUFFICES ASSUME TypeOK, LocksEndWithTheSocket, [Next]_vars,
                      NEW r \in Robot, holder'[r] # None
               PROVE  phase'[holder'[r]] \in {"serving", "dispatching", "leaving"}
    BY DEF LocksEndWithTheSocket
  <2> DEFINE Served(p) == p \in {"serving", "dispatching", "leaving"}
  <2>1. ASSUME holder'[r] = holder[r],
               \A d \in Client : Served(phase[d]) => Served(phase'[d])
        PROVE  Served(phase'[holder'[r]])
    BY <2>1 DEF LocksEndWithTheSocket, TypeOK
  <2>2. ASSUME NEW c \in Client, NEW q \in Robot, Heartbeat(c, q) \/ Drive(c, q)
        PROVE  Served(phase'[holder'[r]])
    <3>1. \A d \in Client : Served(phase[d]) => Served(phase'[d])
      BY <2>2 DEF Heartbeat, Drive, pageVars, TypeOK
    <3>2. CASE holder'[r] = holder[r]
      BY <2>1, <3>1, <3>2
    <3>3. CASE holder'[r] # holder[r]
      <4>1. holder'[r] = c /\ phase[c] = "serving"
        BY <2>2, <3>3, TouchesAreAllowed DEF Heartbeat, Drive
      <4> QED BY <3>1, <4>1
    <3> QED BY <3>2, <3>3
  <2>3. ASSUME NEW c \in Client, Release(c) PROVE Served(phase'[holder'[r]])
    <3>1. holder'[r] = holder[r] /\ holder[r] # c
      BY <2>3 DEF Release, DropLocks, HeldBy
    <3>2. holder[r] \in Client
      BY <3>1 DEF TypeOK
    <3> QED BY <2>3, <3>1, <3>2 DEF Release, TypeOK, LocksEndWithTheSocket
  <2>4. CASE LockReaper
    BY <2>1, <2>4 DEF LockReaper, DropLocks, pageVars
  <2>5. ASSUME NEW c \in Client, Page(c) \/ Connect(c) \/ OtherMessage(c) \/ BadMessage(c)
        PROVE  Served(phase'[holder'[r]])
    <3>1. \A d \in Client : Served(phase[d]) => Served(phase'[d])
      BY <2>5 DEF Page, Open, Vanish, Exit, Poll, Connect, OtherMessage, BadMessage, CleanUp,
                  TypeOK, pageVars
    <3> QED BY <2>1, <2>5, <3>1
            DEF Page, Open, Vanish, Exit, Poll, Connect, OtherMessage, BadMessage, CleanUp,
                lockVars
  <2>6. ASSUME NEW c \in Client,
               \/ Prepared(c) \/ PrepareFails(c) \/ HelloFails(c)
               \/ PingTimeout(c) \/ Dispatch(c) \/ Leave(c)
        PROVE  Served(phase'[holder'[r]])
    <3>1. \A d \in Client : Served(phase[d]) => Served(phase'[d])
      BY <2>6 DEF Prepared, PrepareFails, HelloFails, PingTimeout, Dispatch, Leave,
         CleanUp, TypeOK, pageVars
    <3> QED BY <2>1, <2>6, <3>1
            DEF Prepared, PrepareFails, HelloFails, PingTimeout, Dispatch, Leave, CleanUp,
                lockVars
  <2>7. ASSUME NEW c \in Client, NEW u \in User, NEW s \in Session, Login(c, u, s)
        PROVE  Served(phase'[holder'[r]])
    BY <2>1, <2>7 DEF Login, lockVars
  <2>10. ASSUME NEW c \in Client, NEW u \in User, LoginFails(c, u)
        PROVE  Served(phase'[holder'[r]])
    BY <2>1, <2>10 DEF LoginFails, pageVars, lockVars
  <2>8. ASSUME NEW s \in Session, Logout(s) \/ LoseBeacon(s)
        PROVE  Served(phase'[holder'[r]])
    BY <2>1, <2>8 DEF Logout, LoseBeacon, lockVars
  <2>9. CASE SessionReaper \/ Tick \/ UNCHANGED vars
    BY <2>1, <2>9 DEF SessionReaper, Tick, vars, pageVars, lockVars
  <2> QED BY <2>2, <2>3, <2>4, <2>5, <2>6, <2>7, <2>8, <2>9, <2>10
          DEF Next, Message, Handler
<1> QED BY <1>1, <1>2, TypeInitially, TypeStep, PTL DEF Spec
=============================================================================
