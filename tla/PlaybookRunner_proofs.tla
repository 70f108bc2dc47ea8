----------------------- MODULE PlaybookRunner_proofs ------------------------
(***************************************************************************)
(* Proofs about PlaybookRunner, for any robots, queues and numbers of      *)
(* commands: what the stop key can cancel, what it ends, and what is       *)
(* reported of a command.                                                  *)
(*                                                                         *)
(* The invariant says, for each place the thread can be at, what it is     *)
(* waiting for there.  An emergency stop takes the thread to the wait for  *)
(* its holds and back, so that wait counts as the place gone on at.        *)
(***************************************************************************)
EXTENDS PlaybookRunner, SequenceFacts, SequenceTheorems, TLAPS

\* s is a sequence, of whatever it holds.
IsSequence(s) == s \in Seq(ToSet(s))

Place == IF pc = "hold" THEN resume ELSE pc

\* Where a dispatch is under way.
Dispatching == {"dispatch", "sending", "send_over", "awaiting", "await_over"}

Awaits(r, mode) == waiting[r] # None /\ waiting[r].mode = mode

IsWait(w) ==
  /\ w = [command |-> w.command, mode |-> w.mode]
  /\ w.mode \in {"topic", "send", "result"}

Kept(r) == Awaits(r, "result") => handles[r] = waiting[r].command

Shapes ==
  /\ inbox = [r \in Robot |-> inbox[r]] /\ busy = [r \in Robot |-> busy[r]]
  /\ \A r \in Robot : IsSequence(inbox[r])
  /\ IsSequence(phases)
  /\ \A r \in Robot : waiting[r] # None => IsWait(waiting[r])

\* The inductive invariant.
RunnerInv ==
  /\ Shapes
  /\ pc = "hold" => resume \in Menu \cup {"send_over", "await_over", "top"}
  /\ Place \in Dispatching => phases # <<>>
  /\ Place \in Menu \cup {"dispatch", "report"} \/ (pc = "hold" /\ resume = "top")
       => Awaited = {}
  /\ Place \in {"sending", "send_over"} => \A r \in Robot : ~Awaits(r, "result")
  /\ Place \in {"awaiting", "await_over"} => \A r \in Robot : ~Awaits(r, "send")
  /\ Place # "await_over" => \A r \in Robot : Kept(r)
  /\ Place \in {"top", "spin"} => \A r \in Awaited : todo[r] # <<>>
  /\ pc = "spin" => ~stopped
  /\ stopped /\ Place = "top" => \A r \in Robot : todo[r] = <<>>

-----------------------------------------------------------------------------
(* Sequences of anything.                                                  *)

LEMMA Sequences ==
  ASSUME NEW S, NEW s \in Seq(S)
  PROVE  IsSequence(s) /\ ToSet(s) \subseteq S
<1>1. Len(s) \in Nat /\ s \in [1 .. Len(s) -> S] /\ DOMAIN s = 1 .. Len(s)
  OBVIOUS
<1>2. s \in [1 .. Len(s) -> ToSet(s)] /\ ToSet(s) \subseteq S
  BY <1>1 DEF ToSet
<1> QED BY <1>1, <1>2 DEF IsSequence

LEMMA Appended ==
  ASSUME NEW s, IsSequence(s), NEW x
  PROVE  /\ IsSequence(Append(s, x))
         /\ ToSet(Append(s, x)) \subseteq ToSet(s) \cup {x}
<1> DEFINE T == ToSet(s) \cup {x}
<1>1. s \in Seq(T)
  <2>1. Len(s) \in Nat /\ s \in [1 .. Len(s) -> ToSet(s)]
    BY DEF IsSequence
  <2>2. s \in [1 .. Len(s) -> T]
    BY <2>1
  <2> QED BY <2>1, <2>2
<1>2. Append(s, x) \in Seq(T)
  BY <1>1
<1> QED BY <1>2, Sequences

LEMMA Taken ==
  ASSUME NEW s, IsSequence(s), s # <<>>
  PROVE  /\ IsSequence(Tail(s)) /\ ToSet(Tail(s)) \subseteq ToSet(s)
         /\ Head(s) \in ToSet(s)
         /\ Len(s) > 1 => Tail(s) # <<>>
<1> DEFINE T == ToSet(s)
<1>1. s \in Seq(T)
  BY DEF IsSequence
<1> HIDE DEF T
<1>2. Tail(s) \in Seq(T) /\ Head(s) \in T /\ Len(Tail(s)) = Len(s) - 1
  BY <1>1
<1>3. Len(s) > 1 => Tail(s) # <<>>
  <2>1. Len(<<>>) = 0
    OBVIOUS
  <2>2. Tail(s) = <<>> => Len(s) - 1 = 0
    BY <1>2, <2>1
  <2>3. Len(s) \in Nat
    BY <1>1
  <2> QED BY <2>2, <2>3
<1> QED BY <1>2, <1>3, Sequences DEF T

LEMMA Waits ==
  /\ \A c, m : /\ [command |-> c, mode |-> m].command = c
               /\ [command |-> c, mode |-> m].mode = m
  /\ \A c, m : m \in {"topic", "send", "result"} => IsWait([command |-> c, mode |-> m])
  /\ \A w : IsWait(w) => [w EXCEPT !.mode = "result"] = [command |-> w.command, mode |-> "result"]
<1>1. \A c, m : /\ [command |-> c, mode |-> m].command = c
               /\ [command |-> c, mode |-> m].mode = m
  OBVIOUS
<1>2. \A c, m : m \in {"topic", "send", "result"} => IsWait([command |-> c, mode |-> m])
  BY <1>1 DEF IsWait
<1>3. ASSUME NEW w, IsWait(w)
      PROVE  [w EXCEPT !.mode = "result"] = [command |-> w.command, mode |-> "result"]
  <2>1. PICK c, m : w = [command |-> c, mode |-> m] /\ c = w.command
    BY <1>3 DEF IsWait
  <2> QED BY <2>1
<1> QED BY <1>1, <1>2, <1>3

LEMMA NoneIsASequence == IsSequence(<<>>)
BY DEF IsSequence

-----------------------------------------------------------------------------
(* What a step gives: the invariant again, nothing for a robot after a     *)
(* stop, and reports that are deserved.                                    *)

Ended == stopped /\ phases = <<>> => NothingNew

Deserved ==
  \A r \in Awaited :
    \/ waiting'[r] = waiting[r]
    \/ <<r, waiting[r].command>> \in unanswered'
    \/ \E o \in Answer : <<r, waiting[r].command, o>> \in replies

Good == RunnerInv' /\ Ended /\ Deserved

LEMMA InvInitially == Init => RunnerInv
BY NoneIsASequence
   DEF Init, RunnerInv, Shapes, Place, Menu, Dispatching, Awaited, Awaits, Kept

\* What the thread knows stays as it is; robots may take and forget commands.
LEMMA ThreadRests ==
  ASSUME RunnerInv, UNCHANGED <<pc, resume, phases, todo, waiting, handles, stopped>>,
         inbox' = [r \in Robot |-> inbox'[r]], busy' = [r \in Robot |-> busy'[r]],
         \A r \in Robot : IsSequence(inbox'[r]),
         \A r \in Robot : OnItsWay(r)' \subseteq OnItsWay(r)
  PROVE  Good
<1>1. Shapes'
  BY DEF RunnerInv, Shapes
<1>2. RunnerInv'
  BY <1>1 DEF RunnerInv, Place, Awaited, Awaits, Kept
<1>3. Ended /\ Deserved
  BY DEF Ended, NothingNew, Deserved
<1> QED BY <1>2, <1>3 DEF Good

\* A choice in a menu changes nothing of what was sent.
LEMMA SameInboxes ==
  ASSUME UNCHANGED <<inbox, busy>> PROVE NothingNew
BY DEF NothingNew, OnItsWay

LEMMA RobotSteps == RunnerInv /\ RobotNext => Good
<1> SUFFICES ASSUME RunnerInv, NEW r \in Robot,
                    \/ \E accepts \in BOOLEAN : Take(r, accepts)
                    \/ Finish(r) \/ Crash(r) \/ Rejoin(r)
             PROVE  Good
  BY DEF RobotNext
<1>0. /\ inbox = [s \in Robot |-> inbox[s]] /\ busy = [s \in Robot |-> busy[s]]
      /\ \A s \in Robot : IsSequence(inbox[s])
  BY DEF RunnerInv, Shapes
<1>1. ASSUME NEW accepts \in BOOLEAN, Take(r, accepts) PROVE Good
  <2>1. /\ UNCHANGED <<pc, resume, phases, todo, waiting, handles, stopped>>
        /\ inbox[r] # <<>>
        /\ inbox' = [inbox EXCEPT ![r] = Tail(@)]
        /\ busy' = [busy EXCEPT ![r] = IF accepts THEN Head(inbox[r]) ELSE None]
    BY <1>1 DEF Take, progress
  <2>2. /\ IsSequence(Tail(inbox[r])) /\ ToSet(Tail(inbox[r])) \subseteq ToSet(inbox[r])
        /\ Head(inbox[r]) \in ToSet(inbox[r])
    BY <1>0, <2>1, Taken
  <2>3. /\ inbox'[r] = Tail(inbox[r]) /\ busy'[r] \in {Head(inbox[r]), None}
        /\ \A s \in Robot \ {r} : inbox'[s] = inbox[s] /\ busy'[s] = busy[s]
        /\ inbox' = [s \in Robot |-> inbox'[s]] /\ busy' = [s \in Robot |-> busy'[s]]
    BY <1>0, <2>1
  <2>4. \A s \in Robot : IsSequence(inbox'[s])
    BY <1>0, <2>2, <2>3
  <2>5. \A s \in Robot : OnItsWay(s)' \subseteq OnItsWay(s)
    BY <2>2, <2>3 DEF OnItsWay
  <2> QED BY <2>1, <2>3, <2>4, <2>5, ThreadRests
<1>2. CASE Finish(r) \/ Crash(r)
  <2>1. /\ UNCHANGED <<pc, resume, phases, todo, waiting, handles, stopped>>
        /\ inbox' \in {inbox, [inbox EXCEPT ![r] = <<>>]}
        /\ busy' = [busy EXCEPT ![r] = None]
    BY <1>2 DEF Finish, Crash, progress
  <2>2. /\ inbox'[r] \in {inbox[r], <<>>} /\ busy'[r] = None
        /\ \A s \in Robot \ {r} : inbox'[s] = inbox[s] /\ busy'[s] = busy[s]
        /\ inbox' = [s \in Robot |-> inbox'[s]] /\ busy' = [s \in Robot |-> busy'[s]]
    BY <1>0, <2>1
  <2>3. \A s \in Robot : IsSequence(inbox'[s])
    BY <1>0, <2>2, NoneIsASequence
  <2>4. \A s \in Robot : OnItsWay(s)' \subseteq OnItsWay(s)
    BY <2>2 DEF OnItsWay, ToSet
  <2> QED BY <2>1, <2>2, <2>3, <2>4, ThreadRests
<1>3. CASE Rejoin(r)
  <2>1. UNCHANGED <<pc, resume, phases, todo, waiting, handles, stopped, inbox, busy>>
    BY <1>3 DEF Rejoin, progress
  <2> QED BY <1>0, <2>1, ThreadRests DEF OnItsWay
<1> QED BY <1>1, <1>2, <1>3

-----------------------------------------------------------------------------
(* The operator.                                                           *)

\* From a menu to a menu or to a playbook; nothing is awaited there.
LEMMA LeavesMenu ==
  ASSUME RunnerInv, pc \in Menu, pc' \in Menu \cup {"top", "dispatch"},
         UNCHANGED <<waiting, inbox, busy>>,
         IsSequence(phases'), pc' = "dispatch" => phases' # <<>>,
         pc' = "top" => ~stopped'
  PROVE  Good
<1>1. pc # "hold" /\ pc' # "hold" /\ Awaited = {}
  BY DEF RunnerInv, Place, Menu
<1>2. \A r \in Robot : waiting'[r] = None
  BY <1>1 DEF Awaited
<1>3. Shapes'
  BY <1>2 DEF RunnerInv, Shapes
<1>4. RunnerInv'
  BY <1>1, <1>2, <1>3 DEF RunnerInv, Place, Menu, Dispatching, Awaited, Awaits, Kept
<1>5. Ended /\ Deserved
  BY <1>1, SameInboxes DEF Ended, Deserved
<1> QED BY <1>4, <1>5 DEF Good

LEMMA MenuSteps ==
  RunnerInv /\ OperatorNext => Good \/ Stop
<1> SUFFICES ASSUME RunnerInv, OperatorNext PROVE Good \/ Stop
  OBVIOUS
<1>0. IsSequence(phases)
  BY DEF RunnerInv, Shapes
<1>1. ASSUME NEW r \in Robot \cup {None}, SelectTarget(r) PROVE Good
  BY <1>0, <1>1, LeavesMenu DEF SelectTarget, AtMenu, progress, robots, Menu
<1>2. ASSUME NEW n \in Nat \ {0}, NEW first, Playbook(n, first) PROVE Good
  <2>1. /\ pc = "main" /\ pc' = "dispatch" /\ UNCHANGED <<waiting, inbox, busy>>
        /\ phases' = [i \in 1 .. n |-> [run |-> runs + 1, step |-> 1, part |-> first + i - 1]]
    BY <1>2 DEF Playbook, AtMenu, robots
  <2> DEFINE T == {[run |-> runs + 1, step |-> 1, part |-> first + i - 1] : i \in 1 .. n}
  <2>2. phases' \in [1 .. n -> T]
    BY <2>1
  <2>3. IsSequence(phases') /\ phases' # <<>>
    <3> HIDE DEF T
    <3>1. phases' \in Seq(T) /\ DOMAIN phases' = 1 .. n
      BY <2>2
    <3> QED BY <3>1, Sequences
  <2> QED BY <2>1, <2>3, LeavesMenu DEF Menu
<1>3. CASE MoveXY \/ ExecuteAll \/ TransitDistance \/ RotateDegrees
  BY <1>2, <1>3, RobotsAndEntries DEF MoveXY, ExecuteAll, TransitDistance, RotateDegrees
<1>4. CASE OpenSequence \/ Back
  BY <1>0, <1>4, LeavesMenu DEF OpenSequence, Back, AtMenu, progress, robots, Menu
<1>5. ASSUME NEW new, Edit(new) PROVE Good
  BY <1>0, <1>5, LeavesMenu DEF Edit, AtMenu, progress, robots, Menu
<1>6. CASE Execute
  BY <1>0, <1>6, LeavesMenu DEF Execute, AtMenu, robots, Menu
<1>7. CASE Clear \/ DeleteLast
  BY <1>5, <1>7 DEF Clear, DeleteLast
<1>8. ASSUME NEW e \in Entry,
             Add(e) \/ \E i \in 1 .. MaxQueue : Update(i, e)
      PROVE  Good
  BY <1>5, <1>8 DEF Add, Update
<1>9. ASSUME \/ \E i \in 1 .. MaxQueue : Delete(i)
             \/ \E step \in Preset, append \in BOOLEAN : Load(<<step>>, append)
      PROVE  Good
  BY <1>5, <1>9 DEF Delete, Load
<1> QED
  BY <1>1, <1>3, <1>4, <1>6, <1>7, <1>8, <1>9 DEF OperatorNext

\* A stop ends a sequence; it leaves a dispatch its waits.
LEMMA StopStep == RunnerInv /\ Stop => Good
<1> SUFFICES ASSUME RunnerInv, Stop PROVE Good
  OBVIOUS
<1> DEFINE hold == [run |-> 0, step |-> 0, part |-> stops + 1]
<1>1. /\ pc \in Menu \cup {"sending", "awaiting", "spin"}
      /\ stopped' /\ UNCHANGED <<phases, handles, busy, replies>>
      /\ unanswered' = unanswered \cup ReportStopped
      /\ todo' = CommandsLeft
      /\ waiting' = IF pc = "spin" THEN [r \in Robot |-> None] ELSE waiting
      /\ inbox' = [r \in Robot |-> IF r \in reachable THEN Append(inbox[r], hold)
                                   ELSE inbox[r]]
      /\ resume' = AfterStop(pc) /\ pc' \in {"hold", AfterStop(pc)}
  BY DEF Stop, Spinning
<1>2. /\ Place = pc /\ Place' = AfterStop(pc)
      /\ AfterStop(pc) \in Menu \cup {"send_over", "await_over", "top"}
      /\ pc' # "spin"
  BY <1>1 DEF Place, AfterStop, Menu
<1>3. \A r \in Robot : /\ IsSequence(inbox'[r])
                       /\ ToSet(inbox'[r]) \subseteq ToSet(inbox[r]) \cup {hold}
  BY <1>1, Appended DEF RunnerInv, Shapes
<1>4. \A r \in Robot : waiting'[r] \in {waiting[r], None}
  BY <1>1
<1>5. Shapes'
  BY <1>1, <1>3, <1>4 DEF RunnerInv, Shapes
<1>6. pc = "spin" => /\ \A r \in Robot : waiting'[r] = None /\ todo'[r] = <<>>
                     /\ Place' = "top"
  BY <1>1, <1>2 DEF CommandsLeft, AfterStop
<1>7. pc # "spin" => waiting' = waiting /\ Place' # "top" /\ pc' # "top"
  BY <1>1, <1>2 DEF AfterStop, Menu
<1>8. RunnerInv'
  <2>1. CASE pc = "spin"
    BY <1>1, <1>2, <1>5, <1>6, <2>1
       DEF RunnerInv, Place, Awaited, Awaits, Kept, Dispatching, AfterStop
  <2>2. CASE pc # "spin"
    <3>1. CASE pc \in Menu
      BY <1>1, <1>2, <1>5, <1>7, <2>2, <3>1
         DEF RunnerInv, Place, Awaited, Awaits, Kept, Dispatching, AfterStop, Menu
    <3>2. CASE pc \in {"sending", "awaiting"}
      BY <1>1, <1>2, <1>5, <1>7, <2>2, <3>2
         DEF RunnerInv, Place, Awaited, Awaits, Kept, Dispatching, AfterStop, Menu
    <3> QED BY <1>1, <2>2, <3>1, <3>2
  <2> QED BY <2>1, <2>2
<1>9. Ended
  BY <1>1, <1>3 DEF Ended, NothingNew, OnItsWay, IsHold
<1>10. Deserved
  <2>1. pc = "spin" => \A r \in Awaited : <<r, waiting[r].command>> \in unanswered'
    BY <1>1 DEF ReportStopped
  <2> QED BY <1>7, <2>1 DEF Deserved
<1> QED BY <1>8, <1>9, <1>10 DEF Good

-----------------------------------------------------------------------------
(* The thread.                                                             *)

\* Answers are taken, and what is too late is given up.
LEMMA Settled ==
  ASSUME RunnerInv, NEW heard \in SUBSET Robot, NEW late \in SUBSET Awaited,
         Settle(heard, late)
  PROVE  /\ \A r \in heard \cup late : ~Awaits(r, "send")' /\ (~Awaits(r, "send") => waiting'[r] = None)
         /\ \A r \in Robot \ (heard \cup late) :
              waiting'[r] = waiting[r] /\ handles'[r] = handles[r]
         /\ \A r \in Robot : Kept(r) => Kept(r)'
         /\ \A r \in Robot : waiting'[r] # None => IsWait(waiting'[r])
         /\ \A r \in Robot : waiting'[r] # None => r \in Awaited
         /\ Deserved
<1> DEFINE accepted == {r \in heard : "accepted" \in Said(r)}
           over == (heard \cup late) \ accepted
<1>1. /\ heard \subseteq Answering
      /\ unanswered' = unanswered \cup {<<r, waiting[r].command>> : r \in late}
      /\ \A r \in Robot :
           /\ handles'[r] = IF r \in accepted THEN waiting[r].command
                            ELSE IF r \in over /\ waiting[r].mode = "result" THEN None
                            ELSE handles[r]
           /\ waiting'[r] = IF r \in over THEN None
                            ELSE IF r \in accepted THEN [waiting[r] EXCEPT !.mode = "result"]
                            ELSE waiting[r]
  BY DEF Settle, KeepHandles
<1>2. heard \subseteq Awaited /\ late \subseteq Robot /\ \A r \in heard : Said(r) # {}
  BY <1>1 DEF Answering, Awaited
<1>3. \A r \in Awaited : IsWait(waiting[r])
  BY DEF RunnerInv, Shapes, Awaited
<1>4. \A r \in accepted : Awaits(r, "send")
  BY <1>2 DEF Said, Expected, Awaits, Awaited
<1>5. \A r \in accepted : [waiting[r] EXCEPT !.mode = "result"]
                            = [command |-> waiting[r].command, mode |-> "result"]
  BY <1>2, <1>3, Waits
<1>6. \A r \in accepted :
        /\ waiting'[r] = [command |-> waiting[r].command, mode |-> "result"]
        /\ waiting'[r].command = waiting[r].command /\ waiting'[r].mode = "result"
        /\ IsWait(waiting'[r])
        /\ handles'[r] = waiting[r].command
  <2> SUFFICES ASSUME NEW r \in accepted
               PROVE  /\ waiting'[r] = [command |-> waiting[r].command, mode |-> "result"]
                      /\ waiting'[r].command = waiting[r].command
                      /\ waiting'[r].mode = "result" /\ IsWait(waiting'[r])
                      /\ handles'[r] = waiting[r].command
    OBVIOUS
  <2>1. /\ waiting'[r] = [command |-> waiting[r].command, mode |-> "result"]
        /\ handles'[r] = waiting[r].command
    BY <1>1, <1>5
  <2>2. /\ [command |-> waiting[r].command, mode |-> "result"].command = waiting[r].command
        /\ [command |-> waiting[r].command, mode |-> "result"].mode = "result"
        /\ IsWait([command |-> waiting[r].command, mode |-> "result"])
    BY Waits
  <2> QED BY <2>1, <2>2
<1>7. \A r \in over : waiting'[r] = None
  BY <1>1, <1>2 DEF Awaited
<1>8. \A r \in Robot \ (heard \cup late) :
        waiting'[r] = waiting[r] /\ handles'[r] = handles[r]
  BY <1>1
<1>9. heard \cup late = accepted \cup over
  OBVIOUS
<1>10. \A r \in heard \cup late : ~Awaits(r, "send")' /\ (~Awaits(r, "send") => waiting'[r] = None)
  <2>1. \A r \in accepted : ~Awaits(r, "send")' /\ Awaits(r, "send")
    BY <1>4, <1>6 DEF Awaits
  <2>2. \A r \in over : ~Awaits(r, "send")' /\ waiting'[r] = None
    BY <1>7 DEF Awaits
  <2> QED BY <1>9, <2>1, <2>2
<1>11. \A r \in Robot : Kept(r) => Kept(r)'
  <2>1. \A r \in accepted : Kept(r)'
    BY <1>6 DEF Kept
  <2>2. \A r \in over : Kept(r)'
    BY <1>7 DEF Kept, Awaits
  <2>3. \A r \in Robot \ (heard \cup late) : Kept(r) => Kept(r)'
    BY <1>8 DEF Kept, Awaits
  <2> QED BY <1>9, <2>1, <2>2, <2>3
<1>12. /\ \A r \in Robot : waiting'[r] # None => IsWait(waiting'[r])
  BY <1>6, <1>7, <1>8, <1>9 DEF RunnerInv, Shapes
<1>13. Deserved
  <2>1. \A r \in heard : \E o \in Answer : <<r, waiting[r].command, o>> \in replies
    BY <1>2 DEF Said, Expected, Answer
  <2>2. \A r \in late : <<r, waiting[r].command>> \in unanswered'
    BY <1>1
  <2>3. \A r \in Awaited \ (heard \cup late) : waiting'[r] = waiting[r]
    BY <1>8 DEF Awaited
  <2> QED BY <2>1, <2>2, <2>3 DEF Deserved
<1>14. \A r \in Robot : waiting'[r] # None => r \in Awaited
  BY <1>2, <1>8 DEF Awaited
<1> QED BY <1>8, <1>10, <1>11, <1>12, <1>13, <1>14

\* A command goes out.
LEMMA Sending ==
  ASSUME RunnerInv, NEW to, NEW command, NEW absent, Sent(to, command, absent),
         \A r \in Robot : r \in to => waiting[r] = None
  PROVE  /\ inbox' = [r \in Robot |-> inbox'[r]] /\ \A r \in Robot : IsSequence(inbox'[r])
         /\ \A r \in Robot : waiting'[r] = waiting[r] \/
              /\ r \in to \ absent
              /\ IsWait(waiting'[r])
              /\ waiting'[r].mode \in {"topic", "send"}
         /\ Deserved
<1>1. /\ inbox' = [r \in Robot |-> IF r \in to \ absent
                               THEN Append(inbox[r], command[r]) ELSE inbox[r]]
      /\ \A r \in Robot : waiting'[r] =
           IF r \notin to \ absent THEN waiting[r]
           ELSE [command |-> command[r],
                 mode |-> IF r \in ActionRobot THEN "send" ELSE "topic"]
  BY DEF Sent
<1>2. \A r \in Robot : IsSequence(inbox'[r])
  BY <1>1, Appended DEF RunnerInv, Shapes
<1>3. inbox' = [r \in Robot |-> inbox'[r]]
  BY <1>1
<1>4. \A r \in Robot : r \notin to \ absent => waiting'[r] = waiting[r]
  BY <1>1
<1>5. \A r \in Robot : r \in to \ absent =>
        /\ IsWait(waiting'[r])
        /\ waiting'[r].mode \in {"topic", "send"}
  <2> SUFFICES ASSUME NEW r \in Robot, r \in to \ absent
               PROVE  IsWait(waiting'[r]) /\ waiting'[r].mode \in {"topic", "send"}
    OBVIOUS
  <2>1. PICK m \in {"topic", "send"} : waiting'[r] = [command |-> command[r], mode |-> m]
    BY <1>1
  <2>2. /\ IsWait([command |-> command[r], mode |-> m])
        /\ [command |-> command[r], mode |-> m].mode = m
    BY Waits
  <2> QED BY <2>1, <2>2
<1>6. Deserved
  BY <1>4 DEF Deserved, Awaited
<1> QED BY <1>2, <1>3, <1>4, <1>5, <1>6

LEMMA DispatchStep ==
  ASSUME RunnerInv, NEW absent \in SUBSET Robot, Dispatch(absent)
  PROVE  Good
<1> DEFINE to == IF phases[1].part = 0 THEN detected \cap reachable ELSE Targets
           command == [r \in Robot |-> phases[1]]
<1>1. /\ pc = "dispatch"
      /\ pc' = IF to \subseteq absent THEN "await_over" ELSE "sending"
      /\ Sent(to, command, absent)
      /\ UNCHANGED <<resume, phases, todo, handles, stopped, busy, replies>>
  BY DEF Dispatch
<1>2. Place = "dispatch" /\ Place' = pc' /\ pc' # "hold" /\ pc' # "spin" /\ pc' # "top"
  BY <1>1 DEF Place
<1>3. phases # <<>> /\ \A r \in Robot : waiting[r] = None
  BY <1>2 DEF RunnerInv, Dispatching, Awaited
<1> HIDE DEF to, command
<1>4. /\ inbox' = [r \in Robot |-> inbox'[r]] /\ \A r \in Robot : IsSequence(inbox'[r])
      /\ \A r \in Robot : waiting'[r] = waiting[r] \/
           /\ r \in to \ absent
           /\ IsWait(waiting'[r])
           /\ waiting'[r].mode \in {"topic", "send"}
      /\ Deserved
  BY <1>1, <1>3, Sending
<1>5. Shapes'
  BY <1>1, <1>4 DEF RunnerInv, Shapes
<1>6. \A r \in Robot : ~Awaits(r, "result")' /\ Kept(r)'
  BY <1>3, <1>4 DEF Awaits, Kept
<1>7. pc' = "await_over" => \A r \in Robot : ~Awaits(r, "send")'
  BY <1>1, <1>3, <1>4 DEF Awaits
<1>8. RunnerInv'
  BY <1>1, <1>2, <1>3, <1>5, <1>6, <1>7 DEF RunnerInv, Dispatching, Menu
<1>9. Ended
  BY <1>3 DEF Ended
<1> QED BY <1>4, <1>8, <1>9 DEF Good

LEMMA EndSendingStep ==
  ASSUME RunnerInv, NEW heard \in SUBSET Robot, EndSending(heard)
  PROVE  Good
<1> DEFINE sent == {r \in Awaited : waiting[r].mode = "send"}
           late == sent \ heard
<1>1. /\ pc \in {"sending", "send_over"} /\ heard \subseteq sent
      /\ Settle(heard, late)
      /\ pc' = IF \A r \in Robot : waiting'[r] = None THEN "await_over" ELSE "awaiting"
      /\ UNCHANGED <<resume, phases, todo, stopped, inbox, busy>>
  BY DEF EndSending
<1>2. Place = pc /\ Place' = pc' /\ pc' \in {"awaiting", "await_over"}
  BY <1>1 DEF Place
<1>3. phases # <<>> /\ \A r \in Robot : Kept(r)
  BY <1>1, <1>2 DEF RunnerInv, Dispatching
<1>4. late \in SUBSET Awaited /\ heard \cup late = sent
  BY <1>1
<1>5. \A r \in Robot : r \notin sent => ~Awaits(r, "send")
  BY DEF Awaits, Awaited
<1> HIDE DEF late
<1>6. /\ \A r \in heard \cup late : ~Awaits(r, "send")'
      /\ \A r \in Robot \ (heard \cup late) :
           waiting'[r] = waiting[r] /\ handles'[r] = handles[r]
      /\ \A r \in Robot : Kept(r) => Kept(r)'
      /\ \A r \in Robot : waiting'[r] # None => IsWait(waiting'[r])
      /\ Deserved
  BY <1>1, <1>4, Settled
<1>7. \A r \in Robot : ~Awaits(r, "send")' /\ Kept(r)'
  BY <1>3, <1>4, <1>5, <1>6 DEF Awaits
<1>8. Shapes'
  BY <1>1, <1>6 DEF RunnerInv, Shapes
<1>9. RunnerInv'
  BY <1>1, <1>2, <1>3, <1>7, <1>8 DEF RunnerInv, Dispatching, Menu
<1>10. Ended
  BY <1>3 DEF Ended
<1> QED BY <1>6, <1>9, <1>10 DEF Good

LEMMA EndAwaitingStep ==
  ASSUME RunnerInv, NEW heard \in SUBSET Robot, EndAwaiting(heard)
  PROVE  Good
<1> DEFINE late == Awaited \ heard
<1>1. /\ pc \in {"awaiting", "await_over"}
      /\ Settle(heard, late)
      /\ phases' = Tail(phases)
      /\ pc' = IF Len(phases) > 1 THEN "dispatch" ELSE "report"
      /\ UNCHANGED <<resume, todo, stopped, inbox, busy>>
  BY DEF EndAwaiting
<1>2. Place = pc /\ Place' = pc' /\ pc' \in {"dispatch", "report"}
  BY <1>1 DEF Place
<1>3. phases # <<>> /\ IsSequence(phases) /\ \A r \in Robot : ~Awaits(r, "send")
  BY <1>1, <1>2 DEF RunnerInv, Dispatching, Shapes
<1>4. IsSequence(phases') /\ (pc' = "dispatch" => phases' # <<>>)
  <2>1. IsSequence(Tail(phases))
    BY <1>3, Taken
  <2>2. Len(phases) > 1 => Tail(phases) # <<>>
    BY <1>3, Taken
  <2> QED BY <1>1, <2>1, <2>2
<1>5. Settle(heard, late) /\ late \in SUBSET Awaited
  BY <1>1
<1>6. \A r \in Robot : r \notin heard \cup late => waiting[r] = None
  BY DEF Awaited
<1> HIDE DEF late
<1>7. /\ \A r \in heard \cup late :
           ~Awaits(r, "send")' /\ (~Awaits(r, "send") => waiting'[r] = None)
      /\ \A r \in Robot \ (heard \cup late) :
           waiting'[r] = waiting[r] /\ handles'[r] = handles[r]
      /\ Deserved
  BY <1>5, Settled
<1>8. \A r \in Robot : waiting'[r] = None
  BY <1>3, <1>6, <1>7
<1>9. Shapes'
  BY <1>1, <1>4, <1>8 DEF RunnerInv, Shapes
<1>10. RunnerInv'
  BY <1>1, <1>2, <1>4, <1>8, <1>9
     DEF RunnerInv, Dispatching, Menu, Awaited, Awaits, Kept
<1>11. Ended
  BY <1>3 DEF Ended
<1> QED BY <1>7, <1>10, <1>11 DEF Good

LEMMA StartStep ==
  ASSUME RunnerInv, NEW absent \in SUBSET Robot, Start(absent)
  PROVE  Good
<1> DEFINE command == [r \in Robot |-> IF r \in Idle THEN Head(todo[r]) ELSE None]
<1>1. /\ pc = "top" /\ pc' = "spin" /\ \E r \in Robot : todo[r] # <<>>
      /\ Sent(Idle, command, absent)
      /\ \A r \in Robot : r \notin absent => todo'[r] = todo[r]
      /\ UNCHANGED <<resume, phases, handles, stopped, busy, replies>>
  BY DEF Start
<1>2. Place = "top" /\ Place' = "spin" /\ pc' # "hold"
  BY <1>1 DEF Place
<1>3. ~stopped /\ \A r \in Robot : Kept(r)
  BY <1>1, <1>2 DEF RunnerInv
<1>4. \A r \in Robot : r \in Idle => waiting[r] = None
  BY DEF Idle
<1> HIDE DEF command
<1>5. /\ inbox' = [r \in Robot |-> inbox'[r]] /\ \A r \in Robot : IsSequence(inbox'[r])
      /\ \A r \in Robot : waiting'[r] = waiting[r] \/
           /\ r \in Idle \ absent /\ IsWait(waiting'[r])
           /\ waiting'[r].mode \in {"topic", "send"}
      /\ Deserved
  BY <1>1, <1>4, Sending
<1>6. Shapes'
  BY <1>1, <1>5 DEF RunnerInv, Shapes
<1>7. \A r \in Robot : Kept(r)'
  BY <1>1, <1>3, <1>5 DEF Kept, Awaits
<1>8. \A r \in Awaited' : todo'[r] # <<>>
  <2>1. absent \subseteq Idle
    BY DEF Start
  <2> QED BY <1>1, <1>2, <1>4, <1>5, <2>1 DEF RunnerInv, Awaited, Idle
<1>9. RunnerInv'
  BY <1>1, <1>2, <1>3, <1>6, <1>7, <1>8 DEF RunnerInv, Dispatching, Menu
<1>10. Ended
  BY <1>3 DEF Ended
<1> QED BY <1>5, <1>9, <1>10 DEF Good

LEMMA PollStep ==
  ASSUME RunnerInv, NEW heard \in SUBSET Robot, NEW late \in SUBSET Robot,
         Poll(heard, late)
  PROVE  Good
<1>1. /\ pc = "spin" /\ pc' = "top" /\ late \in SUBSET Awaited
      /\ Settle(heard, late)
      /\ todo' = [r \in Robot |-> IF r \in Awaited /\ waiting'[r] = None
                                  THEN Tail(todo[r]) ELSE todo[r]]
      /\ UNCHANGED <<resume, phases, stopped, inbox, busy>>
  BY DEF Poll, Deadlines
<1>2. Place = "spin" /\ Place' = "top" /\ pc' # "hold" /\ pc' # "spin"
  BY <1>1 DEF Place
<1>3. ~stopped /\ ~stopped' /\ \A r \in Robot : Kept(r)
  BY <1>1, <1>2 DEF RunnerInv
<1>4. /\ \A r \in Robot : Kept(r) => Kept(r)'
      /\ \A r \in Robot : waiting'[r] # None => IsWait(waiting'[r])
      /\ \A r \in Robot : waiting'[r] # None => r \in Awaited
      /\ Deserved
  BY <1>1, Settled
<1>5. Shapes'
  BY <1>1, <1>4 DEF RunnerInv, Shapes
<1>6. \A r \in Awaited' : todo'[r] # <<>>
  BY <1>1, <1>2, <1>4 DEF RunnerInv, Awaited
<1>7. RunnerInv'
  BY <1>2, <1>3, <1>4, <1>5, <1>6 DEF RunnerInv, Dispatching, Menu
<1>8. Ended
  BY <1>3 DEF Ended
<1> QED BY <1>4, <1>7, <1>8 DEF Good

\* After the wait for its holds the thread is where it was to go on.
LEMMA EndHoldStep ==
  ASSUME RunnerInv, NEW heard \in SUBSET Robot, EndHold(heard)
  PROVE  Good
<1>1. /\ pc = "hold" /\ pc' = resume /\ resume' = "main"
      /\ handles' = [r \in Robot |-> IF r \in heard THEN None ELSE handles[r]]
      /\ UNCHANGED <<phases, todo, waiting, stopped, inbox, busy>>
  BY DEF EndHold
<1>2. /\ resume \in Menu \cup {"send_over", "await_over", "top"}
      /\ pc' # "hold" /\ pc' # "spin" /\ Place = resume /\ Place' = resume
  BY <1>1 DEF RunnerInv, Place, Menu
<1>3. \A r \in Robot : resume # "await_over" => ~Awaits(r, "result")
  BY <1>1, <1>2 DEF RunnerInv, Awaits, Awaited
<1>4. \A r \in Robot : resume # "await_over" => Kept(r)'
  BY <1>1, <1>3 DEF Kept, Awaits
<1>5. Shapes'
  BY <1>1 DEF RunnerInv, Shapes
<1>6. RunnerInv'
  BY <1>1, <1>2, <1>4, <1>5 DEF RunnerInv, Awaited, Awaits
<1>7. Ended /\ Deserved
  BY <1>1, SameInboxes DEF Ended, Deserved
<1> QED BY <1>6, <1>7 DEF Good

\* Reports are read and the thread is back at a menu.
LEMMA ReadStep ==
  ASSUME RunnerInv, RenderReports \/ EndSequence
  PROVE  Good
<1>1. /\ pc \in {"report", "top"} /\ pc' \in Menu
      /\ pc = "top" => \A r \in Robot : todo[r] = <<>>
      /\ UNCHANGED <<resume, phases, todo, waiting, handles, stopped, inbox, busy>>
  BY DEF RenderReports, EndSequence, Read, robots, Menu
<1>2. pc # "hold" /\ Place = pc /\ pc' # "hold" /\ Place' = pc'
  BY <1>1 DEF Place, Menu
<1>3. Awaited = {}
  BY <1>1, <1>2 DEF RunnerInv, Menu, Awaited
<1>4. Shapes'
  BY <1>1 DEF RunnerInv, Shapes
<1>5. RunnerInv'
  BY <1>1, <1>2, <1>3, <1>4 DEF RunnerInv, Awaited, Awaits, Kept, Dispatching, Menu
<1>6. Ended /\ Deserved
  BY <1>1, SameInboxes DEF Ended, Deserved
<1> QED BY <1>5, <1>6 DEF Good

-----------------------------------------------------------------------------
LEMMA InvStep == RunnerInv /\ [Next]_vars => RunnerInv' /\ [Ended /\ Deserved]_vars
<1> SUFFICES ASSUME RunnerInv, [Next]_vars
             PROVE  RunnerInv' /\ [Ended /\ Deserved]_vars
  OBVIOUS
<1>1. CASE RobotNext
  BY <1>1, RobotSteps DEF Good
<1>2. CASE OperatorNext
  BY <1>2, MenuSteps, StopStep DEF Good
<1>3. CASE RunnerNext
  BY <1>3, DispatchStep, EndSendingStep, EndAwaitingStep, StartStep, EndHoldStep,
     PollStep, ReadStep DEF RunnerNext, Good
<1>4. CASE UNCHANGED vars
  <2>1. UNCHANGED <<pc, resume, progress, robots>>
    BY <1>4 DEF vars
  <2>2. RunnerInv'
    BY <2>1 DEF progress, robots, RunnerInv, Shapes, Place, Awaited, Awaits, Kept
  <2> QED BY <1>4, <2>2
<1> QED BY <1>1, <1>2, <1>3, <1>4 DEF Next

LEMMA RunnerInvariant == Spec => []RunnerInv /\ [][Ended /\ Deserved]_vars
BY InvInitially, InvStep, PTL DEF Spec

\* Whenever the stop key may be pressed, the handle of each goal whose result
\* is awaited is there for the stop to cancel (_active_goal_handles).
THEOREM GoalsAreCancellable == Spec => []HandlesCoverGoals
<1>1. RunnerInv => HandlesCoverGoals
  BY DEF RunnerInv, Place, Kept, Awaits, HandlesCoverGoals
<1> QED BY <1>1, RunnerInvariant, PTL

\* After an emergency stop a sequence sends nothing more to any robot, until
\* the operator starts anew (_execute_sequence_pipeline).
THEOREM StoppedSequencesEnd == Spec => SequenceStops
<1>1. [Ended /\ Deserved]_vars => [stopped /\ phases = <<>> => NothingNew]_vars
  BY DEF Ended
<1> QED BY <1>1, RunnerInvariant, PTL DEF SequenceStops

\* No command is reported with an answer its robot did not give to it
\* (_poll_goal_async_state, _ensure_playbook_result_sub).
THEOREM ReportsAreDeserved == Spec => CreditIsDeserved
<1>1. [Ended /\ Deserved]_vars =>
        [\A r \in Awaited :
           \/ waiting'[r] = waiting[r]
           \/ <<r, waiting[r].command>> \in unanswered'
           \/ \E o \in Answer : <<r, waiting[r].command, o>> \in replies]_vars
  BY DEF Deserved
<1> QED BY <1>1, RunnerInvariant, PTL DEF CreditIsDeserved
-----------------------------------------------------------------------------
(* The pipelines of a sequence.                                            *)

\* The order of the queue.
Before ==
  {p \in Command \X Command :
     \/ p[1].step < p[2].step
     \/ p[1].step = p[2].step /\ p[1].part < p[2].part}

\* What the queue has for robot r.
Due(r) ==
  {c \in Command : /\ c.run = runs + 1
                   /\ c.step \in DOMAIN queue /\ r \in TargetsOf(c.step)
                   /\ c.part \in 1 .. Parts[queue[c.step].entry]}

LEMMA CommandFields ==
  \A c, n, i, p : c = [run |-> n, step |-> i, part |-> p] =>
                   c.run = n /\ c.step = i /\ c.part = p
OBVIOUS

\* The commands of one step.
LEMMA StepCommands ==
  ASSUME NEW k \in 0 .. MaxRuns, NEW i \in 0 .. MaxQueue + 1, NEW n \in Nat,
         NEW t, t = [p \in 1 .. n |-> [run |-> k, step |-> i, part |-> p]]
  PROVE  /\ t \in Seq(Command)
         /\ Ordered(t, Before)
         /\ \A c : c \in ToSet(t) <=>
              c \in Command /\ c.run = k /\ c.step = i /\ c.part \in 1 .. n
<1>1. \A p \in 1 .. n : t[p] = [run |-> k, step |-> i, part |-> p]
  OBVIOUS
<1>2. \A p \in 1 .. n : t[p].run = k /\ t[p].step = i /\ t[p].part = p
  BY <1>1, CommandFields
<1>3. \A p \in 1 .. n : [run |-> k, step |-> i, part |-> p] \in Command
  BY DEF Command
<1>4. DOMAIN t = 1 .. n /\ \A p \in 1 .. n : t[p] \in Command
  BY <1>1, <1>3
<1>5. t \in [1 .. n -> Command]
  BY <1>3
<1>6. Ordered(t, Before)
  BY <1>2, <1>4 DEF Ordered, Before
<1>7. ASSUME NEW c, c \in Command, c.run = k, c.step = i, c.part \in 1 .. n
      PROVE  c \in ToSet(t)
  <2>1. c = [run |-> k, step |-> i, part |-> c.part]
    BY <1>7 DEF Command
  <2>2. c = t[c.part] /\ c.part \in DOMAIN t
    BY <1>1, <1>4, <1>7, <2>1
  <2> QED BY <2>2 DEF ToSet
<1>8. \A c \in ToSet(t) : c \in Command /\ c.run = k /\ c.step = i /\ c.part \in 1 .. n
  BY <1>2, <1>4 DEF ToSet
<1> QED BY <1>5, <1>6, <1>7, <1>8

\* A robot's pipeline has all the commands the queue has for it and no others,
\* each once and in the order of the queue (_execute_sequence_pipeline).
LEMMA PipelinesFollowTheQueue ==
  ASSUME TypeOK, runs < MaxRuns, NEW r \in Robot
  PROVE  /\ Pipeline(r) \in Seq(Command)
         /\ ToSet(Pipeline(r)) = Due(r)
         /\ Ordered(Pipeline(r), Before)
<1> DEFINE s == [i \in DOMAIN queue |-> IF r \in TargetsOf(i) THEN CommandsOf(i) ELSE <<>>]
<1>1. /\ queue \in Seq(Step) /\ Len(queue) \in Nat /\ Len(queue) <= MaxQueue
      /\ DOMAIN queue = 1 .. Len(queue) /\ \A i \in DOMAIN queue : queue[i] \in Step
      /\ runs + 1 \in 0 .. MaxRuns /\ MaxQueue \in Nat
  BY BoundsAreNatural DEF TypeOK
<1>2. ASSUME NEW i \in DOMAIN queue
      PROVE  /\ CommandsOf(i) \in Seq(Command)
             /\ Ordered(CommandsOf(i), Before)
             /\ \A c : c \in ToSet(CommandsOf(i)) <=>
                  /\ c \in Command /\ c.run = runs + 1 /\ c.step = i
                  /\ c.part \in 1 .. Parts[queue[i].entry]
  <2> DEFINE n == Parts[queue[i].entry]
             k == runs + 1
             t == CommandsOf(i)
  <2>1. n \in Nat /\ k \in 0 .. MaxRuns /\ i \in 0 .. MaxQueue + 1
    BY <1>1, RobotsAndEntries DEF Step
  <2>2. t = [p \in 1 .. n |-> [run |-> k, step |-> i, part |-> p]]
    BY DEF CommandsOf
  <2> HIDE DEF n, k, t
  <2>3. /\ t \in Seq(Command) /\ Ordered(t, Before)
        /\ \A c : c \in ToSet(t) <=>
             c \in Command /\ c.run = k /\ c.step = i /\ c.part \in 1 .. n
    BY <2>1, <2>2, StepCommands
  <2> QED BY <2>3 DEF n, k, t
<1>3. s \in Seq(Seq(Command))
  <2>1. \A i \in DOMAIN queue : CommandsOf(i) \in Seq(Command)
    BY <1>2
  <2>2. s \in [1 .. Len(queue) -> Seq(Command)]
    BY <1>1, <2>1
  <2> QED BY <1>1, <2>2
<1>4. /\ DOMAIN s = DOMAIN queue /\ DOMAIN s \subseteq Int
      /\ \A i \in DOMAIN queue : s[i] = IF r \in TargetsOf(i) THEN CommandsOf(i) ELSE <<>>
  BY <1>1
<1>5. Pipeline(r) = FlattenSeq(s)
  BY DEF Pipeline
<1> HIDE DEF s
<1>6. ToSet(<<>>) = {} /\ Ordered(<<>>, Before)
  BY DEF ToSet, Ordered
<1>7. ASSUME NEW i \in DOMAIN s
      PROVE  /\ Ordered(s[i], Before)
             /\ \A c : c \in ToSet(s[i]) <=>
                  /\ c \in Command /\ c.run = runs + 1 /\ c.step = i /\ r \in TargetsOf(i)
                  /\ c.part \in 1 .. Parts[queue[i].entry]
  <2>1. CASE r \in TargetsOf(i)
    BY <1>2, <1>4, <2>1
  <2>2. CASE r \notin TargetsOf(i)
    BY <1>4, <1>6, <2>2
  <2> QED BY <2>1, <2>2
<1>8. \A i, j \in DOMAIN s : i < j =>
        \A x \in ToSet(s[i]), y \in ToSet(s[j]) : <<x, y>> \in Before
  BY <1>7 DEF Before
<1>9. /\ FlattenSeq(s) \in Seq(Command)
      /\ ToSet(FlattenSeq(s)) = UNION {ToSet(s[i]) : i \in DOMAIN s}
      /\ Ordered(FlattenSeq(s), Before)
  BY <1>3, <1>7, <1>8, Flattened
<1>10. UNION {ToSet(s[i]) : i \in DOMAIN s} = Due(r)
  BY <1>4, <1>7 DEF Due
<1> QED BY <1>5, <1>9, <1>10
-----------------------------------------------------------------------------
(* The type invariant.  It rests on RunnerInv where the head of a sequence *)
(* is taken off.                                                           *)

Typed == TypeOK /\ stops \in Nat /\ crashes \in Nat

LEMMA HeadAndTail ==
  ASSUME NEW S, NEW s \in Seq(S), s # <<>>
  PROVE  Tail(s) \in Seq(S) /\ Head(s) \in S /\ Len(Tail(s)) = Len(s) - 1
OBVIOUS

LEMMA WaitFacts ==
  ASSUME NEW w \in Wait
  PROVE  w.command \in Command /\ [w EXCEPT !.mode = "result"] \in Wait
BY DEF Wait

LEMMA TypedInitially == Init => Typed
<1> SUFFICES ASSUME Init PROVE Typed
  OBVIOUS
<1>1. 0 \in 0 .. MaxRuns /\ 0 \in 0 .. MaxEvents /\ <<>> \in Seq(Step) /\ Len(<<>>) <= MaxQueue
      /\ <<>> \in Seq(Command)
  BY BoundsAreNatural
<1>2. /\ todo \in [Robot -> Seq(Command)] /\ inbox \in [Robot -> Seq(Command)]
      /\ phases \in Seq(Command)
  BY <1>1 DEF Init
<1>3. /\ waiting \in [Robot -> {None} \cup Wait]
      /\ handles \in [Robot -> {None} \cup Command] /\ busy \in [Robot -> {None} \cup Command]
  BY DEF Init
<1>4. stops + crashes \in 0 .. MaxEvents /\ runs \in 0 .. MaxRuns
  BY <1>1 DEF Init
<1> QED BY <1>1, <1>2, <1>3, <1>4 DEF Init, Typed, TypeOK, Menu, Wait

LEMMA TypedRobots == Typed /\ RobotNext => Typed'
<1> SUFFICES ASSUME Typed, NEW r \in Robot,
                    \/ \E accepts \in BOOLEAN : Take(r, accepts)
                    \/ Finish(r) \/ Crash(r) \/ Rejoin(r)
             PROVE  Typed'
  BY DEF RobotNext
<1>0. UNCHANGED <<pc, resume, menus, progress, runs, stops>>
  BY DEF Take, Finish, Crash, Rejoin
<1>1. /\ inbox \in [Robot -> Seq(Command)] /\ busy \in [Robot -> {None} \cup Command]
      /\ replies \subseteq Robot \X Command \X Answer /\ reachable \subseteq Robot
      /\ stops + crashes \in 0 .. MaxEvents /\ stops \in Nat /\ crashes \in Nat
  BY DEF Typed, TypeOK
<1> DEFINE Fine == /\ inbox' \in [Robot -> Seq(Command)]
                   /\ busy' \in [Robot -> {None} \cup Command]
                   /\ replies' \subseteq Robot \X Command \X Answer /\ reachable' \subseteq Robot
                   /\ stops + crashes' \in 0 .. MaxEvents /\ crashes' \in Nat
<1>2. SUFFICES Fine
  BY <1>0 DEF Typed, TypeOK, menus, progress
<1>3. ASSUME NEW accepts \in BOOLEAN, Take(r, accepts) PROVE Fine
  <2>1. inbox[r] \in Seq(Command) /\ inbox[r] # <<>>
    BY <1>1, <1>3 DEF Take
  <2>2. Tail(inbox[r]) \in Seq(Command) /\ Head(inbox[r]) \in Command
    BY <2>1, HeadAndTail
  <2>3. /\ inbox' = [inbox EXCEPT ![r] = Tail(@)]
        /\ busy' = [busy EXCEPT ![r] = IF accepts THEN Head(inbox[r]) ELSE None]
        /\ \/ replies' = replies
           \/ \E o \in Answer : replies' = replies \cup {<<r, Head(inbox[r]), o>>}
        /\ UNCHANGED <<reachable, crashes>>
    BY <1>3 DEF Take, Answer
  <2> QED BY <1>1, <2>2, <2>3
<1>4. CASE Finish(r)
  <2>1. busy[r] \in Command
    BY <1>1, <1>4 DEF Finish, Running
  <2>2. /\ busy' = [busy EXCEPT ![r] = None] /\ UNCHANGED <<reachable, inbox, crashes>>
        /\ replies' \in {replies, replies \cup {<<r, busy[r], "result">>}}
    BY <1>4 DEF Finish
  <2> QED BY <1>1, <2>1, <2>2 DEF Answer
<1>5. CASE Crash(r)
  <2>1. /\ inbox' = [inbox EXCEPT ![r] = <<>>] /\ busy' = [busy EXCEPT ![r] = None]
        /\ UNCHANGED replies /\ reachable' \in {reachable, reachable \ {r}}
        /\ stops + crashes < MaxEvents /\ crashes' = crashes + 1
    BY <1>5 DEF Crash
  <2>2. stops + crashes' \in 0 .. MaxEvents /\ crashes' \in Nat
    BY <1>1, <2>1, BoundsAreNatural
  <2> QED BY <1>1, <2>1, <2>2
<1>6. CASE Rejoin(r)
  BY <1>1, <1>6 DEF Rejoin
<1> QED BY <1>3, <1>4, <1>5, <1>6

\* A change of the queue leaves it a queue.
LEMMA QueueEdits ==
  ASSUME TypeOK
  PROVE  /\ \A e \in Entry : Add(e) => queue' \in Seq(Step) /\ Len(queue') <= MaxQueue
         /\ \A e \in Entry : \A i \in 1 .. MaxQueue :
              Update(i, e) => queue' \in Seq(Step) /\ Len(queue') <= MaxQueue
         /\ DeleteLast => queue' \in Seq(Step) /\ Len(queue') <= MaxQueue
         /\ \A i \in 1 .. MaxQueue : Delete(i) => queue' \in Seq(Step) /\ Len(queue') <= MaxQueue
         /\ Clear => queue' \in Seq(Step) /\ Len(queue') <= MaxQueue
         /\ \A e \in Preset : \A append \in BOOLEAN :
              Load(<<e>>, append) => queue' \in Seq(Step) /\ Len(queue') <= MaxQueue
<1>1. queue \in Seq(Step) /\ Len(queue) \in Nat /\ Len(queue) <= MaxQueue /\ MaxQueue \in Nat
      /\ DOMAIN queue = 1 .. Len(queue)
  BY BoundsAreNatural DEF TypeOK
<1>0. /\ \A e \in Entry : Collected(e) \in Step
      /\ Preset \subseteq Step
  BY BoundsAreNatural DEF Collected, Step, TypeOK
<1>2. ASSUME NEW e \in Entry, Add(e) PROVE queue' \in Seq(Step) /\ Len(queue') <= MaxQueue
  <2>1. queue' = Append(queue, Collected(e)) /\ Collected(e) \in Step /\ Len(queue) < MaxQueue
    BY <1>0, <1>2 DEF Add, Edit
  <2> QED BY <1>1, <2>1
<1>3. ASSUME NEW e \in Entry, NEW i \in 1 .. MaxQueue, Update(i, e)
      PROVE  queue' \in Seq(Step) /\ Len(queue') <= MaxQueue
  <2>1. queue' = [queue EXCEPT ![i] = Collected(e)] /\ i \in DOMAIN queue /\ Collected(e) \in Step
    BY <1>0, <1>3 DEF Update, Edit
  <2> QED BY <1>1, <2>1
<1>4. ASSUME DeleteLast PROVE queue' \in Seq(Step) /\ Len(queue') <= MaxQueue
  <2>1. queue' = SubSeq(queue, 1, Len(queue) - 1) /\ queue # <<>>
    BY <1>4 DEF DeleteLast, Edit, Front
  <2>2. Len(queue) # 0
    BY <1>1, <2>1
  <2> QED BY <1>1, <2>1, <2>2
<1>5. ASSUME NEW i \in 1 .. MaxQueue, Delete(i)
      PROVE  queue' \in Seq(Step) /\ Len(queue') <= MaxQueue
  <2> DEFINE before == SubSeq(queue, 1, i - 1)
             after == SubSeq(queue, i + 1, Len(queue))
  <2>1. queue' = before \o after /\ i \in 1 .. Len(queue)
    BY <1>1, <1>5 DEF Delete, Edit, RemoveAt
  <2>2. /\ before \in Seq(Step) /\ Len(before) = i - 1
        /\ after \in Seq(Step) /\ Len(after) = Len(queue) - i
    <3>1. /\ \A j \in 1 .. i - 1 : queue[j] \in Step
          /\ \A j \in i + 1 .. Len(queue) : queue[j] \in Step
      BY <1>1, <2>1
    <3>2. /\ i - 1 \in Int /\ i + 1 \in Int /\ 1 \in Int /\ Len(queue) \in Int
      BY <1>1, <2>1
    <3>3. /\ before \in Seq(Step)
          /\ Len(before) = IF 1 <= i - 1 THEN (i - 1) - 1 + 1 ELSE 0
      BY <3>1, <3>2, SubSeqProperties
    <3>4. /\ after \in Seq(Step)
          /\ Len(after) = IF i + 1 <= Len(queue) THEN Len(queue) - (i + 1) + 1 ELSE 0
      BY <3>1, <3>2, SubSeqProperties
    <3>5. i \in Int /\ 1 <= i /\ i <= Len(queue) /\ Len(queue) \in Int
      BY <1>1, <2>1
    <3> HIDE DEF before, after
    <3> QED BY <3>3, <3>4, <3>5
  <2> HIDE DEF before, after
  <2>3. before \o after \in Seq(Step) /\ Len(before \o after) = Len(before) + Len(after)
    BY <2>2
  <2> QED BY <1>1, <2>1, <2>2, <2>3
<1>6. ASSUME Clear PROVE queue' \in Seq(Step) /\ Len(queue') <= MaxQueue
  BY <1>1, <1>6 DEF Clear, Edit
<1>7. ASSUME NEW e \in Preset, NEW append \in BOOLEAN, Load(<<e>>, append)
      PROVE  queue' \in Seq(Step) /\ Len(queue') <= MaxQueue
  <2>1. /\ queue' = IF append THEN queue \o <<e>> ELSE <<e>>
        /\ Len(queue) + Len(<<e>>) <= MaxQueue
    BY <1>7 DEF Load, Edit
  <2>2. <<e>> \in Seq(Step) /\ Len(<<e>>) = 1
    BY <1>0
  <2>3. queue \o <<e>> \in Seq(Step) /\ Len(queue \o <<e>>) = Len(queue) + 1
    BY <1>1, <2>2
  <2> QED BY <1>1, <2>1, <2>2, <2>3
<1> QED BY <1>2, <1>3, <1>4, <1>5, <1>6, <1>7

LEMMA TypedMenus == Typed /\ OperatorNext /\ ~Stop => Typed'
<1> SUFFICES ASSUME Typed, OperatorNext, ~Stop PROVE Typed'
  OBVIOUS
<1>1. ASSUME NEW r \in Robot \cup {None}, SelectTarget(r) PROVE Typed'
  BY <1>1 DEF SelectTarget, AtMenu, progress, robots, Typed, TypeOK
<1>2. ASSUME NEW n \in Nat, NEW first \in Nat, Playbook(n, first) PROVE Typed'
  <2>1. /\ pc' = "dispatch" /\ runs' = runs + 1 /\ runs < MaxRuns /\ stopped' = FALSE
        /\ detected' \in {reachable, {}}
        /\ phases' = [i \in 1 .. n |-> [run |-> runs + 1, step |-> 1, part |-> first + i - 1]]
        /\ UNCHANGED <<resume, menus, todo, waiting, handles, unanswered, robots, stops>>
    BY <1>2 DEF Playbook, AtMenu
  <2>2. runs + 1 \in 0 .. MaxRuns /\ 1 \in 0 .. MaxQueue + 1
    BY <2>1, BoundsAreNatural DEF Typed, TypeOK
  <2>3. \A i \in 1 .. n : [run |-> runs + 1, step |-> 1, part |-> first + i - 1] \in Command
    BY <2>2 DEF Command
  <2>4. phases' \in Seq(Command)
    <3>1. phases' \in [1 .. n -> Command]
      BY <2>1, <2>3
    <3> QED BY <3>1
  <2> QED BY <2>1, <2>2, <2>4 DEF menus, robots, Typed, TypeOK
<1>3. CASE MoveXY \/ ExecuteAll \/ TransitDistance \/ RotateDegrees
  BY <1>2, <1>3, RobotsAndEntries DEF MoveXY, ExecuteAll, TransitDistance, RotateDegrees
<1>4. CASE OpenSequence
  BY <1>4 DEF OpenSequence, AtMenu, menus, progress, robots, Typed, TypeOK, Menu
<1>5. CASE Back
  <2>1. <<>> \in Seq(Step) /\ Len(<<>>) <= MaxQueue
    BY BoundsAreNatural
  <2> QED BY <1>5, <2>1 DEF Back, AtMenu, progress, robots, Typed, TypeOK, Menu
<1>6. ASSUME NEW new, Edit(new), queue' \in Seq(Step) /\ Len(queue') <= MaxQueue PROVE Typed'
  BY <1>6 DEF Edit, AtMenu, progress, robots, Typed, TypeOK
<1>7. CASE Execute
  <2>1. /\ pc' = "top" /\ runs' = runs + 1 /\ runs < MaxRuns /\ stopped' = FALSE
        /\ todo' = [r \in Robot |-> Pipeline(r)]
        /\ UNCHANGED <<resume, menus, phases, detected, waiting, handles, unanswered, robots, stops>>
    BY <1>7 DEF Execute, AtMenu
  <2>2. \A r \in Robot : Pipeline(r) \in Seq(Command)
    BY <2>1, PipelinesFollowTheQueue DEF Typed
  <2>3. runs' \in 0 .. MaxRuns
    BY <2>1, BoundsAreNatural DEF Typed, TypeOK
  <2>4. todo' \in [Robot -> Seq(Command)]
    BY <2>1, <2>2
  <2> QED BY <2>1, <2>3, <2>4 DEF menus, robots, Typed, TypeOK
<1>8. ASSUME NEW e \in Entry, Add(e) \/ \E i \in 1 .. MaxQueue : Update(i, e) PROVE Typed'
  <2>1. queue' \in Seq(Step) /\ Len(queue') <= MaxQueue
    BY <1>8, QueueEdits DEF Typed
  <2> QED BY <1>6, <1>8, <2>1 DEF Add, Update
<1>9. CASE DeleteLast \/ Clear \/ \E i \in 1 .. MaxQueue : Delete(i)
  <2>1. queue' \in Seq(Step) /\ Len(queue') <= MaxQueue
    BY <1>9, QueueEdits DEF Typed
  <2> QED BY <1>6, <1>9, <2>1 DEF DeleteLast, Clear, Delete
<1>10. ASSUME NEW e \in Preset, NEW append \in BOOLEAN, Load(<<e>>, append) PROVE Typed'
  <2>1. queue' \in Seq(Step) /\ Len(queue') <= MaxQueue
    BY <1>10, QueueEdits DEF Typed
  <2> QED BY <1>6, <1>10, <2>1 DEF Load
<1> QED BY <1>1, <1>3, <1>4, <1>5, <1>7, <1>8, <1>9, <1>10 DEF OperatorNext

LEMMA TypedStop == Typed /\ Stop => Typed'
<1> SUFFICES ASSUME Typed, Stop PROVE Typed'
  OBVIOUS
<1> DEFINE hold == [run |-> 0, step |-> 0, part |-> stops + 1]
<1>1. /\ stops' = stops + 1 /\ stops + crashes < MaxEvents /\ stopped' = TRUE
      /\ pc \in Menu \cup {"sending", "awaiting", "spin"}
      /\ resume' = AfterStop(pc) /\ pc' \in {AfterStop(pc), "hold"}
      /\ inbox' = [r \in Robot |-> IF r \in reachable THEN Append(inbox[r], hold)
                                   ELSE inbox[r]]
      /\ UNCHANGED <<menus, phases, detected, handles, reachable, busy, replies, crashes, runs>>
  BY DEF Stop, Spinning
<1>2. hold \in Command
  BY BoundsAreNatural DEF Typed, Command
<1>3. inbox' \in [Robot -> Seq(Command)]
  <2> HIDE DEF hold
  <2>1. \A r \in Robot : inbox[r] \in Seq(Command) /\ Append(inbox[r], hold) \in Seq(Command)
    BY <1>2 DEF Typed, TypeOK
  <2> QED BY <1>1, <2>1
<1>4. todo' \in [Robot -> Seq(Command)]
  <2>1. todo' = todo \/ todo' = [r \in Robot |-> <<>>]
    BY DEF Stop, CommandsLeft
  <2>2. todo \in [Robot -> Seq(Command)] /\ <<>> \in Seq(Command)
    BY DEF Typed, TypeOK
  <2> QED BY <2>1, <2>2
<1>5. waiting' \in [Robot -> {None} \cup Wait]
  <2>1. waiting' = waiting \/ waiting' = [r \in Robot |-> None]
    BY DEF Stop
  <2> QED BY <2>1 DEF Typed, TypeOK, Wait
<1>6. unanswered' \subseteq Robot \X Command
  <2>1. \A r \in Awaited : r \in Robot /\ waiting[r].command \in Command
    BY WaitFacts DEF Awaited, Typed, TypeOK, Wait
  <2>2. ReportStopped \subseteq Robot \X Command
    BY <2>1 DEF ReportStopped
  <2> QED BY <2>2 DEF Stop, Typed, TypeOK
<1>7. /\ resume' \in Menu \cup {"send_over", "await_over", "top"}
      /\ pc' \in Menu \cup Spinning \cup {"send_over", "await_over", "top"}
  BY <1>1 DEF AfterStop, Menu, Spinning
<1>8. stops' + crashes' \in 0 .. MaxEvents /\ stops' \in Nat /\ crashes' \in Nat
  BY <1>1, BoundsAreNatural DEF Typed
<1> QED BY <1>1, <1>3, <1>4, <1>5, <1>6, <1>7, <1>8 DEF menus, Typed, TypeOK, Wait

LEMMA TypedSettle ==
  ASSUME Typed, NEW heard \in SUBSET Robot, NEW late \in SUBSET Awaited, Settle(heard, late)
  PROVE  /\ unanswered' \subseteq Robot \X Command
         /\ handles' \in [Robot -> {None} \cup Command]
         /\ replies' \subseteq Robot \X Command \X Answer
         /\ waiting' \in [Robot -> {None} \cup Wait]
<1> DEFINE accepted == {r \in heard : "accepted" \in Said(r)}
           over == (heard \cup late) \ accepted
<1>1. /\ heard \subseteq Awaited
      /\ unanswered' = unanswered \cup {<<r, waiting[r].command>> : r \in late}
      /\ handles' = [r \in Robot |-> IF r \in accepted THEN waiting[r].command
                       ELSE IF r \in over /\ waiting[r].mode = "result" THEN None
                       ELSE handles[r]]
      /\ replies' \subseteq replies
      /\ waiting' = [r \in Robot |->
                      IF r \in over THEN None
                      ELSE IF r \in accepted THEN [waiting[r] EXCEPT !.mode = "result"]
                      ELSE waiting[r]]
  BY DEF Settle, KeepHandles, Answering
<1>2. \A r \in Awaited : r \in Robot /\ waiting[r] \in Wait
  BY DEF Awaited, Typed, TypeOK, Wait
<1>3. \A r \in Awaited : /\ waiting[r].command \in Command
                         /\ [waiting[r] EXCEPT !.mode = "result"] \in Wait
  BY <1>2, WaitFacts
<1>4. \A r \in Robot : waiting[r] \in {None} \cup Wait /\ handles[r] \in {None} \cup Command
  BY DEF Typed, TypeOK, Wait
<1>5. accepted \subseteq Awaited
  BY <1>1
<1> HIDE DEF accepted, over
<1>6. unanswered' \subseteq Robot \X Command
  <2>1. {<<r, waiting[r].command>> : r \in late} \subseteq Robot \X Command
    <3>1. \A r \in late : r \in Robot /\ waiting[r].command \in Command
      BY <1>2, <1>3
    <3> QED BY <3>1
  <2> QED BY <1>1, <2>1 DEF Typed, TypeOK
<1>7. handles' \in [Robot -> {None} \cup Command]
  BY <1>1, <1>3, <1>4, <1>5
<1>8. waiting' \in [Robot -> {None} \cup Wait]
  BY <1>1, <1>3, <1>4, <1>5
<1>9. replies' \subseteq Robot \X Command \X Answer
  BY <1>1 DEF Typed, TypeOK
<1> QED BY <1>6, <1>7, <1>8, <1>9

LEMMA TypedSent ==
  ASSUME Typed, NEW to \in SUBSET Robot, NEW command, NEW absent, Sent(to, command, absent),
         \A r \in to : command[r] \in Command
  PROVE  /\ unanswered' \subseteq Robot \X Command
         /\ inbox' \in [Robot -> Seq(Command)]
         /\ waiting' \in [Robot -> {None} \cup Wait]
<1>1. /\ inbox' = [r \in Robot |-> IF r \in to \ absent
                               THEN Append(inbox[r], command[r]) ELSE inbox[r]]
      /\ waiting' = [r \in Robot |->
           IF r \notin to \ absent THEN waiting[r]
           ELSE [command |-> command[r],
                 mode |-> IF r \in ActionRobot THEN "send" ELSE "topic"]]
      /\ unanswered' = unanswered \cup {<<r, command[r]>> : r \in to \cap absent}
  BY DEF Sent
<1>2. \A r \in Robot : inbox[r] \in Seq(Command) /\ waiting[r] \in {None} \cup Wait
  BY DEF Typed, TypeOK, Wait
<1>3. \A r \in to : Append(inbox[r], command[r]) \in Seq(Command)
  BY <1>2
<1>4. \A r \in to : [command |-> command[r],
                     mode |-> IF r \in ActionRobot THEN "send" ELSE "topic"] \in Wait
  BY DEF Wait
<1>5. inbox' \in [Robot -> Seq(Command)]
  BY <1>1, <1>2, <1>3
<1>6. waiting' \in [Robot -> {None} \cup Wait]
  BY <1>1, <1>2, <1>4
<1>7. unanswered' \subseteq Robot \X Command
  BY <1>1 DEF Typed, TypeOK
<1> QED BY <1>5, <1>6, <1>7

LEMMA TypedThread == Typed /\ RunnerInv /\ RunnerNext => Typed'
<1> SUFFICES ASSUME Typed, RunnerInv, RunnerNext PROVE Typed'
  OBVIOUS
<1>1. ASSUME NEW absent \in SUBSET Robot, Dispatch(absent) PROVE Typed'
  <2> DEFINE to == IF phases[1].part = 0 THEN detected \cap reachable ELSE Targets
             command == [r \in Robot |-> phases[1]]
  <2>1. /\ pc = "dispatch" /\ pc' \in {"await_over", "sending"} /\ Sent(to, command, absent)
        /\ UNCHANGED <<resume, menus, phases, detected, todo, handles, stopped, reachable, busy, replies,
                       crashes, runs, stops>>
    BY <1>1 DEF Dispatch
  <2>2. to \in SUBSET Robot
    BY DEF Targets, Typed, TypeOK
  <2>3. \A r \in to : command[r] \in Command
    <3>1. phases \in Seq(Command) /\ phases # <<>>
      BY <2>1 DEF Typed, TypeOK, RunnerInv, Place, Dispatching
    <3>2. phases[1] \in Command
      BY <3>1
    <3> QED BY <2>2, <3>2
  <2> HIDE DEF to, command
  <2>4. /\ unanswered' \subseteq Robot \X Command
        /\ inbox' \in [Robot -> Seq(Command)]
        /\ waiting' \in [Robot -> {None} \cup Wait]
    BY <2>1, <2>2, <2>3, TypedSent
  <2> QED BY <2>1, <2>4 DEF Typed, TypeOK, Wait, menus, Spinning
<1>2. ASSUME NEW heard \in SUBSET Robot, EndSending(heard) PROVE Typed'
  <2> DEFINE sent == {r \in Awaited : waiting[r].mode = "send"}
             late == sent \ heard
  <2>1. /\ pc' \in {"await_over", "awaiting"} /\ Settle(heard, late) /\ late \in SUBSET Awaited
        /\ UNCHANGED <<resume, menus, phases, detected, todo, stopped, reachable, inbox, busy, crashes,
                       runs, stops>>
    BY <1>2 DEF EndSending
  <2> HIDE DEF late
  <2>2. /\ unanswered' \subseteq Robot \X Command
        /\ handles' \in [Robot -> {None} \cup Command]
        /\ replies' \subseteq Robot \X Command \X Answer
        /\ waiting' \in [Robot -> {None} \cup Wait]
    BY <2>1, TypedSettle
  <2> QED BY <2>1, <2>2 DEF Typed, TypeOK, Wait, menus, Spinning
<1>3. ASSUME NEW heard \in SUBSET Robot, EndAwaiting(heard) PROVE Typed'
  <2> DEFINE late == Awaited \ heard
  <2>1. /\ pc \in {"awaiting", "await_over"} /\ pc' \in {"dispatch", "report"}
        /\ phases' = Tail(phases) /\ Settle(heard, late) /\ late \in SUBSET Awaited
        /\ UNCHANGED <<resume, menus, detected, todo, stopped, reachable, inbox, busy, crashes, runs,
                       stops>>
    BY <1>3 DEF EndAwaiting
  <2>2. phases' \in Seq(Command)
    <3>1. phases \in Seq(Command) /\ phases # <<>>
      BY <2>1 DEF Typed, TypeOK, RunnerInv, Place, Dispatching
    <3> QED BY <2>1, <3>1, HeadAndTail
  <2> HIDE DEF late
  <2>3. /\ unanswered' \subseteq Robot \X Command
        /\ handles' \in [Robot -> {None} \cup Command]
        /\ replies' \subseteq Robot \X Command \X Answer
        /\ waiting' \in [Robot -> {None} \cup Wait]
    BY <2>1, TypedSettle
  <2> QED BY <2>1, <2>2, <2>3 DEF Typed, TypeOK, Wait, menus
<1>4. ASSUME NEW absent \in SUBSET Robot, Start(absent) PROVE Typed'
  <2> DEFINE command == [r \in Robot |-> IF r \in Idle THEN Head(todo[r]) ELSE None]
  <2>1. /\ pc' = "spin" /\ Sent(Idle, command, absent) /\ absent \subseteq Idle
        /\ todo' = [r \in Robot |-> IF r \in absent THEN Tail(todo[r]) ELSE todo[r]]
        /\ UNCHANGED <<resume, menus, phases, detected, handles, stopped, reachable, busy, replies,
                       crashes, runs, stops>>
    BY <1>4 DEF Start
  <2>2. \A r \in Idle : r \in Robot /\ todo[r] \in Seq(Command) /\ todo[r] # <<>>
    BY DEF Idle, Typed, TypeOK
  <2>3. \A r \in Idle : Head(todo[r]) \in Command /\ Tail(todo[r]) \in Seq(Command)
    BY <2>2, HeadAndTail
  <2>4. \A r \in Idle : command[r] \in Command
    BY <2>2, <2>3
  <2>5. todo' \in [Robot -> Seq(Command)]
    BY <2>1, <2>3 DEF Typed, TypeOK
  <2> HIDE DEF command
  <2>6. /\ unanswered' \subseteq Robot \X Command
        /\ inbox' \in [Robot -> Seq(Command)]
        /\ waiting' \in [Robot -> {None} \cup Wait]
    BY <2>1, <2>2, <2>4, TypedSent
  <2> QED BY <2>1, <2>5, <2>6 DEF Typed, TypeOK, Wait, menus, Spinning
<1>5. ASSUME NEW heard \in SUBSET Robot, NEW late \in SUBSET Robot, Poll(heard, late)
      PROVE  Typed'
  <2>1. /\ pc = "spin" /\ pc' = "top" /\ Settle(heard, late) /\ late \in SUBSET Awaited
        /\ todo' = [r \in Robot |-> IF r \in Awaited /\ waiting'[r] = None
                                    THEN Tail(todo[r]) ELSE todo[r]]
        /\ UNCHANGED <<resume, menus, phases, detected, stopped, reachable, inbox, busy, crashes,
                       runs, stops>>
    BY <1>5 DEF Poll, Deadlines
  <2>2. \A r \in Awaited : todo[r] \in Seq(Command) /\ todo[r] # <<>>
    BY <2>1 DEF RunnerInv, Place, Awaited, Typed, TypeOK
  <2>3. \A r \in Awaited : Tail(todo[r]) \in Seq(Command)
    BY <2>2, HeadAndTail
  <2>4. todo' \in [Robot -> Seq(Command)]
    BY <2>1, <2>3 DEF Typed, TypeOK
  <2>5. /\ unanswered' \subseteq Robot \X Command
        /\ handles' \in [Robot -> {None} \cup Command]
        /\ replies' \subseteq Robot \X Command \X Answer
        /\ waiting' \in [Robot -> {None} \cup Wait]
    BY <2>1, TypedSettle
  <2> QED BY <2>1, <2>4, <2>5 DEF Typed, TypeOK, Wait, menus
<1>6. ASSUME NEW heard \in SUBSET Robot, EndHold(heard) PROVE Typed'
  <2>1. /\ pc' = resume /\ resume' = "main" /\ replies' \subseteq replies
        /\ handles' = [r \in Robot |-> IF r \in heard THEN None ELSE handles[r]]
        /\ UNCHANGED <<menus, phases, detected, todo, waiting, unanswered, stopped, reachable, inbox,
                       busy, crashes, runs, stops>>
    BY <1>6 DEF EndHold
  <2>2. handles' \in [Robot -> {None} \cup Command] /\ replies' \subseteq Robot \X Command \X Answer
    BY <2>1 DEF Typed, TypeOK
  <2> QED BY <2>1, <2>2 DEF Typed, TypeOK, menus, Menu
<1>7. CASE RenderReports \/ EndSequence
  BY <1>7 DEF RenderReports, EndSequence, Read, robots, menus, Typed, TypeOK, Menu
<1> QED BY <1>1, <1>2, <1>3, <1>4, <1>5, <1>6, <1>7 DEF RunnerNext

LEMMA TypedInvariant == Spec => []Typed
<1>1. Typed /\ RunnerInv /\ [Next]_vars => Typed'
  <2>1. Typed /\ UNCHANGED vars => Typed'
    BY DEF vars, menus, progress, robots, Typed, TypeOK
  <2> QED BY <2>1, TypedRobots, TypedMenus, TypedStop, TypedThread DEF Next
<1> QED BY <1>1, TypedInitially, RunnerInvariant, PTL DEF Spec

\* Queues, pipelines, handles and answers are what they are declared to be, for
\* any robots and entries.
THEOREM TypeCorrect == Spec => []TypeOK
<1>1. Typed => TypeOK
  BY DEF Typed
<1> QED BY <1>1, TypedInvariant, PTL
-----------------------------------------------------------------------------
(* One command at a time.  The invariant follows a command from the plan,  *)
(* where no robot knows of it, to its last answer.                         *)

\* Robot r has command c, or has answered it and the answer was not taken.
Known(r, c) == c \in OnItsWay(r) \/ \E o \in Answer : <<r, c, o>> \in replies

Covered(r, c) ==
  \/ IsHold(c) \/ c.run < runs \/ <<r, c>> \in unanswered
  \/ waiting[r] # None /\ waiting[r].command = c

\* Commands of later runs and later holds are new to every robot.
Numbered ==
  \A r \in Robot : \A c : Known(r, c) => c.run <= runs /\ (IsHold(c) => c.part <= stops)

Once == \A r \in Robot : IsInjective(inbox[r]) /\ busy[r] \notin ToSet(inbox[r])

\* The last answer to a command comes when the robot is done with it.
LastAnswers ==
  \A r \in Robot : \A c \in OnItsWay(r) :
    <<r, c, "rejected">> \notin replies /\ <<r, c, "result">> \notin replies

\* Of the commands planned a robot knows at most the one under way.
PipelinesAhead ==
  \A r \in Robot :
    /\ IsInjective(todo[r])
    /\ \A c \in ToSet(todo[r]) :
         /\ c.run = runs /\ ~IsHold(c)
         /\ Known(r, c) => waiting[r] # None /\ c = Head(todo[r])

PhasesAhead ==
  /\ IsInjective(phases)
  /\ \A c \in ToSet(phases) :
       /\ c.run = runs /\ ~IsHold(c)
       /\ \A r \in Robot : Known(r, c) => Place # "dispatch" /\ c = Head(phases)

NothingLeft ==
  /\ Place \in Dispatching \/ phases = <<>>
  /\ Place \in {"top", "spin"} \/ \A r \in Robot : todo[r] = <<>>

Accounted == Place \in Menu \/ \A r \in Robot : \A c \in OnItsWay(r) : Covered(r, c)

SentInv ==
  /\ Numbered /\ Once /\ LastAnswers
  /\ PipelinesAhead /\ PhasesAhead /\ NothingLeft /\ Accounted

LEMMA EmptyOnce == IsInjective(<<>>) /\ ToSet(<<>>) = {}
BY DEF IsInjective, ToSet

LEMMA AppendedOnce ==
  ASSUME NEW S, NEW s \in Seq(S), NEW x \in S, IsInjective(s), x \notin ToSet(s)
  PROVE  IsInjective(Append(s, x)) /\ ToSet(Append(s, x)) = ToSet(s) \cup {x}
<1> DEFINE t == Append(s, x)
<1>1. /\ Len(s) \in Nat /\ DOMAIN s = 1 .. Len(s) /\ DOMAIN t = 1 .. Len(s) + 1
      /\ \A i \in 1 .. Len(s) : t[i] = s[i]
      /\ t[Len(s) + 1] = x
  OBVIOUS
<1> HIDE DEF t
<1>2. DOMAIN t = DOMAIN s \cup {Len(s) + 1}
  BY <1>1
<1>3. \A i \in DOMAIN s : s[i] # x
  BY DEF ToSet
<1>4. IsInjective(t)
  BY <1>1, <1>2, <1>3 DEF IsInjective
<1>5. ToSet(t) = ToSet(s) \cup {x}
  BY <1>1, <1>2 DEF ToSet
<1> QED BY <1>4, <1>5 DEF t

LEMMA TakenOnce ==
  ASSUME NEW S, NEW s \in Seq(S), s # <<>>, IsInjective(s)
  PROVE  /\ IsInjective(Tail(s)) /\ ToSet(Tail(s)) \subseteq ToSet(s)
         /\ Head(s) \in ToSet(s) /\ Head(s) \notin ToSet(Tail(s))
<1> DEFINE t == Tail(s)
<1>1. /\ Len(s) \in Nat /\ Len(s) # 0 /\ DOMAIN s = 1 .. Len(s) /\ DOMAIN t = 1 .. Len(s) - 1
      /\ \A i \in 1 .. Len(s) - 1 : t[i] = s[i + 1]
      /\ Head(s) = s[1]
  OBVIOUS
<1> HIDE DEF t
<1>2. \A i \in DOMAIN t : i \in Int /\ i + 1 \in DOMAIN s /\ i + 1 # 1 /\ t[i] = s[i + 1]
  BY <1>1
<1>3. 1 \in DOMAIN s
  BY <1>1
<1>4. IsInjective(t)
  BY <1>2 DEF IsInjective
<1>5. ToSet(t) \subseteq ToSet(s) /\ Head(s) \in ToSet(s)
  BY <1>1, <1>2, <1>3 DEF ToSet
<1>6. Head(s) \notin ToSet(t)
  BY <1>1, <1>2, <1>3 DEF ToSet, IsInjective
<1> QED BY <1>4, <1>5, <1>6 DEF t

\* A sequence in a strict order has nothing twice.
LEMMA OrderedOnce ==
  ASSUME NEW S, NEW s \in Seq(S), NEW R, Ordered(s, R), \A x \in S : <<x, x>> \notin R
  PROVE  IsInjective(s)
<1>1. DOMAIN s \subseteq Int /\ \A i \in DOMAIN s : s[i] \in S
  OBVIOUS
<1> SUFFICES ASSUME NEW a \in DOMAIN s, NEW b \in DOMAIN s, s[a] = s[b] PROVE a = b
  BY DEF IsInjective
<1>2. ~(a < b) /\ ~(b < a)
  BY <1>1 DEF Ordered
<1> QED BY <1>1, <1>2

LEMMA SentInitially == Init => SentInv
<1> SUFFICES ASSUME Init PROVE SentInv
  OBVIOUS
<1>1. /\ \A r \in Robot : inbox[r] = <<>> /\ busy[r] = None /\ todo[r] = <<>>
      /\ phases = <<>> /\ Place = "main" /\ replies = {}
  BY DEF Init, Place
<1>2. \A r \in Robot : OnItsWay(r) = {} /\ \A c : ~Known(r, c)
  BY <1>1, EmptyOnce DEF OnItsWay, Known
<1> QED BY <1>1, <1>2, EmptyOnce
        DEF SentInv, Numbered, Once, LastAnswers, PipelinesAhead, PhasesAhead, NothingLeft,
            Accounted, Menu

\* The thread stays where it is and the robots have nothing new.
LEMMA PlanRests ==
  ASSUME SentInv, Once', LastAnswers',
         UNCHANGED <<pc, resume, phases, todo, waiting, unanswered, runs, stops>>,
         \A r \in Robot : OnItsWay(r)' \subseteq OnItsWay(r),
         \A r \in Robot : \A c : Known(r, c)' => Known(r, c)
  PROVE  SentInv'
<1>1. Place' = Place
  BY DEF Place
<1>2. Numbered'
  BY DEF SentInv, Numbered
<1>3. PipelinesAhead' /\ PhasesAhead' /\ NothingLeft'
  BY <1>1 DEF SentInv, PipelinesAhead, PhasesAhead, NothingLeft
<1>4. Accounted'
  BY <1>1 DEF SentInv, Accounted, Covered
<1> QED BY <1>2, <1>3, <1>4 DEF SentInv

LEMMA SentRobots == SentInv /\ Typed /\ RobotNext => SentInv'
<1> SUFFICES ASSUME SentInv, Typed, NEW r \in Robot,
                    \/ \E accepts \in BOOLEAN : Take(r, accepts)
                    \/ Finish(r) \/ Crash(r) \/ Rejoin(r)
             PROVE  SentInv'
  BY DEF RobotNext
<1>0. UNCHANGED <<pc, resume, phases, todo, waiting, unanswered, runs, stops>>
  BY DEF Take, Finish, Crash, Rejoin, progress
<1>1. /\ inbox \in [Robot -> Seq(Command)] /\ busy \in [Robot -> {None} \cup Command]
      /\ replies \subseteq Robot \X Command \X Answer
  BY DEF Typed, TypeOK
<1>2. \A s \in Robot : ToSet(inbox[s]) \subseteq Command /\ None \notin ToSet(inbox[s])
  BY <1>1, Sequences, NoneIsNothingSent
<1>3. Once /\ LastAnswers
  BY DEF SentInv
<1>4. ASSUME NEW accepts \in BOOLEAN, Take(r, accepts) PROVE SentInv'
  <2> DEFINE c == Head(inbox[r])
  <2>1. inbox[r] \in Seq(Command) /\ inbox[r] # <<>> /\ IsInjective(inbox[r]) /\ busy[r] = None
    BY <1>1, <1>3, <1>4 DEF Take, Running, Once
  <2>2. /\ IsInjective(Tail(inbox[r])) /\ ToSet(Tail(inbox[r])) \subseteq ToSet(inbox[r])
        /\ c \in ToSet(inbox[r]) /\ c \notin ToSet(Tail(inbox[r]))
    BY <2>1, TakenOnce
  <2>3. /\ inbox'[r] = Tail(inbox[r])
        /\ busy'[r] = IF accepts THEN c ELSE None
        /\ \A s \in Robot \ {r} : inbox'[s] = inbox[s] /\ busy'[s] = busy[s]
    BY <1>1, <1>4 DEF Take
  <2>4. replies' \in {replies, replies \cup {<<r, c, IF accepts THEN "accepted" ELSE "rejected">>}}
    BY <1>4 DEF Take
  <2> HIDE DEF c
  <2>5. \A s \in Robot : OnItsWay(s)' \subseteq OnItsWay(s)
    BY <2>2, <2>3 DEF OnItsWay
  <2>6. c \in OnItsWay(r)
    BY <2>2 DEF OnItsWay
  <2>7. \A s \in Robot : \A d : Known(s, d)' => Known(s, d)
    BY <2>4, <2>5, <2>6 DEF Known
  <2>8. Once'
    BY <1>2, <1>3, <2>2, <2>3 DEF Once
  <2>9. LastAnswers'
    <3> SUFFICES ASSUME NEW s \in Robot, NEW d \in OnItsWay(s)'
                 PROVE  <<s, d, "rejected">> \notin replies' /\ <<s, d, "result">> \notin replies'
      BY DEF LastAnswers
    <3>1. <<s, d, "rejected">> \notin replies /\ <<s, d, "result">> \notin replies
      BY <1>3, <2>5 DEF LastAnswers
    <3>2. ~accepts /\ s = r => d # c
      BY <2>2, <2>3 DEF OnItsWay
    <3> QED BY <2>4, <3>1, <3>2
  <2> QED BY <1>0, <2>5, <2>7, <2>8, <2>9, PlanRests
<1>5. CASE Finish(r)
  <2>1. /\ busy[r] # None /\ inbox' = inbox /\ busy'[r] = None
        /\ \A s \in Robot \ {r} : busy'[s] = busy[s]
        /\ replies' \in {replies, replies \cup {<<r, busy[r], "result">>}}
    BY <1>1, <1>5 DEF Finish, Running
  <2>2. \A s \in Robot : OnItsWay(s)' \subseteq OnItsWay(s)
    BY <2>1 DEF OnItsWay
  <2>3. busy[r] \in OnItsWay(r) /\ busy[r] \notin OnItsWay(r)'
    BY <1>3, <2>1 DEF OnItsWay, Once
  <2>4. \A s \in Robot : \A d : Known(s, d)' => Known(s, d)
    BY <2>1, <2>2, <2>3 DEF Known
  <2>5. Once'
    BY <1>2, <1>3, <2>1 DEF Once
  <2>6. LastAnswers'
    <3> SUFFICES ASSUME NEW s \in Robot, NEW d \in OnItsWay(s)'
                 PROVE  <<s, d, "rejected">> \notin replies' /\ <<s, d, "result">> \notin replies'
      BY DEF LastAnswers
    <3>1. <<s, d, "rejected">> \notin replies /\ <<s, d, "result">> \notin replies
      BY <1>3, <2>2 DEF LastAnswers
    <3>2. s = r => d # busy[r]
      BY <2>3
    <3> QED BY <2>1, <3>1, <3>2
  <2> QED BY <1>0, <2>2, <2>4, <2>5, <2>6, PlanRests
<1>6. CASE Crash(r)
  <2>1. /\ inbox'[r] = <<>> /\ busy'[r] = None /\ replies' = replies
        /\ \A s \in Robot \ {r} : inbox'[s] = inbox[s] /\ busy'[s] = busy[s]
    BY <1>1, <1>6 DEF Crash
  <2>2. \A s \in Robot : OnItsWay(s)' \subseteq OnItsWay(s)
    BY <2>1, EmptyOnce DEF OnItsWay
  <2>3. \A s \in Robot : \A d : Known(s, d)' => Known(s, d)
    BY <2>1, <2>2 DEF Known
  <2>4. Once'
    BY <1>2, <1>3, <2>1, EmptyOnce DEF Once
  <2>5. LastAnswers'
    BY <1>3, <2>1, <2>2 DEF LastAnswers
  <2> QED BY <1>0, <2>2, <2>3, <2>4, <2>5, PlanRests
<1>7. CASE Rejoin(r)
  <2>1. UNCHANGED <<inbox, busy, replies>>
    BY <1>7 DEF Rejoin
  <2>2. Once' /\ LastAnswers'
    BY <1>3, <2>1 DEF Once, LastAnswers, OnItsWay
  <2>3. \A s \in Robot : OnItsWay(s)' \subseteq OnItsWay(s)
    BY <2>1 DEF OnItsWay
  <2>4. \A s \in Robot : \A d : Known(s, d)' => Known(s, d)
    BY <2>1 DEF OnItsWay, Known
  <2> QED BY <1>0, <2>2, <2>3, <2>4, PlanRests
<1> QED BY <1>4, <1>5, <1>6, <1>7

LEMMA KnownCommands ==
  ASSUME Typed, NEW r \in Robot, NEW c, Known(r, c)
  PROVE  c \in Command /\ c.run \in Nat /\ c.part \in Nat
<1>1. inbox[r] \in Seq(Command) /\ busy[r] \in {None} \cup Command
      /\ replies \subseteq Robot \X Command \X Answer
  BY DEF Typed, TypeOK
<1>2. ToSet(inbox[r]) \subseteq Command
  BY <1>1, Sequences
<1>3. c \in Command
  BY <1>1, <1>2 DEF Known, OnItsWay
<1> QED BY <1>3, BoundsAreNatural DEF Command

\* The robots keep what they have; the thread goes to a menu or a playbook.
LEMMA PlanChanges ==
  ASSUME SentInv, Typed, UNCHANGED <<inbox, busy, replies, waiting, stops>>,
         runs' \in {runs, runs + 1},
         PipelinesAhead', PhasesAhead', NothingLeft',
         Place' \in Menu \/ runs' = runs + 1
  PROVE  SentInv'
<1>0. runs \in Nat
  BY BoundsAreNatural DEF Typed, TypeOK
<1>1. \A r \in Robot : OnItsWay(r)' = OnItsWay(r)
  BY DEF OnItsWay
<1>2. \A r \in Robot : \A c : Known(r, c)' => Known(r, c)
  BY <1>1 DEF Known
<1>3. Numbered
  BY DEF SentInv
<1>4. Numbered'
  <2> SUFFICES ASSUME NEW r \in Robot, NEW c, Known(r, c)'
               PROVE  c.run <= runs' /\ (IsHold(c) => c.part <= stops')
    BY DEF Numbered
  <2>1. c.run <= runs /\ (IsHold(c) => c.part <= stops)
    BY <1>2, <1>3 DEF Numbered
  <2>2. CASE runs' = runs
    BY <2>1, <2>2
  <2>3. CASE runs' = runs + 1
    BY <1>0, <1>2, <2>1, <2>3, KnownCommands
  <2> QED BY <2>2, <2>3
<1>5. Once' /\ LastAnswers'
  BY <1>1 DEF SentInv, Once, LastAnswers
<1>6. Accounted'
  <2> SUFFICES ASSUME runs' = runs + 1, NEW r \in Robot, NEW c \in OnItsWay(r)
               PROVE  c.run < runs'
    BY <1>1 DEF Accounted, Covered
  <2>1. c.run <= runs
    BY <1>3 DEF Numbered, Known
  <2> QED BY <1>0, <2>1, KnownCommands DEF Known
<1> QED BY <1>4, <1>5, <1>6 DEF SentInv

\* From a menu to a menu.
LEMMA PlanIsEmpty ==
  ASSUME SentInv, Typed, pc \in Menu, pc' \in Menu,
         UNCHANGED <<progress, inbox, busy, replies, runs, stops>>
  PROVE  SentInv'
<1>1. Place = pc /\ Place' = pc'
  BY DEF Place, Menu
<1>2. phases = <<>> /\ phases' = <<>> /\ \A r \in Robot : todo[r] = <<>> /\ todo'[r] = <<>>
  BY <1>1 DEF SentInv, NothingLeft, Menu, Dispatching, progress
<1>3. PipelinesAhead' /\ PhasesAhead' /\ NothingLeft'
  BY <1>2, EmptyOnce DEF PipelinesAhead, PhasesAhead, NothingLeft
<1> QED BY <1>1, <1>3, PlanChanges DEF progress

LEMMA SentMenus == SentInv /\ Typed /\ OperatorNext /\ ~Stop => SentInv'
<1> SUFFICES ASSUME SentInv, Typed, OperatorNext, ~Stop PROVE SentInv'
  OBVIOUS
<1>0. /\ Numbered /\ runs \in Nat
      /\ pc \in Menu => phases = <<>> /\ \A r \in Robot : todo[r] = <<>>
  BY BoundsAreNatural DEF SentInv, Typed, TypeOK, NothingLeft, Place, Menu, Dispatching
\* Nobody knows of the commands of the next run.
<1>1. \A r \in Robot : \A c : c.run = runs + 1 => ~Known(r, c)
  <2> SUFFICES ASSUME NEW r \in Robot, NEW c, c.run = runs + 1, Known(r, c) PROVE FALSE
    OBVIOUS
  <2>1. c.run <= runs
    BY <1>0 DEF Numbered
  <2> QED BY <1>0, <2>1
<1>2. ASSUME UNCHANGED <<inbox, busy, replies>>
      PROVE  \A r \in Robot : \A c : Known(r, c)' => Known(r, c)
  BY <1>2 DEF Known, OnItsWay
<1>3. ASSUME NEW r \in Robot \cup {None}, SelectTarget(r) PROVE SentInv'
  BY <1>3, PlanIsEmpty DEF SelectTarget, AtMenu, robots, Menu
<1>4. ASSUME NEW n \in Nat, NEW first \in Nat, Playbook(n, first) PROVE SentInv'
  <2>1. /\ pc = "main" /\ pc' = "dispatch" /\ runs' = runs + 1
        /\ phases' = [i \in 1 .. n |-> [run |-> runs + 1, step |-> 1, part |-> first + i - 1]]
        /\ UNCHANGED <<todo, waiting, inbox, busy, replies, stops>>
    BY <1>4 DEF Playbook, AtMenu, robots
  <2>2. \A i \in 1 .. n : phases'[i] = [run |-> runs + 1, step |-> 1, part |-> first + i - 1]
    BY <2>1
  <2>3. DOMAIN phases' = 1 .. n
    BY <2>1
  <2>4. \A i \in 1 .. n :
          /\ phases'[i].run = runs + 1 /\ phases'[i].step = 1
          /\ phases'[i].part = first + i - 1
    <3> SUFFICES ASSUME NEW i \in 1 .. n, NEW c, c = phases'[i]
                 PROVE  c.run = runs + 1 /\ c.step = 1 /\ c.part = first + i - 1
      OBVIOUS
    <3>1. c = [run |-> runs + 1, step |-> 1, part |-> first + i - 1]
      BY <2>2
    <3> QED BY <3>1
  <2>5. IsInjective(phases')
    <3>1. \A i, j \in 1 .. n : phases'[i] = phases'[j] => first + i - 1 = first + j - 1
      BY <2>4
    <3>2. \A i, j \in 1 .. n : first + i - 1 = first + j - 1 => i = j
      OBVIOUS
    <3> QED BY <2>3, <3>1, <3>2 DEF IsInjective
  <2>6. \A c \in ToSet(phases') : c.run = runs + 1 /\ c.step = 1
    BY <2>3, <2>4 DEF ToSet
  <2>7. PhasesAhead'
    <3>1. \A c \in ToSet(phases') : \A r \in Robot : ~Known(r, c)'
      BY <1>1, <1>2, <2>1, <2>6
    <3>2. \A c \in ToSet(phases)' : c.run = runs' /\ ~IsHold(c)
      BY <2>1, <2>6 DEF IsHold
    <3> QED BY <2>5, <3>1, <3>2 DEF PhasesAhead
  <2>8. PipelinesAhead' /\ NothingLeft'
    BY <1>0, <2>1, EmptyOnce DEF PipelinesAhead, NothingLeft, Place, Dispatching, Menu
  <2> QED BY <2>1, <2>7, <2>8, PlanChanges
<1>5. CASE MoveXY \/ ExecuteAll \/ TransitDistance \/ RotateDegrees
  BY <1>4, <1>5, RobotsAndEntries DEF MoveXY, ExecuteAll, TransitDistance, RotateDegrees
<1>6. CASE OpenSequence \/ Back
  BY <1>6, PlanIsEmpty DEF OpenSequence, Back, AtMenu, robots, Menu
<1>7. ASSUME NEW new, Edit(new) PROVE SentInv'
  BY <1>7, PlanIsEmpty DEF Edit, AtMenu, robots, Menu
<1>8. CASE Execute
  <2>1. /\ pc = "sequence" /\ pc' = "top" /\ runs' = runs + 1 /\ runs < MaxRuns
        /\ todo' = [r \in Robot |-> Pipeline(r)]
        /\ UNCHANGED <<phases, waiting, inbox, busy, replies, stops>>
    BY <1>8 DEF Execute, AtMenu, robots
  <2>2. ASSUME NEW r \in Robot
        PROVE  /\ IsInjective(todo'[r])
               /\ \A c \in ToSet(todo'[r]) : c.run = runs' /\ ~IsHold(c)
    <3>1. /\ Pipeline(r) \in Seq(Command) /\ ToSet(Pipeline(r)) = Due(r)
          /\ Ordered(Pipeline(r), Before)
      BY <2>1, PipelinesFollowTheQueue DEF Typed
    <3>2. \A c \in Command : <<c, c>> \notin Before
      BY DEF Before, Command
    <3>3. IsInjective(Pipeline(r))
      BY <3>1, <3>2, OrderedOnce
    <3>4. \A c \in Due(r) : c.run = runs + 1 /\ c.step # 0
      BY DEF Due, Typed, TypeOK
    <3>5. todo'[r] = Pipeline(r)
      BY <2>1
    <3> QED BY <2>1, <3>1, <3>3, <3>4, <3>5 DEF IsHold
  <2>3. PipelinesAhead'
    <3>1. \A r \in Robot : \A c \in ToSet(todo'[r]) : ~Known(r, c)'
      BY <1>1, <1>2, <2>1, <2>2
    <3> QED BY <2>2, <3>1 DEF PipelinesAhead
  <2>4. PhasesAhead' /\ NothingLeft'
    BY <1>0, <2>1, EmptyOnce DEF PhasesAhead, NothingLeft, Place, Menu
  <2> QED BY <2>1, <2>3, <2>4, PlanChanges
<1>9. CASE Clear \/ DeleteLast
  BY <1>7, <1>9 DEF Clear, DeleteLast
<1>10. ASSUME NEW e \in Entry, Add(e) \/ \E i \in 1 .. MaxQueue : Update(i, e)
       PROVE  SentInv'
  BY <1>7, <1>10 DEF Add, Update
<1>11. ASSUME \/ \E i \in 1 .. MaxQueue : Delete(i)
              \/ \E step \in Preset, append \in BOOLEAN : Load(<<step>>, append)
       PROVE  SentInv'
  BY <1>7, <1>11 DEF Delete, Load
<1> QED BY <1>3, <1>5, <1>6, <1>8, <1>9, <1>10, <1>11 DEF OperatorNext

\* Each robot gets a hold no robot has had before.
LEMMA SentStop == SentInv /\ Typed /\ Stop => SentInv'
<1> SUFFICES ASSUME SentInv, Typed, Stop PROVE SentInv'
  OBVIOUS
<1> DEFINE hold == [run |-> 0, step |-> 0, part |-> stops + 1]
<1>0. /\ Numbered /\ Once /\ LastAnswers /\ PipelinesAhead /\ PhasesAhead /\ NothingLeft
      /\ Accounted
      /\ runs \in Nat /\ stops \in Nat
      /\ inbox \in [Robot -> Seq(Command)] /\ busy \in [Robot -> {None} \cup Command]
  BY BoundsAreNatural DEF SentInv, Typed, TypeOK
<1>1. /\ pc \in Menu \cup {"sending", "awaiting", "spin"}
      /\ stops' = stops + 1
      /\ unanswered' = unanswered \cup ReportStopped
      /\ todo' = CommandsLeft
      /\ waiting' = IF pc = "spin" THEN [r \in Robot |-> None] ELSE waiting
      /\ inbox' = [r \in Robot |-> IF r \in reachable THEN Append(inbox[r], hold)
                                   ELSE inbox[r]]
      /\ resume' = AfterStop(pc) /\ pc' \in {"hold", AfterStop(pc)}
      /\ UNCHANGED <<phases, busy, replies, runs>>
  BY DEF Stop, Spinning
<1>2. hold \in Command /\ hold.run = 0 /\ hold.part = stops + 1 /\ IsHold(hold)
  BY <1>0, BoundsAreNatural DEF Command, IsHold
<1>3. Place = pc /\ Place' = AfterStop(pc)
  BY <1>1 DEF Place, AfterStop, Menu
<1> HIDE DEF hold
<1>4. \A r \in Robot : ~Known(r, hold)
  <2> SUFFICES ASSUME NEW r \in Robot, Known(r, hold) PROVE FALSE
    OBVIOUS
  <2>1. stops + 1 <= stops
    BY <1>0, <1>2 DEF Numbered
  <2> QED BY <1>0, <2>1
<1>5. ASSUME NEW r \in Robot
      PROVE  /\ IsInjective(inbox'[r])
             /\ ToSet(inbox'[r]) \subseteq ToSet(inbox[r]) \cup {hold}
             /\ busy[r] \notin ToSet(inbox'[r])
  <2>1. hold \notin ToSet(inbox[r]) /\ hold \notin {busy[r]} \ {None}
    BY <1>4 DEF Known, OnItsWay
  <2>2. busy[r] # hold
    BY <1>2, <2>1, NoneIsNothingSent
  <2>3. IsInjective(Append(inbox[r], hold)) /\ ToSet(Append(inbox[r], hold)) = ToSet(inbox[r]) \cup {hold}
    BY <1>0, <1>2, <2>1, AppendedOnce DEF Once
  <2> QED BY <1>0, <1>1, <2>2, <2>3 DEF Once
<1>6. \A r \in Robot : OnItsWay(r)' \subseteq OnItsWay(r) \cup {hold}
  BY <1>1, <1>5 DEF OnItsWay
<1>7. \A r \in Robot : \A c : Known(r, c)' => Known(r, c) \/ c = hold
  BY <1>1, <1>6 DEF Known
<1>8. Numbered'
  <2> SUFFICES ASSUME NEW r \in Robot, NEW c, Known(r, c)'
               PROVE  c.run <= runs /\ (IsHold(c) => c.part <= stops + 1)
    BY <1>1 DEF Numbered
  <2>1. CASE Known(r, c)
    BY <1>0, <2>1, KnownCommands DEF Numbered
  <2>2. CASE c = hold
    BY <1>0, <1>2, <2>2
  <2> QED BY <1>7, <2>1, <2>2
<1>9. Once'
  BY <1>1, <1>5 DEF Once
<1>10. LastAnswers'
  <2>1. \A r \in Robot : \A o \in Answer : <<r, hold, o>> \notin replies
    BY <1>4 DEF Known
  <2> QED BY <1>0, <1>1, <1>6, <2>1 DEF LastAnswers, Answer
<1>11. PipelinesAhead' /\ NothingLeft'
  <2>1. CASE pc = "spin"
    <3>1. \A r \in Robot : todo'[r] = <<>>
      BY <1>1, <2>1 DEF CommandsLeft
    <3> QED BY <1>0, <1>1, <1>3, <2>1, <3>1, EmptyOnce
            DEF PipelinesAhead, NothingLeft, Dispatching, AfterStop
  <2>2. CASE pc # "spin"
    <3>1. UNCHANGED <<todo, waiting>>
      BY <1>1, <2>2 DEF CommandsLeft
    <3>2. PipelinesAhead'
      BY <1>0, <1>1, <1>2, <1>7, <3>1 DEF PipelinesAhead
    <3>3. NothingLeft'
      BY <1>0, <1>1, <1>3, <2>2, <3>1 DEF NothingLeft, Dispatching, AfterStop, Menu
    <3> QED BY <3>2, <3>3
  <2> QED BY <2>1, <2>2
<1>12. PhasesAhead'
  <2>1. Place' # "dispatch"
    BY <1>1, <1>3 DEF AfterStop, Menu
  <2> QED BY <1>0, <1>1, <1>2, <1>7, <2>1 DEF PhasesAhead
<1>13. Accounted'
  <2> SUFFICES ASSUME Place' \notin Menu, NEW r \in Robot, NEW c \in OnItsWay(r)'
               PROVE  Covered(r, c)'
    BY DEF Accounted
  <2>1. CASE c = hold
    BY <1>2, <2>1 DEF Covered
  <2>2. CASE c \in OnItsWay(r)
    <3>1. Place \notin Menu
      BY <1>3 DEF AfterStop, Menu
    <3>2. Covered(r, c)
      BY <1>0, <2>2, <3>1 DEF Accounted
    <3>3. pc = "spin" /\ waiting[r] # None => <<r, waiting[r].command>> \in unanswered'
      BY <1>1 DEF ReportStopped, Awaited
    <3> QED BY <1>1, <3>2, <3>3 DEF Covered
  <2> QED BY <1>6, <2>1, <2>2
<1> QED BY <1>8, <1>9, <1>10, <1>11, <1>12, <1>13 DEF SentInv

\* Answers are taken, and what is too late stays accounted for.
LEMMA SentSettle ==
  ASSUME SentInv, Typed, NEW heard \in SUBSET Robot, NEW late \in SUBSET Awaited,
         Settle(heard, late), UNCHANGED <<inbox, busy, runs, stops>>
  PROVE  /\ \A r \in Robot : \A c : Known(r, c)' => Known(r, c)
         /\ Numbered' /\ Once' /\ LastAnswers'
         /\ Place \notin Menu => Accounted'
<1> DEFINE accepted == {r \in heard : "accepted" \in Said(r)}
           over == (heard \cup late) \ accepted
<1>1. /\ heard \subseteq Answering
      /\ unanswered' = unanswered \cup {<<r, waiting[r].command>> : r \in late}
      /\ replies' \subseteq replies
      /\ \A r \in Robot :
           waiting'[r] = IF r \in over THEN None
                         ELSE IF r \in accepted THEN [waiting[r] EXCEPT !.mode = "result"]
                         ELSE waiting[r]
  BY DEF Settle
<1>2. /\ \A r \in heard : r \in Awaited /\ Said(r) # {}
      /\ \A r \in Awaited : r \in Robot /\ waiting[r] \in Wait
  BY <1>1 DEF Answering, Awaited, Typed, TypeOK, Wait
<1>3. \A r \in Robot : OnItsWay(r)' = OnItsWay(r)
  BY DEF OnItsWay
<1>4. \A r \in Robot : \A c : Known(r, c)' => Known(r, c)
  BY <1>1, <1>3 DEF Known
<1>5. Numbered' /\ Once' /\ LastAnswers'
  BY <1>1, <1>3, <1>4 DEF SentInv, Numbered, Once, LastAnswers
<1>6. ASSUME NEW r \in Robot, NEW c \in OnItsWay(r), Covered(r, c) PROVE Covered(r, c)'
  <2>1. SUFFICES ASSUME waiting[r] # None, waiting[r].command = c
                 PROVE  <<r, c>> \in unanswered' \/ (waiting'[r] # None /\ waiting'[r].command = c)
    BY <1>1, <1>6 DEF Covered, IsHold
  <2>2. CASE r \in late
    BY <1>1, <2>1, <2>2
  <2>3. CASE r \in accepted
    <3>1. waiting'[r] = [waiting[r] EXCEPT !.mode = "result"] /\ waiting[r] \in Wait
      BY <1>1, <1>2, <2>3
    <3>2. \A w \in Wait : /\ [w EXCEPT !.mode = "result"].command = w.command
                              /\ [w EXCEPT !.mode = "result"] \in Wait
      BY DEF Wait
    <3>3. waiting'[r] # None
      BY <3>1, <3>2, NoneIsNothingSent
    <3> QED BY <2>1, <3>1, <3>2, <3>3
  <2>4. CASE r \in heard \ accepted
    <3>1. <<r, c, "rejected">> \in replies \/ <<r, c, "result">> \in replies
      BY <1>2, <2>1, <2>4 DEF Said, Expected
    <3> QED BY <3>1 DEF SentInv, LastAnswers
  <2>5. CASE r \notin heard \cup late
    BY <1>1, <2>1, <2>5
  <2> QED BY <2>2, <2>3, <2>4, <2>5
<1>7. Place \notin Menu => Accounted'
  BY <1>3, <1>6 DEF SentInv, Accounted
<1> QED BY <1>4, <1>5, <1>7

\* A command goes out that its robot does not know.
LEMMA SentOut ==
  ASSUME SentInv, Typed, NEW to \in SUBSET Robot, NEW command, NEW absent,
         Sent(to, command, absent), UNCHANGED <<busy, replies, runs, stops>>,
         \A r \in to : /\ command[r] \in Command /\ command[r].run = runs
                       /\ ~IsHold(command[r]) /\ ~Known(r, command[r])
                       /\ waiting[r] = None,
         Place \notin Menu
  PROVE  /\ \A r \in to \ absent : \A c : Known(r, c)' => Known(r, c) \/ c = command[r]
         /\ \A r \in Robot \ (to \ absent) :
              waiting'[r] = waiting[r] /\ \A c : Known(r, c)' => Known(r, c)
         /\ \A r \in to \ absent : waiting'[r] # None
         /\ Numbered' /\ Once' /\ LastAnswers' /\ Accounted'
<1>0. /\ Numbered /\ Once /\ LastAnswers /\ Accounted
      /\ runs \in Nat
      /\ inbox \in [Robot -> Seq(Command)] /\ busy \in [Robot -> {None} \cup Command]
  BY BoundsAreNatural DEF SentInv, Typed, TypeOK
<1>1. /\ \A r \in to \ absent :
           /\ inbox'[r] = Append(inbox[r], command[r])
           /\ waiting'[r] = [command |-> command[r],
                             mode |-> IF r \in ActionRobot THEN "send" ELSE "topic"]
      /\ \A r \in Robot \ (to \ absent) : inbox'[r] = inbox[r] /\ waiting'[r] = waiting[r]
      /\ unanswered \subseteq unanswered'
  BY DEF Sent
<1>2. \A r \in to \ absent : waiting'[r] # None /\ waiting'[r].command = command[r]
  <2> SUFFICES ASSUME NEW r \in to \ absent
               PROVE  waiting'[r] # None /\ waiting'[r].command = command[r]
    OBVIOUS
  <2>1. PICK m \in {"topic", "send"} : waiting'[r] = [command |-> command[r], mode |-> m]
    BY <1>1
  <2>2. [command |-> command[r], mode |-> m] \in Wait
    BY DEF Wait
  <2> QED BY <2>1, <2>2, Waits, NoneIsNothingSent
<1>3. ASSUME NEW r \in to \ absent
      PROVE  /\ IsInjective(inbox'[r]) /\ busy[r] \notin ToSet(inbox'[r])
             /\ ToSet(inbox'[r]) = ToSet(inbox[r]) \cup {command[r]}
  <2>1. command[r] \notin ToSet(inbox[r]) /\ command[r] \notin {busy[r]} \ {None}
    BY DEF Known, OnItsWay
  <2>2. busy[r] # command[r]
    BY <2>1, NoneIsNothingSent
  <2>3. /\ IsInjective(Append(inbox[r], command[r]))
        /\ ToSet(Append(inbox[r], command[r])) = ToSet(inbox[r]) \cup {command[r]}
    BY <1>0, <2>1, AppendedOnce DEF Once
  <2> QED BY <1>0, <1>1, <2>2, <2>3 DEF Once
<1>4. /\ \A r \in to \ absent : OnItsWay(r)' = OnItsWay(r) \cup {command[r]}
      /\ \A r \in Robot \ (to \ absent) : OnItsWay(r)' = OnItsWay(r)
  BY <1>1, <1>3 DEF OnItsWay
<1>5. /\ \A r \in to \ absent : \A c : Known(r, c)' => Known(r, c) \/ c = command[r]
      /\ \A r \in Robot \ (to \ absent) : \A c : Known(r, c)' => Known(r, c)
  BY <1>4 DEF Known
<1>6. Numbered'
  <2>1. \A r \in to : command[r].run <= runs
    BY <1>0
  <2> QED BY <1>0, <1>5, <2>1 DEF Numbered
<1>7. Once'
  BY <1>0, <1>1, <1>3 DEF Once
<1>8. LastAnswers'
  <2>1. \A r \in to : \A o \in Answer : <<r, command[r], o>> \notin replies
    BY DEF Known
  <2> SUFFICES ASSUME NEW r \in Robot, NEW c \in OnItsWay(r)'
               PROVE  <<r, c, "rejected">> \notin replies /\ <<r, c, "result">> \notin replies
    BY DEF LastAnswers
  <2>2. c \in OnItsWay(r) \/ (r \in to /\ c = command[r])
    BY <1>4
  <2> QED BY <1>0, <2>1, <2>2 DEF LastAnswers, Answer
<1>9. Accounted'
  <2> SUFFICES ASSUME NEW r \in Robot, NEW c \in OnItsWay(r)' PROVE Covered(r, c)'
    BY DEF Accounted
  <2>1. CASE r \in to \ absent /\ c = command[r]
    BY <1>2, <2>1 DEF Covered
  <2>2. CASE c \in OnItsWay(r)
    <3>1. Covered(r, c)
      BY <1>0, <2>2 DEF Accounted
    <3>2. waiting[r] = None \/ waiting'[r] = waiting[r]
      BY <1>1
    <3> QED BY <1>1, <3>1, <3>2 DEF Covered, IsHold
  <2> QED BY <1>4, <2>1, <2>2
<1> QED BY <1>1, <1>2, <1>5, <1>6, <1>7, <1>8, <1>9

LEMMA SentThread == SentInv /\ Typed /\ RunnerInv /\ RunnerNext => SentInv'
<1> SUFFICES ASSUME SentInv, Typed, RunnerInv, RunnerNext PROVE SentInv'
  OBVIOUS
<1>0. /\ Numbered /\ Once /\ LastAnswers /\ PipelinesAhead /\ PhasesAhead /\ NothingLeft
      /\ Accounted
      /\ phases \in Seq(Command) /\ todo \in [Robot -> Seq(Command)]
  BY DEF SentInv, Typed, TypeOK
<1>1. ASSUME NEW absent \in SUBSET Robot, Dispatch(absent) PROVE SentInv'
  <2> DEFINE to == IF phases[1].part = 0 THEN detected \cap reachable ELSE Targets
             command == [r \in Robot |-> phases[1]]
  <2>1. /\ pc = "dispatch" /\ pc' \in {"await_over", "sending"} /\ Sent(to, command, absent)
        /\ UNCHANGED <<phases, todo, busy, replies, runs, stops>>
    BY <1>1 DEF Dispatch
  <2>2. Place = "dispatch" /\ Place' = pc'
    BY <2>1 DEF Place
  <2>3. phases # <<>> /\ \A r \in Robot : waiting[r] = None /\ todo[r] = <<>>
    BY <1>0, <2>2 DEF RunnerInv, Dispatching, Awaited, NothingLeft
  <2>4. phases[1] \in Command /\ phases[1] \in ToSet(phases) /\ phases[1] = Head(phases)
    <3>1. 1 \in DOMAIN phases
      BY <1>0, <2>3
    <3> QED BY <1>0, <3>1 DEF ToSet
  <2>5. \A r \in Robot : \A c \in ToSet(phases) : ~Known(r, c)
    BY <1>0, <2>2 DEF PhasesAhead
  <2>6. to \in SUBSET Robot
    BY DEF Targets, Typed, TypeOK
  <2>7. \A r \in to : /\ command[r] \in Command /\ command[r].run = runs
                      /\ ~IsHold(command[r]) /\ ~Known(r, command[r])
                      /\ waiting[r] = None
    BY <1>0, <2>3, <2>4, <2>5, <2>6 DEF PhasesAhead
  <2>8. \A r \in Robot : command[r] = Head(phases)
    BY <2>4
  <2>9. Place \notin Menu
    BY <2>2 DEF Menu
  <2> HIDE DEF to, command
  <2>10. /\ \A r \in to \ absent : \A c : Known(r, c)' => Known(r, c) \/ c = command[r]
         /\ \A r \in Robot \ (to \ absent) : \A c : Known(r, c)' => Known(r, c)
         /\ Numbered' /\ Once' /\ LastAnswers' /\ Accounted'
    BY <2>1, <2>6, <2>7, <2>9, SentOut
  <2>11. PhasesAhead'
    <3>1. \A r \in Robot : \A c \in ToSet(phases) : Known(r, c)' => c = Head(phases)
      BY <2>5, <2>8, <2>10
    <3> QED BY <1>0, <2>1, <2>2, <3>1 DEF PhasesAhead
  <2>12. PipelinesAhead' /\ NothingLeft'
    BY <2>1, <2>2, <2>3, EmptyOnce DEF PipelinesAhead, NothingLeft, Dispatching
  <2> QED BY <2>10, <2>11, <2>12 DEF SentInv
<1>2. ASSUME NEW heard \in SUBSET Robot, EndSending(heard) PROVE SentInv'
  <2> DEFINE late == {r \in Awaited : waiting[r].mode = "send"} \ heard
  <2>1. /\ pc \in {"sending", "send_over"} /\ pc' \in {"await_over", "awaiting"}
        /\ Settle(heard, late) /\ late \in SUBSET Awaited
        /\ UNCHANGED <<phases, todo, inbox, busy, runs, stops>>
    BY <1>2 DEF EndSending
  <2> HIDE DEF late
  <2>2. Place = pc /\ Place' = pc'
    BY <2>1 DEF Place
  <2>3. /\ \A r \in Robot : \A c : Known(r, c)' => Known(r, c)
        /\ Numbered' /\ Once' /\ LastAnswers'
        /\ Place \notin Menu => Accounted'
    BY <2>1, SentSettle
  <2>4. Accounted'
    BY <2>1, <2>2, <2>3 DEF Menu
  <2>5. PhasesAhead' /\ NothingLeft'
    BY <1>0, <2>1, <2>2, <2>3 DEF PhasesAhead, NothingLeft, Dispatching
  <2>6. PipelinesAhead'
    BY <1>0, <2>1, <2>2, EmptyOnce DEF PipelinesAhead, NothingLeft
  <2> QED BY <2>3, <2>4, <2>5, <2>6 DEF SentInv
<1>3. ASSUME NEW heard \in SUBSET Robot, EndAwaiting(heard) PROVE SentInv'
  <2> DEFINE late == Awaited \ heard
  <2>1. /\ pc \in {"awaiting", "await_over"}
        /\ pc' = IF Len(phases) > 1 THEN "dispatch" ELSE "report"
        /\ phases' = Tail(phases)
        /\ Settle(heard, late) /\ late \in SUBSET Awaited
        /\ UNCHANGED <<todo, inbox, busy, runs, stops>>
    BY <1>3 DEF EndAwaiting
  <2> HIDE DEF late
  <2>2. Place = pc /\ Place' = pc'
    BY <2>1 DEF Place
  <2>3. /\ \A r \in Robot : \A c : Known(r, c)' => Known(r, c)
        /\ Numbered' /\ Once' /\ LastAnswers'
        /\ Place \notin Menu => Accounted'
    BY <2>1, SentSettle
  <2>4. Accounted'
    BY <2>1, <2>2, <2>3 DEF Menu
  <2>5. phases # <<>> /\ IsInjective(phases)
    BY <1>0, <2>1, <2>2 DEF RunnerInv, Dispatching, PhasesAhead
  <2>6. /\ IsInjective(Tail(phases)) /\ ToSet(Tail(phases)) \subseteq ToSet(phases)
        /\ Head(phases) \notin ToSet(Tail(phases))
    BY <1>0, <2>5, TakenOnce
  <2>7. PhasesAhead'
    BY <1>0, <2>1, <2>3, <2>6 DEF PhasesAhead
  <2>8. NothingLeft'
    <3>1. Len(phases) \in Nat /\ Tail(phases) \in Seq(Command) /\ Len(Tail(phases)) = Len(phases) - 1
      BY <1>0, <2>5, HeadAndTail
    <3>2. ~(Len(phases) > 1) => Tail(phases) = <<>>
      BY <3>1
    <3> QED BY <1>0, <2>1, <2>2, <3>2 DEF NothingLeft, Dispatching
  <2>9. PipelinesAhead'
    BY <1>0, <2>1, <2>2, EmptyOnce DEF PipelinesAhead, NothingLeft
  <2> QED BY <2>3, <2>4, <2>7, <2>8, <2>9 DEF SentInv
<1>4. ASSUME NEW absent \in SUBSET Robot, Start(absent) PROVE SentInv'
  <2> DEFINE command == [r \in Robot |-> IF r \in Idle THEN Head(todo[r]) ELSE None]
  <2>1. /\ pc = "top" /\ pc' = "spin" /\ Sent(Idle, command, absent) /\ absent \subseteq Idle
        /\ todo' = [r \in Robot |-> IF r \in absent THEN Tail(todo[r]) ELSE todo[r]]
        /\ UNCHANGED <<phases, busy, replies, runs, stops>>
    BY <1>4 DEF Start
  <2>2. Place = pc /\ Place' = pc'
    BY <2>1 DEF Place
  <2>3. \A r \in Idle : /\ r \in Robot /\ waiting[r] = None
                        /\ todo[r] \in Seq(Command) /\ todo[r] # <<>> /\ IsInjective(todo[r])
    BY <1>0 DEF Idle, PipelinesAhead
  <2>4. \A r \in Idle : /\ IsInjective(Tail(todo[r])) /\ ToSet(Tail(todo[r])) \subseteq ToSet(todo[r])
                        /\ Head(todo[r]) \in ToSet(todo[r]) /\ Head(todo[r]) \in Command
    BY <2>3, TakenOnce, HeadAndTail
  <2>5. \A r \in Idle : \A c \in ToSet(todo[r]) : ~Known(r, c) /\ c.run = runs /\ ~IsHold(c)
    BY <1>0, <2>3 DEF PipelinesAhead
  <2>6. \A r \in Idle : command[r] = Head(todo[r])
    BY <2>3
  <2> HIDE DEF command
  <2>7. \A r \in Idle : /\ command[r] \in Command /\ command[r].run = runs
                        /\ ~IsHold(command[r]) /\ ~Known(r, command[r])
                        /\ waiting[r] = None
    BY <2>3, <2>4, <2>5, <2>6
  <2>8. Idle \in SUBSET Robot /\ Place \notin Menu
    BY <2>1, <2>2 DEF Idle, Menu
  <2>9. /\ \A r \in Idle \ absent : \A c : Known(r, c)' => Known(r, c) \/ c = command[r]
        /\ \A r \in Robot \ (Idle \ absent) :
             waiting'[r] = waiting[r] /\ \A c : Known(r, c)' => Known(r, c)
        /\ \A r \in Idle \ absent : waiting'[r] # None
        /\ Numbered' /\ Once' /\ LastAnswers' /\ Accounted'
    BY <2>1, <2>7, <2>8, SentOut
  <2>10. PipelinesAhead'
    <3> DEFINE Ahead(r) ==
          /\ IsInjective(todo[r])
          /\ \A c \in ToSet(todo[r]) :
               /\ c.run = runs /\ ~IsHold(c)
               /\ Known(r, c) => waiting[r] # None /\ c = Head(todo[r])
    <3>1. \A r \in Robot : Ahead(r)
      BY <1>0 DEF PipelinesAhead
    <3>2. ASSUME NEW r \in Robot PROVE Ahead(r)'
      <4>1. CASE r \in absent
        <5>1. todo'[r] = Tail(todo[r]) /\ r \in Idle
          BY <2>1, <4>1
        <5>2. \A c : Known(r, c)' => Known(r, c)
          BY <2>9, <4>1
        <5> QED BY <2>1, <2>4, <2>5, <5>1, <5>2 DEF IsHold
      <4>2. CASE r \in Idle \ absent
        <5>1. todo'[r] = todo[r]
          BY <2>1, <4>2
        <5>2. \A c \in ToSet(todo[r]) : Known(r, c)' => c = Head(todo[r])
          BY <2>5, <2>6, <2>9, <4>2
        <5> QED BY <2>1, <2>5, <2>9, <3>1, <4>2, <5>1, <5>2 DEF IsHold
      <4>3. CASE r \notin Idle
        <5>1. todo'[r] = todo[r] /\ waiting'[r] = waiting[r]
          BY <2>1, <2>9, <4>3
        <5>2. \A c : Known(r, c)' => Known(r, c)
          BY <2>9, <4>3
        <5> QED BY <2>1, <3>1, <5>1, <5>2 DEF IsHold
      <4> QED BY <4>1, <4>2, <4>3
    <3> QED BY <3>2 DEF PipelinesAhead
  <2>11. PhasesAhead' /\ NothingLeft'
    BY <1>0, <2>1, <2>2, EmptyOnce DEF PhasesAhead, NothingLeft, Dispatching
  <2> QED BY <2>9, <2>10, <2>11 DEF SentInv
<1>5. ASSUME NEW heard \in SUBSET Robot, NEW late \in SUBSET Robot, Poll(heard, late)
      PROVE  SentInv'
  <2>1. /\ pc = "spin" /\ pc' = "top" /\ Settle(heard, late) /\ late \in SUBSET Awaited
        /\ todo' = [r \in Robot |-> IF r \in Awaited /\ waiting'[r] = None
                                    THEN Tail(todo[r]) ELSE todo[r]]
        /\ UNCHANGED <<phases, inbox, busy, runs, stops>>
    BY <1>5 DEF Poll, Deadlines
  <2>2. Place = pc /\ Place' = pc'
    BY <2>1 DEF Place
  <2>3. /\ \A r \in Robot : \A c : Known(r, c)' => Known(r, c)
        /\ Numbered' /\ Once' /\ LastAnswers'
        /\ Place \notin Menu => Accounted'
    BY <2>1, SentSettle
  <2>4. Accounted'
    BY <2>1, <2>2, <2>3 DEF Menu
  <2>5. PipelinesAhead'
    <3> DEFINE Ahead(r) ==
          /\ IsInjective(todo[r])
          /\ \A c \in ToSet(todo[r]) :
               /\ c.run = runs /\ ~IsHold(c)
               /\ Known(r, c) => waiting[r] # None /\ c = Head(todo[r])
    <3>1. \A r \in Robot : Ahead(r)
      BY <1>0 DEF PipelinesAhead
    <3>2. ASSUME NEW r \in Robot PROVE Ahead(r)'
      <4>1. CASE r \in Awaited /\ waiting'[r] = None
        <5>1. todo'[r] = Tail(todo[r])
          BY <2>1, <4>1
        <5>2. todo[r] # <<>> /\ todo[r] \in Seq(Command) /\ IsInjective(todo[r])
          BY <1>0, <2>1, <2>2, <4>1 DEF RunnerInv, PipelinesAhead
        <5>3. /\ IsInjective(Tail(todo[r])) /\ ToSet(Tail(todo[r])) \subseteq ToSet(todo[r])
              /\ Head(todo[r]) \notin ToSet(Tail(todo[r]))
          BY <5>2, TakenOnce
        <5>4. \A c \in ToSet(Tail(todo[r])) : ~Known(r, c)' /\ c.run = runs /\ ~IsHold(c)
          BY <2>3, <3>1, <5>3
        <5> QED BY <2>1, <5>1, <5>3, <5>4 DEF IsHold
      <4>2. CASE ~(r \in Awaited /\ waiting'[r] = None)
        <5>1. todo'[r] = todo[r]
          BY <2>1, <4>2
        <5>2. waiting[r] # None => waiting'[r] # None
          BY <4>2 DEF Awaited
        <5> QED BY <2>1, <2>3, <3>1, <5>1, <5>2 DEF IsHold
      <4> QED BY <4>1, <4>2
    <3> QED BY <3>2 DEF PipelinesAhead
  <2>6. PhasesAhead' /\ NothingLeft'
    BY <1>0, <2>1, <2>2, EmptyOnce DEF PhasesAhead, NothingLeft, Dispatching
  <2> QED BY <2>3, <2>4, <2>5, <2>6 DEF SentInv
<1>6. ASSUME NEW heard \in SUBSET Robot, EndHold(heard) PROVE SentInv'
  <2>1. /\ pc = "hold" /\ pc' = resume /\ replies' \subseteq replies
        /\ UNCHANGED <<phases, todo, waiting, unanswered, inbox, busy, runs, stops>>
    BY <1>6 DEF EndHold
  <2>2. Place' = Place
    BY <2>1 DEF RunnerInv, Place, Menu
  <2>3. \A r \in Robot : OnItsWay(r)' = OnItsWay(r)
    BY <2>1 DEF OnItsWay
  <2>4. \A r \in Robot : \A c : Known(r, c)' => Known(r, c)
    BY <2>1, <2>3 DEF Known
  <2>5. Numbered' /\ Once' /\ LastAnswers'
    BY <1>0, <2>1, <2>3, <2>4 DEF Numbered, Once, LastAnswers
  <2>6. PipelinesAhead' /\ PhasesAhead' /\ NothingLeft'
    BY <1>0, <2>1, <2>2, <2>4 DEF PipelinesAhead, PhasesAhead, NothingLeft
  <2>7. Accounted'
    BY <1>0, <2>1, <2>2, <2>3 DEF Accounted, Covered
  <2> QED BY <2>5, <2>6, <2>7 DEF SentInv
<1>7. CASE RenderReports \/ EndSequence
  <2>1. /\ pc \in {"report", "top"} /\ pc' \in Menu
        /\ pc = "top" => \A r \in Robot : todo[r] = <<>>
        /\ UNCHANGED <<phases, todo, waiting, inbox, busy, replies, runs, stops>>
    BY <1>7 DEF RenderReports, EndSequence, Read, robots, Menu
  <2>2. Place = pc /\ Place' = pc'
    BY <2>1 DEF Place, Menu
  <2>3. phases' = <<>> /\ \A r \in Robot : todo'[r] = <<>>
    BY <1>0, <2>1, <2>2 DEF NothingLeft, Dispatching
  <2>4. PipelinesAhead' /\ PhasesAhead' /\ NothingLeft'
    BY <2>3, EmptyOnce DEF PipelinesAhead, PhasesAhead, NothingLeft
  <2> QED BY <2>1, <2>2, <2>4, PlanChanges
<1> QED BY <1>1, <1>2, <1>3, <1>4, <1>5, <1>6, <1>7 DEF RunnerNext

LEMMA SentInvariant == Spec => []SentInv
<1>1. SentInv /\ Typed /\ RunnerInv /\ [Next]_vars => SentInv'
  <2>1. SentInv /\ UNCHANGED vars => SentInv'
    <3> SUFFICES ASSUME SentInv, UNCHANGED vars PROVE SentInv'
      OBVIOUS
    <3>1. UNCHANGED <<pc, resume, phases, todo, waiting, unanswered, runs, stops,
                      inbox, busy, replies>>
      BY DEF vars, progress, robots
    <3> QED BY <3>1, PlanRests DEF SentInv, Once, LastAnswers, OnItsWay, Known
  <2> QED BY <2>1, SentRobots, SentMenus, SentStop, SentThread DEF Next
<1> QED BY <1>1, SentInitially, TypedInvariant, RunnerInvariant, PTL DEF Spec

\* While a playbook or a sequence runs, all a robot has of the runner's commands
\* is the one it is to answer, holds, and what the runner gave up waiting for,
\* and it has none twice (_execute_sequence_pipeline, _dispatch_goal).
THEOREM CommandsGoOneByOne == Spec => []OneAtATime
<1>1. SentInv => OneAtATime
  BY DEF SentInv, Accounted, Once, Covered, Place, OneAtATime
<1> QED BY <1>1, SentInvariant, PTL
=============================================================================
