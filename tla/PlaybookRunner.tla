--------------------------- MODULE PlaybookRunner ---------------------------
(***************************************************************************)
(* The terminal from which an operator runs playbooks on the fleet: its    *)
(* menus, the dispatch of one command to many robots, the per-robot        *)
(* pipelines of a queued sequence, and the emergency stop.                 *)
(*                                                                         *)
(* The program is one thread.  Messages from the robots are taken only     *)
(* where it spins: in the waits of a dispatch, in the loop of a sequence   *)
(* and while an emergency stop waits for its holds.  A wait ends with an   *)
(* answer, by its timeout, which may come at any time, or by the stop key. *)
(* A step is what the thread does from one such point to the next.         *)
(*                                                                         *)
(* A robot is reached over a topic, on which it only tells the end of a    *)
(* command, or as an action server, which first accepts the goal.  Its     *)
(* executor takes one command after the other (see UnitExecutor).          *)
(*                                                                         *)
(* Definitions named for how they differ from the one below them are       *)
(* faults a change of the code could bring in; no action uses them.        *)
(***************************************************************************)
EXTENDS Integers, SequencesExt

CONSTANTS
  Robot,
  ActionRobot,  \* the robots found as action servers
  Choosy,       \* those of them that may reject a goal
  Entry,        \* what can be queued: a playbook with its parameters
  Parts,        \* the number of commands an entry compiles to
  Sweep,        \* the number of primitives in playbook 2
  Everyone,     \* the entries that go to all robots, selected or not: moves
  None,
  Preset,       \* bound: the steps found in the files of presets
  MaxQueue,     \* bound on the length of the queue
  MaxRuns,      \* bound on the playbooks and sequences started
  MaxEvents     \* bound on emergency stops and crashes of executors

ASSUME RobotsAndEntries ==
  /\ None \notin Robot /\ ActionRobot \subseteq Robot /\ Choosy \subseteq ActionRobot
  /\ Parts \in [Entry -> Nat \ {0}] /\ Sweep \in Nat \ {0} /\ Everyone \subseteq Entry

ASSUME BoundsAreNatural ==
  /\ Preset \subseteq [entry : Entry, detected : SUBSET Robot]
  /\ MaxQueue \in Nat /\ MaxRuns \in Nat /\ MaxEvents \in Nat

VARIABLES
  pc,        \* where the thread is
  resume,    \* where it goes on after an emergency stop
  selected,  \* selected_robot, None for all
  queue,     \* the queued steps
  phases,    \* the commands the current playbook has still to dispatch
  detected,  \* detected_robots: for whom playbook 1 has planned
  todo,      \* per_robot_cmds of a sequence, from robot_idx on
  waiting,   \* the command a robot is to answer, and what is awaited
  handles,   \* _active_goal_handles
  unanswered, \* the commands of this run reported without an answer
  stopped,   \* an emergency stop was made since the last confirmation
  reachable, \* robots with a heartbeat and an endpoint
  inbox,     \* at a robot, commands not yet taken
  busy,      \* at a robot, the command in execution
  replies,   \* answers on their way, in _topic_results or in futures
  runs, stops, crashes

menus == <<selected, queue>>
robots == <<reachable, inbox, busy, replies, crashes>>
progress == <<phases, detected, todo, waiting, handles, unanswered, stopped>>
vars == <<pc, resume, menus, progress, robots, runs, stops>>

\* A command and the run it belongs to; the parts of a hold are its stops.
Command == [run : 0 .. MaxRuns, step : 0 .. MaxQueue + 1, part : Nat]
IsHold(c) == c.step = 0

\* A command on its way to be answered, and what is awaited of its robot.
Wait == [command : Command, mode : {"topic", "send", "result"}]

ASSUME NoneIsNothingSent == None \notin Command \cup Wait

\* A queued entry, a move with the robots that were detected, if any were.
Step == [entry : Entry, detected : SUBSET Robot]

Menu == {"main", "sequence"}
Spinning == {"sending", "awaiting", "spin", "hold"}
Answer == {"accepted", "rejected", "result"}

TypeOK ==
  /\ pc \in Menu \cup Spinning
            \cup {"dispatch", "send_over", "await_over", "report", "top"}
  /\ resume \in Menu \cup {"send_over", "await_over", "top"}
  /\ selected \in Robot \cup {None}
  /\ queue \in Seq(Step) /\ Len(queue) <= MaxQueue
  /\ phases \in Seq(Command) /\ detected \subseteq Robot
  /\ todo \in [Robot -> Seq(Command)]
  /\ waiting \in [Robot -> {None} \cup Wait]
  /\ handles \in [Robot -> {None} \cup Command]
  /\ replies \subseteq Robot \X Command \X Answer
  /\ unanswered \subseteq Robot \X Command
  /\ stopped \in BOOLEAN
  /\ reachable \subseteq Robot
  /\ inbox \in [Robot -> Seq(Command)]
  /\ busy \in [Robot -> {None} \cup Command]
  /\ runs \in 0 .. MaxRuns /\ stops + crashes \in 0 .. MaxEvents

-----------------------------------------------------------------------------
(* The robots, as the runner meets them.                                   *)

Running(r) == busy[r] # None

\* The executor takes the next command; an action server answers the goal.
Take(r, accepts) ==
  /\ ~Running(r)
  /\ inbox[r] # <<>>
  /\ accepts \/ r \in Choosy
  /\ inbox' = [inbox EXCEPT ![r] = Tail(@)]
  /\ busy' = [busy EXCEPT ![r] = IF accepts THEN Head(inbox[r]) ELSE None]
  /\ \/ /\ r \in ActionRobot
        /\ replies' = replies \cup
             {<<r, Head(inbox[r]), IF accepts THEN "accepted" ELSE "rejected">>}
     \/ r \notin ActionRobot /\ UNCHANGED replies
  /\ UNCHANGED <<pc, resume, menus, progress, reachable, crashes, runs,
                 stops>>

\* It is over, well or not, and the result is published; that of a hold is
\* only shown.
Finish(r) ==
  /\ Running(r)
  /\ busy' = [busy EXCEPT ![r] = None]
  /\ replies' = IF IsHold(busy[r]) THEN replies ELSE replies \cup {<<r, busy[r], "result">>}
  /\ UNCHANGED <<pc, resume, menus, progress, reachable, inbox, crashes, runs,
                 stops>>

\* Its process ends and is started again, without what it held.
Crash(r) ==
  /\ stops + crashes < MaxEvents
  /\ crashes' = crashes + 1
  /\ inbox' = [inbox EXCEPT ![r] = <<>>]
  /\ busy' = [busy EXCEPT ![r] = None]
  /\ reachable' \in {reachable, reachable \ {r}}
  /\ UNCHANGED <<pc, resume, menus, progress, replies, runs, stops>>

\* A robot is discovered again.
Rejoin(r) ==
  /\ r \notin reachable
  /\ reachable' = reachable \cup {r}
  /\ UNCHANGED <<pc, resume, menus, progress, inbox, busy, replies, crashes,
                 runs, stops>>

-----------------------------------------------------------------------------
(* Answers, and what the runner makes of them.                             *)

Awaited == {r \in Robot : waiting[r] # None}

Expected(r) ==
  IF waiting[r].mode = "send" THEN {"accepted", "rejected"} ELSE {"result"}

SaidOfAnyCommand(r) == {a[3] : a \in {b \in replies : b[1] = r}} \cap Expected(r)

\* What robot r says of the command it is to answer, if it does.
Said(r) == {o \in Expected(r) : <<r, waiting[r].command, o>> \in replies}

\* Those of whom an answer may have arrived.
Answering == {r \in Awaited : Said(r) # {}}

KeepNoHandle(over, accepted) ==
  [r \in Robot |-> IF r \in over /\ waiting[r].mode = "result" THEN None
                   ELSE handles[r]]

\* The handle of an accepted goal is kept until its result, or no result.
KeepHandles(over, accepted) ==
  [r \in Robot |-> IF r \in accepted THEN waiting[r].command
                   ELSE IF r \in over /\ waiting[r].mode = "result" THEN None
                   ELSE handles[r]]

\* The answers of heard have arrived, the time of late is over.  They are
\* reported, except for accepted goals, whose results are awaited next.
Settle(heard, late) ==
  LET accepted == {r \in heard : "accepted" \in Said(r)}
      over == (heard \cup late) \ accepted
  IN /\ heard \subseteq Answering
     /\ unanswered' = unanswered \cup {<<r, waiting[r].command>> : r \in late}
     /\ handles' = KeepHandles(over, accepted)
     /\ replies' = {a \in replies : a[1] \notin heard \/ a[2] # waiting[a[1]].command}
     /\ waiting' = [r \in Robot |->
                     IF r \in over THEN None
                     ELSE IF r \in accepted THEN [waiting[r] EXCEPT !.mode = "result"]
                     ELSE waiting[r]]

\* A command goes out to each robot of to; what an action server of absent
\* does not answer in time is skipped.
Sent(to, command, absent) ==
  /\ inbox' = [r \in Robot |-> IF r \in to \ absent
                               THEN Append(inbox[r], command[r]) ELSE inbox[r]]
  /\ waiting' = [r \in Robot |->
       IF r \notin to \ absent THEN waiting[r]
       ELSE [command |-> command[r],
             mode |-> IF r \in ActionRobot THEN "send" ELSE "topic"]]
  /\ unanswered' = unanswered \cup {<<r, command[r]>> : r \in to \cap absent}

-----------------------------------------------------------------------------
(* One command dispatched to all targets, and awaited.                     *)

\* The robots the selection leaves of those reachable.
Targets == {r \in reachable : selected \in {None, r}}

\* All goals are sent first, so that the robots start together.
Dispatch(absent) ==
  /\ pc = "dispatch"
  /\ LET to == IF phases[1].part = 0 THEN detected \cap reachable ELSE Targets
     IN /\ absent \subseteq to \cap ActionRobot
        /\ Sent(to, [r \in Robot |-> phases[1]], absent)
        /\ pc' = IF to \subseteq absent THEN "await_over" ELSE "sending"
  /\ UNCHANGED <<resume, menus, phases, detected, todo, handles, stopped, reachable,
                 busy, replies, crashes, runs, stops>>

\* The wait for the responses of action servers is over.
EndSending(heard) ==
  /\ pc \in {"sending", "send_over"}
  /\ LET sent == {r \in Awaited : waiting[r].mode = "send"}
     IN heard \subseteq sent /\ Settle(heard, sent \ heard)
  /\ pc' = IF \A r \in Robot : waiting'[r] = None THEN "await_over"
           ELSE "awaiting"
  /\ UNCHANGED <<resume, menus, phases, detected, todo, stopped, reachable, inbox, busy,
                 crashes, runs, stops>>

\* The wait for the results is over.  The playbook's next command follows, or
\* what became of them is shown.
EndAwaiting(heard) ==
  /\ pc \in {"awaiting", "await_over"}
  /\ Settle(heard, Awaited \ heard)
  /\ phases' = Tail(phases)
  /\ pc' = IF Len(phases) > 1 THEN "dispatch" ELSE "report"
  /\ UNCHANGED <<resume, menus, detected, todo, stopped, reachable, inbox, busy,
                 crashes, runs, stops>>

\* The operator has read the report.
Read(next) ==
  /\ unanswered' = {} /\ detected' = {}
  /\ pc' = next
  /\ UNCHANGED <<resume, menus, phases, todo, waiting, handles, stopped, robots,
                 runs, stops>>

RenderReports == pc = "report" /\ Read("main")

-----------------------------------------------------------------------------
(* The main menu and the playbooks it starts.                              *)

\* The operator makes a choice; without a run left there is none to prepare.
AtMenu(m) ==
  /\ pc = m
  /\ runs < MaxRuns
  /\ UNCHANGED <<resume, robots, stops>>

SelectTarget(r) ==
  /\ AtMenu("main")
  /\ r \in reachable \cup {None}
  /\ selected' = r
  /\ UNCHANGED <<pc, queue, progress, runs>>

\* A confirmed playbook of n commands.  Part 0 is for the robots detected when
\* its choice was made, as far as they are reachable still.
Playbook(n, first) ==
  /\ AtMenu("main")
  /\ runs' = runs + 1
  /\ phases' = [i \in 1 .. n |-> [run |-> runs + 1, step |-> 1, part |-> first + i - 1]]
  /\ detected' = IF first = 0 THEN reachable ELSE {}
  /\ stopped' = FALSE
  /\ pc' = "dispatch"
  /\ UNCHANGED <<menus, todo, waiting, handles, unanswered>>

\* Playbook 1 needs a robot and goes to every one detected.
MoveXY == reachable # {} /\ Playbook(1, 0)

\* Playbook 2 is a sweep over the primitives, one command after the other.
ExecuteAll == Playbook(Sweep, 1)

\* Playbooks 3 and 4: one command with a duration computed for each robot.
TransitDistance == Playbook(1, 1)
RotateDegrees == Playbook(1, 1)

OpenSequence ==
  /\ AtMenu("main")
  /\ pc' = "sequence"
  /\ UNCHANGED <<menus, progress, runs>>

-----------------------------------------------------------------------------
(* The sequence menu.                                                      *)

Edit(new) ==
  /\ AtMenu("sequence")
  /\ queue' = new
  /\ UNCHANGED <<pc, selected, progress, runs>>

\* A move can be queued only when a robot is detected, and records who is.
CanCollect(e) == e \in Everyone => reachable # {}

Collected(e) == [entry |-> e, detected |-> IF e \in Everyone THEN reachable ELSE {}]

Add(e) ==
  /\ Len(queue) < MaxQueue /\ CanCollect(e)
  /\ Edit(Append(queue, Collected(e)))

\* A step gets new parameters, and a move new robots; the playbook stays.
Update(i, e) ==
  /\ i \in DOMAIN queue /\ CanCollect(e)
  /\ (e \in Everyone) = (queue[i].entry \in Everyone)
  /\ Edit([queue EXCEPT ![i] = Collected(e)])

DeleteLast == queue # <<>> /\ Edit(Front(queue))

Delete(i) == i \in DOMAIN queue /\ Edit(RemoveAt(queue, i))

Clear == Edit(<<>>)

\* A preset is loaded only if each of its steps is sound; the robots it names
\* are those of the day it was saved.
Load(steps, append) ==
  /\ steps # <<>>
  /\ Len(queue) + Len(steps) <= MaxQueue
  /\ Edit(IF append THEN queue \o steps ELSE steps)

Back ==
  /\ AtMenu("sequence")
  /\ pc' = "main"
  /\ queue' = <<>>
  /\ UNCHANGED <<selected, progress, runs>>

-----------------------------------------------------------------------------
(* The per-robot pipelines of a sequence.                                  *)

\* The commands step i of the queue compiles to.
CommandsOf(i) == [p \in 1 .. Parts[queue[i].entry] |->
                    [run |-> runs + 1, step |-> i, part |-> p]]

\* The robots a step goes to: a move to those it was planned for that are
\* reachable still, or to everyone if none of them is, selected or not.
TargetsOf(i) ==
  LET live == queue[i].detected \cap reachable
  IN IF queue[i].entry \notin Everyone THEN Targets
     ELSE IF live # {} THEN live ELSE reachable

\* The commands of robot r, in the order of the queue.
Pipeline(r) ==
  FlattenSeq([i \in DOMAIN queue |-> IF r \in TargetsOf(i) THEN CommandsOf(i) ELSE <<>>])

Execute ==
  /\ AtMenu("sequence")
  /\ queue # <<>>
  /\ runs' = runs + 1
  /\ todo' = [r \in Robot |-> Pipeline(r)]
  /\ stopped' = FALSE
  /\ pc' = "top"
  /\ UNCHANGED <<menus, phases, detected, waiting, handles, unanswered>>

BehindNobody == {r \in Robot : todo[r] # <<>>}

\* Robots with commands left and none to answer.
Idle == {r \in Robot : todo[r] # <<>> /\ waiting[r] = None}

\* Every idle robot gets its next command.
Start(absent) ==
  /\ pc = "top"
  /\ \E r \in Robot : todo[r] # <<>>
  /\ absent \subseteq Idle \cap ActionRobot
  /\ Sent(Idle, [r \in Robot |-> IF r \in Idle THEN Head(todo[r]) ELSE None], absent)
  /\ todo' = [r \in Robot |-> IF r \in absent THEN Tail(todo[r]) ELSE todo[r]]
  /\ pc' = "spin"
  /\ UNCHANGED <<resume, menus, phases, detected, handles, stopped, reachable, busy,
                 replies, crashes, runs, stops>>

DeadlinesOfActions == {r \in Awaited : waiting[r].mode # "topic"}

\* Who has only so long to answer.
Deadlines == Awaited

\* The active commands are polled: some were answered, some are too late.
Poll(heard, late) ==
  /\ pc = "spin"
  /\ late \subseteq Deadlines \ heard
  /\ heard \cup late # {} \/ Awaited = {}
  /\ Settle(heard, late)
  /\ todo' = [r \in Robot |-> IF r \in Awaited /\ waiting'[r] = None
                              THEN Tail(todo[r]) ELSE todo[r]]
  /\ pc' = "top"
  /\ UNCHANGED <<resume, menus, phases, detected, stopped, reachable, inbox, busy, crashes,
                 runs, stops>>

EndSequence ==
  /\ pc = "top"
  /\ \A r \in Robot : todo[r] = <<>>
  /\ Read("sequence")

-----------------------------------------------------------------------------
(* The emergency stop.                                                     *)

WhereItWas(at) == at

\* Where the thread goes on: the waits of a dispatch only end early.
AfterStop(at) ==
  CASE at = "sending" -> "send_over"
    [] at = "awaiting" -> "await_over"
    [] at = "spin" -> "top"
    [] OTHER -> at

CommandsKept == todo

\* A sequence is left with the commands its robots have still to get.
CommandsLeft == IF pc = "spin" THEN [r \in Robot |-> <<>>] ELSE todo

ReportStopped ==
  IF pc = "spin" THEN {<<r, waiting[r].command>> : r \in Awaited} ELSE {}

\* Goals with a handle are cancelled, the wheels of every reachable robot are
\* stopped and each gets a hold.
Stop ==
  /\ pc \in Menu \cup (Spinning \ {"hold"})
  /\ stops + crashes < MaxEvents
  /\ stops' = stops + 1
  /\ stopped' = TRUE
  /\ unanswered' = unanswered \cup ReportStopped
  /\ todo' = CommandsLeft
  /\ waiting' = IF pc = "spin" THEN [r \in Robot |-> None] ELSE waiting
  /\ inbox' = [r \in Robot |->
       IF r \in reachable
       THEN Append(inbox[r], [run |-> 0, step |-> 0, part |-> stops + 1])
       ELSE inbox[r]]
  /\ resume' = AfterStop(pc)
  /\ pc' = IF reachable = {} THEN AfterStop(pc) ELSE "hold"
  /\ UNCHANGED <<menus, phases, detected, handles, reachable, busy, replies,
                 crashes, runs>>

\* The holds are answered, or their time is over; where a robot is known to
\* have accepted its hold, the hold's handle has replaced that of a goal and is
\* dropped.
EndHold(heard) ==
  /\ pc = "hold"
  /\ heard \subseteq {a[1] : a \in {b \in replies : IsHold(b[2]) /\ b[3] = "accepted"}}
  /\ handles' = [r \in Robot |-> IF r \in heard THEN None ELSE handles[r]]
  /\ replies' = {a \in replies : ~IsHold(a[2])}
  /\ pc' = resume
  /\ resume' = "main"
  /\ UNCHANGED <<menus, phases, detected, todo, waiting, unanswered, stopped, reachable, inbox,
                 busy, crashes, runs, stops>>

-----------------------------------------------------------------------------
Init ==
  /\ pc = "main" /\ resume = "main"
  /\ selected = None /\ queue = <<>>
  /\ phases = <<>> /\ detected = {}
  /\ todo = [r \in Robot |-> <<>>]
  /\ waiting = [r \in Robot |-> None]
  /\ handles = [r \in Robot |-> None]
  /\ unanswered = {} /\ stopped = FALSE
  /\ reachable = Robot
  /\ inbox = [r \in Robot |-> <<>>]
  /\ busy = [r \in Robot |-> None]
  /\ replies = {}
  /\ runs = 0 /\ stops = 0 /\ crashes = 0

RobotNext ==
  \E r \in Robot : \/ \E accepts \in BOOLEAN : Take(r, accepts)
                   \/ Finish(r) \/ Crash(r) \/ Rejoin(r)

OperatorNext ==
  \/ \E r \in Robot \cup {None} : SelectTarget(r)
  \/ MoveXY \/ ExecuteAll \/ TransitDistance \/ RotateDegrees
  \/ OpenSequence \/ Back \/ DeleteLast \/ Clear \/ Execute
  \/ \E e \in Entry : Add(e) \/ \E i \in 1 .. MaxQueue : Update(i, e)
  \/ \E i \in 1 .. MaxQueue : Delete(i)
  \/ \E step \in Preset, append \in BOOLEAN : Load(<<step>>, append)
  \/ Stop

RunnerNext ==
  \/ \E set \in SUBSET Robot :
       \/ Dispatch(set) \/ EndSending(set) \/ EndAwaiting(set)
       \/ Start(set) \/ EndHold(set)
       \/ \E late \in SUBSET Robot : Poll(set, late)
  \/ RenderReports \/ EndSequence

Next == RobotNext \/ OperatorNext \/ RunnerNext

\* The thread is scheduled and its timeouts expire.
Fairness == WF_vars(RunnerNext)

Spec == Init /\ [][Next]_vars /\ Fairness
-----------------------------------------------------------------------------
OnItsWay(r) == ToSet(inbox[r]) \cup ({busy[r]} \ {None})

\* "Wait for explicit robot-side completion result to avoid queuing unchecked
\* commands": what a robot has of the runner's commands is the one it is to
\* answer, holds, and what the runner gave up waiting for; it gets none twice.
OneAtATime ==
  pc \notin Menu /\ (pc = "hold" => resume \notin Menu) => \A r \in Robot :
    /\ \A c \in OnItsWay(r) :
         \/ IsHold(c) \/ c.run < runs \/ <<r, c>> \in unanswered
         \/ waiting[r] # None /\ waiting[r].command = c
    /\ IsInjective(inbox[r]) /\ busy[r] \notin ToSet(inbox[r])

\* A command is reported with the answer its robot gave to that command, or as
\* unanswered: a late result of one is never credited to its successor.
CreditIsDeserved ==
  [][\A r \in Awaited :
       \/ waiting'[r] = waiting[r]
       \/ <<r, waiting[r].command>> \in unanswered'
       \/ \E o \in Answer : <<r, waiting[r].command, o>> \in replies]_vars

\* Whenever the stop key may be pressed, each goal that a robot accepted and
\* whose result is awaited has its handle, by which the stop cancels it.
HandlesCoverGoals ==
  pc \in {"top", "spin", "awaiting"} =>
    \A r \in Robot :
      waiting[r] # None /\ waiting[r].mode = "result"
        => handles[r] = waiting[r].command

NothingNew ==
  \A r \in Robot : \A c \in OnItsWay(r)' : IsHold(c) \/ c \in OnItsWay(r)

\* After an emergency stop a sequence sends nothing more to any robot, until
\* the operator starts anew.
SequenceStops == [][stopped /\ phases = <<>> => NothingNew]_vars

\* "Dispatch immediate HOLD to all currently reachable robots", a "software
\* stop for orchestrated motion": after it no playbook sends a robot anything.
StopIsFinal == [][stopped => NothingNew]_vars

\* Whatever robots do not answer, the operator gets the menu back.
RunsEnd == (pc \notin Menu) ~> (pc \in Menu)
=============================================================================
