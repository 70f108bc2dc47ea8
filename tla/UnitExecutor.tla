---------------------------- MODULE UnitExecutor ----------------------------
(***************************************************************************)
(* The executor that drives a robot autonomously: it takes playbook        *)
(* commands from a topic, publishes their twists to the robot's cmd_vel    *)
(* and gives way to a human who teleoperates the robot.                    *)
(*                                                                         *)
(* One thread does everything.  It waits for a subscription to have a      *)
(* message, then takes at most one message of each that had one, the       *)
(* human_override subscription first.  A command is executed within its    *)
(* callback, so that nothing else is taken until it is over.  A step is    *)
(* what the thread does between two sleeps or two callbacks; a tick is the *)
(* time it sleeps between two publications.                                *)
(*                                                                         *)
(* Definitions named for how they differ from the one below them are       *)
(* faults a change of the code could bring in; no action uses them.        *)
(***************************************************************************)
EXTENDS Integers, Sequences, FiniteSets

CONSTANTS
  Command,        \* the messages on execute_playbook_cmd
  Garbled,        \* those that are not JSON
  Malformed,      \* those whose fields cannot be converted
  Invalid,        \* those validate_and_normalize refuses
  Faulty,         \* those whose raw parameters cannot be converted
  Plan,           \* the phases of the others
  Ttl,            \* teleop_override_ttl_s
  OverrideDepth,  \* depth of the human_override subscription
  CommandDepth,   \* depth of the command subscription
  MaxSent,        \* bound on the commands sent
  MaxCrashes      \* bound on the crashes from outside

Sound == Command \ (Garbled \cup Malformed \cup Invalid \cup Faulty)

None == "none"

ASSUME CommandsAreNotNone == None \notin Command

ASSUME PlansHavePhases ==
  Plan \in [Sound -> Seq([moves : BOOLEAN, ticks : Nat])]

ASSUME BoundsAreNatural ==
  /\ Ttl \in Nat /\ MaxSent \in Nat /\ MaxCrashes \in Nat
  /\ OverrideDepth \in Nat \ {0} /\ CommandDepth \in Nat \ {0}

VARIABLES
  overrides,  \* the human_override messages not yet taken
  commands,   \* the commands not yet taken
  unsent,     \* the commands still to be sent
  ready,      \* subscriptions whose callback is due in this pass
  pc,         \* where the thread is
  current,    \* the command in execution
  phase,      \* the phase of its plan
  left,       \* ticks left of that phase
  asserted,   \* _human_override_event
  age,        \* of _last_human_override_monotonic, at most Ttl + 1
  moving,     \* the last message on cmd_vel was not zero
  answer,     \* what became of a command
  heard,      \* history: the last override message taken was active
  said,       \* history: the last override message sent was active
  crashes

queues == <<overrides, commands>>
execution == <<pc, current, phase, left>>
vars == <<queues, unsent, ready, execution, asserted, age, moving, answer,
          heard, said, crashes>>

Answer == {"none", "ok", "refused", "failed", "ignored", "dropped", "lost"}

TypeOK ==
  /\ overrides \in Seq(BOOLEAN) /\ Len(overrides) <= OverrideDepth
  /\ commands \in Seq(Command) /\ Len(commands) <= CommandDepth
  /\ unsent \subseteq Command
  /\ ready \subseteq {"override", "command"}
  /\ pc \in {"waiting", "pass", "running", "asleep", "dead"}
  /\ current \in Sound \cup {None}
  /\ phase \in Nat /\ left \in Nat
  /\ asserted \in BOOLEAN /\ age \in 0 .. (Ttl + 1)
  /\ moving \in BOOLEAN /\ heard \in BOOLEAN /\ said \in BOOLEAN
  /\ answer \in [Command -> Answer]
  /\ crashes \in 0 .. MaxCrashes

-----------------------------------------------------------------------------
(* The subscriptions keep their last messages.                             *)

EnqueueAlways(queue, depth, message) == Append(queue, message)

EnqueueUnlessFull(queue, depth, message) ==
  IF Len(queue) < depth THEN Append(queue, message) ELSE queue

Enqueue(queue, depth, message) ==
  IF Len(queue) < depth THEN Append(queue, message)
                        ELSE Append(Tail(queue), message)

\* A teleoperation asserts or releases its override.
Override(active) ==
  /\ pc # "dead"
  /\ overrides' = Enqueue(overrides, OverrideDepth, active)
  /\ said' = active
  /\ UNCHANGED <<commands, unsent, ready, execution, asserted, age, moving,
                 answer, heard, crashes>>

\* A runner sends a command; a full queue loses its oldest.
Send(c) ==
  /\ pc # "dead"
  /\ c \in unsent
  /\ Cardinality(Command \ unsent) < MaxSent
  /\ unsent' = unsent \ {c}
  /\ commands' = Enqueue(commands, CommandDepth, c)
  /\ answer' = IF Len(commands) < CommandDepth THEN answer
               ELSE [answer EXCEPT ![Head(commands)] = "dropped"]
  /\ UNCHANGED <<overrides, ready, execution, asserted, age, moving, heard,
                 said, crashes>>

-----------------------------------------------------------------------------
(* The thread between two commands.                                        *)

ReadyByPriority ==
  IF overrides # <<>> THEN {"override"}
                      ELSE {s \in {"command"} : commands # <<>>}

\* The subscriptions that have a message.
Ready ==
  {s \in {"override"} : overrides # <<>>} \cup {s \in {"command"} : commands # <<>>}

\* The wait set returns once a subscription has one.
WaitPass ==
  /\ pc = "waiting"
  /\ Ready # {}
  /\ ready' = Ready
  /\ pc' = "pass"
  /\ UNCHANGED <<queues, unsent, current, phase, left, asserted, age, moving,
                 answer, heard, said, crashes>>

EndPass ==
  /\ pc = "pass"
  /\ ready = {}
  /\ pc' = "waiting"
  /\ UNCHANGED <<queues, unsent, ready, current, phase, left, asserted, age,
                 moving, answer, heard, said, crashes>>

\* An override is stamped and stops the robot, a release only takes it back.
TakeOverride ==
  /\ pc = "pass"
  /\ "override" \in ready
  /\ ready' = ready \ {"override"}
  /\ overrides' = Tail(overrides)
  /\ heard' = Head(overrides)
  /\ asserted' = Head(overrides)
  /\ IF Head(overrides)
     THEN age' = 0 /\ moving' = FALSE
     ELSE UNCHANGED <<age, moving>>
  /\ UNCHANGED <<commands, unsent, execution, answer, said, crashes>>

OverriddenTooBriefly == asserted /\ age < Ttl
OverriddenUntilReleased == asserted

\* _is_human_override_active, which also clears an event that is too old.
Overridden == asserted /\ age <= Ttl

\* The callback of the command subscription is next.
CommandTurn ==
  /\ pc = "pass"
  /\ ready = {"command"}

\* The parts of a command's callback that its outcome does not change.
TakeCommand(set) ==
  /\ CommandTurn
  /\ Head(commands) \in set
  /\ commands' = Tail(commands)
  /\ ready' = {}
  /\ UNCHANGED <<overrides, unsent, age, heard, said, crashes>>

Answered(result) ==
  /\ pc' = "pass"
  /\ answer' = [answer EXCEPT ![Head(commands)] = result]
  /\ UNCHANGED <<current, phase, left, moving>>

\* What is not JSON is ignored.
Ignore == TakeCommand(Garbled) /\ Answered("ignored") /\ UNCHANGED asserted

\* Under an override a command is refused, whatever it says.
Refuse ==
  /\ TakeCommand(Command \ (Garbled \cup Malformed))
  /\ Overridden
  /\ Answered("refused")
  /\ asserted' = Overridden

Reject ==
  /\ TakeCommand(Invalid)
  /\ ~Overridden
  /\ Answered("failed")
  /\ asserted' = Overridden

-----------------------------------------------------------------------------
(* The execution of a command.                                             *)

TicksOf(c, p) == IF p \in 1 .. Len(Plan[c]) THEN Plan[c][p].ticks ELSE 0

Begin ==
  /\ TakeCommand(Sound)
  /\ ~Overridden
  /\ asserted' = Overridden
  /\ pc' = "running"
  /\ current' = Head(commands)
  /\ phase' = 1
  /\ left' = TicksOf(Head(commands), 1)
  /\ UNCHANGED <<moving, answer>>

\* run_timed_twist publishes until the phase is over or the command stopped.
PhaseGoesOn == left > 0 /\ ~asserted

InPhase ==
  /\ pc = "running"
  /\ phase \in 1 .. Len(Plan[current])

Publish ==
  /\ InPhase
  /\ PhaseGoesOn
  /\ moving' = Plan[current][phase].moves
  /\ pc' = "asleep"
  /\ UNCHANGED <<queues, unsent, ready, current, phase, left, asserted, age,
                 answer, heard, said, crashes>>

\* At its end the robot is stopped and the next phase begins; a command that
\* is stopped has no next phase.
EndPhase ==
  /\ InPhase
  /\ ~PhaseGoesOn
  /\ moving' = FALSE
  /\ phase' = IF asserted THEN Len(Plan[current]) + 1 ELSE phase + 1
  /\ left' = TicksOf(current, phase')
  /\ UNCHANGED <<queues, unsent, ready, pc, current, asserted, age, answer,
                 heard, said, crashes>>

\* The command is over: the safety brake, and the result.
Finish ==
  /\ pc = "running"
  /\ phase \notin 1 .. Len(Plan[current])
  /\ moving' = FALSE
  /\ answer' = [answer EXCEPT ![current] = "ok"]
  /\ current' = None
  /\ pc' = "pass"
  /\ UNCHANGED <<queues, unsent, ready, phase, left, asserted, age, heard,
                 said, crashes>>

-----------------------------------------------------------------------------
(* Time, and the end of the process.                                       *)

Tick ==
  /\ pc # "dead"
  /\ age' = IF age > Ttl THEN age ELSE age + 1
  /\ left' = IF left = 0 THEN 0 ELSE left - 1
  /\ pc' = IF pc = "asleep" THEN "running" ELSE pc
  /\ UNCHANGED <<queues, unsent, ready, current, phase, asserted, moving,
                 answer, heard, said, crashes>>

\* The process is gone and with it what it had not answered.
Die(unanswered) ==
  /\ pc' = "dead"
  /\ answer' = [c \in Command |-> IF c \in unanswered THEN "lost" ELSE answer[c]]
  /\ current' = None
  /\ overrides' = <<>> /\ commands' = <<>> /\ ready' = {}
  /\ UNCHANGED <<phase, left>>

Waiting == {commands[i] : i \in 1 .. Len(commands)}

\* A field that cannot be converted raises before the override is looked at,
\* a raw parameter after it and within the safety brake.
Raise ==
  /\ CommandTurn
  /\ \/ Head(commands) \in Malformed /\ UNCHANGED <<moving, asserted>>
     \/ /\ Head(commands) \in Faulty /\ ~Overridden
        /\ moving' = FALSE /\ asserted' = Overridden
  /\ Die(Waiting)
  /\ UNCHANGED <<unsent, age, heard, said, crashes>>

\* Killed or interrupted; the brake may or may not still get out.
Crash ==
  /\ pc # "dead"
  /\ crashes < MaxCrashes
  /\ crashes' = crashes + 1
  /\ Die(Waiting \cup ({current} \ {None}))
  /\ moving' \in {moving, FALSE}
  /\ UNCHANGED <<unsent, asserted, age, heard, said>>

\* The service manager starts a new process, which publishes nothing yet.
Restart ==
  /\ pc = "dead"
  /\ pc' = "waiting"
  /\ asserted' = FALSE /\ heard' = FALSE /\ said' = FALSE
  /\ age' = Ttl + 1
  /\ UNCHANGED <<queues, unsent, ready, current, phase, left, moving, answer,
                 crashes>>

-----------------------------------------------------------------------------
Init ==
  /\ overrides = <<>> /\ commands = <<>>
  /\ unsent = Command
  /\ ready = {}
  /\ pc = "waiting" /\ current = None /\ phase = 0 /\ left = 0
  /\ asserted = FALSE /\ age = Ttl + 1
  /\ moving = FALSE
  /\ answer = [c \in Command |-> "none"]
  /\ heard = FALSE /\ said = FALSE
  /\ crashes = 0

ThreadNext ==
  \/ WaitPass \/ EndPass \/ TakeOverride
  \/ Ignore \/ Refuse \/ Reject \/ Begin \/ Raise
  \/ Publish \/ EndPhase \/ Finish

Next ==
  \/ \E active \in BOOLEAN : Override(active)
  \/ \E c \in Command : Send(c)
  \/ ThreadNext
  \/ Tick \/ Crash \/ Restart

\* The thread is scheduled, time passes and the service manager restarts.
Fairness == WF_vars(ThreadNext) /\ WF_vars(Tick) /\ WF_vars(Restart)

Spec == Init /\ [][Next]_vars /\ Fairness

-----------------------------------------------------------------------------
\* From the callback that takes an override until its release or its end by
\* age, the executor keeps its hands off the wheels.
HandsOff == heard /\ age <= Ttl => ~moving

\* The last word of the human is not lost, however many came while a command
\* blocked the thread: it is the last in the queue or the last one taken.
LastWordCounts ==
  pc # "dead" =>
    IF overrides = <<>> THEN heard = said
                        ELSE overrides[Len(overrides)] = said

\* Overrides that keep coming do not starve the commands: each one sent is
\* answered, ignored, dropped by the full queue or lost with the process.
CommandsAreSettled ==
  \A c \in Command : (c \notin unsent) ~> (answer[c] # "none")

\* A teleoperation that falls silent without a release gives the robot back.
OverridesEnd == []<>(overrides # <<>>) \/ []<>~Overridden

\* "Preempt active autonomous commands immediately": a command whose phase
\* ends while an override waits in the subscription begins no further phase.
OverrideWaits == TRUE \in {overrides[i] : i \in 1 .. Len(overrides)}

Preempts ==
  [][OverrideWaits /\ InPhase /\ phase' # phase => phase' > Len(Plan[current])]_vars
=============================================================================
