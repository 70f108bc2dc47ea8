------------------------- MODULE UnitExecutor_proofs ------------------------
(* Proofs about UnitExecutor, for any commands, plans and queue depths.    *)
EXTENDS UnitExecutor, SequenceTheorems, TLAPS

-----------------------------------------------------------------------------
(* The queues.                                                             *)

\* A bounded queue stays a queue within its bound, is not empty afterwards
\* and ends with the message that came last.
LEMMA EnqueueKeepsTheLast ==
  ASSUME NEW S, NEW q \in Seq(S), NEW depth \in Nat \ {0}, NEW m \in S,
         Len(q) <= depth
  PROVE  /\ Enqueue(q, depth, m) \in Seq(S)
         /\ Len(Enqueue(q, depth, m)) \in 1 .. depth
         /\ Enqueue(q, depth, m) # <<>>
         /\ Enqueue(q, depth, m)[Len(Enqueue(q, depth, m))] = m
<1>1. CASE Len(q) < depth
  <2>1. Enqueue(q, depth, m) = Append(q, m)  BY <1>1 DEF Enqueue
  <2>2. /\ Append(q, m) \in Seq(S)
        /\ Len(Append(q, m)) = Len(q) + 1
        /\ Append(q, m)[Len(q) + 1] = m
    OBVIOUS
  <2> QED  BY <1>1, <2>1, <2>2
<1>2. CASE ~(Len(q) < depth)
  <2>1. Enqueue(q, depth, m) = Append(Tail(q), m)  BY <1>2 DEF Enqueue
  <2>2. Len(q) = depth /\ q # <<>>  BY <1>2
  <2>3. Tail(q) \in Seq(S) /\ Len(Tail(q)) = depth - 1  BY <2>2
  <2>4. /\ Append(Tail(q), m) \in Seq(S)
        /\ Len(Append(Tail(q), m)) = depth
        /\ Append(Tail(q), m)[depth] = m
    BY <2>3
  <2> QED  BY <2>1, <2>4
<1> QED  BY <1>1, <1>2

\* A queue whose first message is taken loses that message only.
LEMMA RestOfQueue ==
  ASSUME NEW S, NEW q \in Seq(S), NEW t \in Seq(S), Len(q) \in Nat \ {0},
         Len(t) = Len(q) - 1, \A i \in 1 .. Len(t) : t[i] = q[i + 1]
  PROVE  /\ t = <<>> => Len(q) = 1
         /\ t # <<>> => t[Len(t)] = q[Len(q)]
<1>1. t = <<>> => Len(t) = 0  OBVIOUS
<1>2. ASSUME t # <<>> PROVE t[Len(t)] = q[Len(q)]
  <2>1. Len(t) \in 1 .. Len(t)  BY <1>2, EmptySeq
  <2>2. t[Len(t)] = q[Len(t) + 1]  BY <2>1
  <2>3. Len(t) + 1 = Len(q)  OBVIOUS
  <2> QED  BY <2>2, <2>3
<1> QED  BY <1>1, <1>2

\* The head of a queue is a message, and what remains is within its bound.
LEMMA TakingKeepsTheRest ==
  ASSUME NEW S, NEW q \in Seq(S), q # <<>>
  PROVE  /\ Head(q) \in S
         /\ Tail(q) \in Seq(S)
         /\ Len(Tail(q)) = Len(q) - 1
         /\ Tail(q) = <<>> => Head(q) = q[Len(q)]
         /\ Tail(q) # <<>> => Tail(q)[Len(Tail(q))] = q[Len(q)]
<1>1. /\ Head(q) \in S
      /\ Tail(q) \in Seq(S)
      /\ Len(Tail(q)) = Len(q) - 1
      /\ \A i \in 1 .. Len(Tail(q)) : Tail(q)[i] = q[i + 1]
  BY HeadTailProperties
<1>2. Len(q) \in Nat \ {0}  BY EmptySeq
<1>3. Head(q) = q[1]  OBVIOUS
<1>4. Tail(q) = <<>> => Len(q) = 1  BY <1>1, <1>2, RestOfQueue
<1>5. Tail(q) # <<>> => Tail(q)[Len(Tail(q))] = q[Len(q)]
  BY <1>1, <1>2, RestOfQueue
<1> QED  BY <1>1, <1>3, <1>4, <1>5

\* The number of ticks of a phase is a number.
LEMMA TicksAreNatural ==
  ASSUME NEW c \in Sound, NEW p \in Nat
  PROVE  TicksOf(c, p) \in Nat
<1>1. Plan[c] \in Seq([moves : BOOLEAN, ticks : Nat])  BY PlansHavePhases
<1>2. CASE p \in 1 .. Len(Plan[c])
  <2>1. Plan[c][p] \in [moves : BOOLEAN, ticks : Nat]  BY <1>1, <1>2, ElementOfSeq
  <2> QED  BY <1>2, <2>1 DEF TicksOf
<1>3. CASE p \notin 1 .. Len(Plan[c])  BY <1>3 DEF TicksOf
<1> QED  BY <1>2, <1>3

-----------------------------------------------------------------------------
(* The inductive invariant.                                                *)

\* A callback is due only in a pass, and only for a message that is there.
CallbacksHaveMessages ==
  /\ ready # {} => pc = "pass"
  /\ "override" \in ready => overrides # <<>>
  /\ "command" \in ready => commands # <<>>

\* The thread executes a command that has a plan, which it began when no
\* override was in force; nothing it could take one from happens meanwhile.
ExecutionIsUndisturbed ==
  pc \in {"running", "asleep"} => current \in Sound /\ ~asserted

\* A dead process has no queues.
DeadForget == pc = "dead" => overrides = <<>>

\* The event is cleared by a release or by its age only.
EventIsHeard == heard /\ age <= Ttl => asserted

ExecutorInv ==
  /\ TypeOK
  /\ CallbacksHaveMessages
  /\ ExecutionIsUndisturbed
  /\ DeadForget
  /\ EventIsHeard
  /\ HandsOff
  /\ LastWordCounts

LEMMA InitInv == Init => ExecutorInv
<1> SUFFICES ASSUME Init PROVE ExecutorInv  OBVIOUS
<1> USE DEF Init
<1>1. TypeOK
  <2>1. overrides \in Seq(BOOLEAN) /\ Len(overrides) <= OverrideDepth
    BY BoundsAreNatural, EmptySeq
  <2>2. commands \in Seq(Command) /\ Len(commands) <= CommandDepth
    BY BoundsAreNatural, EmptySeq
  <2>3. answer \in [Command -> Answer]  BY DEF Answer
  <2>4. ready \subseteq {"override", "command"} /\ unsent \subseteq Command
    OBVIOUS
  <2>5. age \in 0 .. (Ttl + 1) /\ crashes \in 0 .. MaxCrashes
    BY BoundsAreNatural
  <2> QED  BY <2>1, <2>2, <2>3, <2>4, <2>5 DEF TypeOK
<1>2. CallbacksHaveMessages /\ ExecutionIsUndisturbed /\ DeadForget
  BY DEF CallbacksHaveMessages, ExecutionIsUndisturbed, DeadForget
<1>3. EventIsHeard /\ HandsOff /\ LastWordCounts
  BY DEF EventIsHeard, HandsOff, LastWordCounts
<1> QED  BY <1>1, <1>2, <1>3 DEF ExecutorInv

\* What every step keeps, one action at a time.
LEMMA StepInv == ExecutorInv /\ [Next]_vars => ExecutorInv'
<1> SUFFICES ASSUME ExecutorInv, [Next]_vars PROVE ExecutorInv'
  OBVIOUS
<1>a. /\ TypeOK /\ CallbacksHaveMessages /\ ExecutionIsUndisturbed
      /\ DeadForget /\ EventIsHeard /\ HandsOff /\ LastWordCounts
  BY DEF ExecutorInv
<1>b. /\ overrides \in Seq(BOOLEAN) /\ Len(overrides) <= OverrideDepth
      /\ commands \in Seq(Command) /\ Len(commands) <= CommandDepth
      /\ OverrideDepth \in Nat \ {0} /\ CommandDepth \in Nat \ {0}
      /\ Ttl \in Nat /\ MaxCrashes \in Nat
  BY <1>a, BoundsAreNatural DEF TypeOK
<1>1. ASSUME NEW active \in BOOLEAN, Override(active) PROVE ExecutorInv'
  <2>0. /\ overrides' \in Seq(BOOLEAN)
        /\ Len(overrides') \in 1 .. OverrideDepth
        /\ overrides' # <<>>
        /\ overrides'[Len(overrides')] = active
    <3>1. overrides' = Enqueue(overrides, OverrideDepth, active)
      BY <1>1 DEF Override
    <3>2. /\ Enqueue(overrides, OverrideDepth, active) \in Seq(BOOLEAN)
          /\ Len(Enqueue(overrides, OverrideDepth, active)) \in 1 .. OverrideDepth
          /\ Enqueue(overrides, OverrideDepth, active) # <<>>
          /\ Enqueue(overrides, OverrideDepth, active)
               [Len(Enqueue(overrides, OverrideDepth, active))] = active
      <4>1. \A q \in Seq(BOOLEAN), d \in Nat \ {0}, m \in BOOLEAN : Len(q) <= d =>
              /\ Enqueue(q, d, m) \in Seq(BOOLEAN)
              /\ Len(Enqueue(q, d, m)) \in 1 .. d
              /\ Enqueue(q, d, m) # <<>>
              /\ Enqueue(q, d, m)[Len(Enqueue(q, d, m))] = m
        BY EnqueueKeepsTheLast, Zenon
      <4> QED  BY <1>1, <1>b, <4>1, Zenon
    <3> QED  BY <3>1, <3>2, Zenon
  <2>1. TypeOK'
    BY <1>1, <1>a, <1>b, <2>0
    DEF Override, queues, execution, TypeOK, Answer
  <2>2. (CallbacksHaveMessages /\ ExecutionIsUndisturbed /\ DeadForget)'
    BY <1>1, <1>a, <1>b, <2>0
    DEF Override, queues, execution, TypeOK, CallbacksHaveMessages,
        ExecutionIsUndisturbed, DeadForget
  <2>3. (EventIsHeard /\ HandsOff /\ LastWordCounts)'
    BY <1>1, <1>a, <1>b, <2>0
    DEF Override, queues, execution, TypeOK, CallbacksHaveMessages,
        ExecutionIsUndisturbed, DeadForget, EventIsHeard, HandsOff,
        LastWordCounts
  <2> QED  BY <2>1, <2>2, <2>3 DEF ExecutorInv
<1>2. ASSUME NEW c \in Command, Send(c) PROVE ExecutorInv'
  <2>0. /\ commands' \in Seq(Command)
        /\ Len(commands') \in 1 .. CommandDepth
        /\ commands' # <<>>
    BY <1>2, <1>b, EnqueueKeepsTheLast DEF Send
  <2>a. answer' \in [Command -> Answer]  BY <1>2, <1>a DEF Send, TypeOK, Answer
  <2>1. TypeOK'
    BY <1>2, <1>a, <1>b, <2>0, <2>a
    DEF Send, queues, execution, TypeOK, Answer
  <2>2. (CallbacksHaveMessages /\ ExecutionIsUndisturbed /\ DeadForget)'
    BY <1>2, <1>a, <1>b, <2>0
    DEF Send, queues, execution, TypeOK, CallbacksHaveMessages,
        ExecutionIsUndisturbed, DeadForget
  <2>3. (EventIsHeard /\ HandsOff /\ LastWordCounts)'
    BY <1>2, <1>a, <1>b, <2>0
    DEF Send, queues, execution, TypeOK, CallbacksHaveMessages,
        ExecutionIsUndisturbed, DeadForget, EventIsHeard, HandsOff,
        LastWordCounts
  <2> QED  BY <2>1, <2>2, <2>3 DEF ExecutorInv
<1>3. ASSUME WaitPass PROVE ExecutorInv'
  <2>1. TypeOK'
    BY <1>3, <1>a, <1>b
    DEF WaitPass, Ready, queues, execution, TypeOK, Answer
  <2>2. (CallbacksHaveMessages /\ ExecutionIsUndisturbed /\ DeadForget)'
    BY <1>3, <1>a, <1>b
    DEF WaitPass, Ready, queues, execution, TypeOK, CallbacksHaveMessages,
        ExecutionIsUndisturbed, DeadForget
  <2>3. (EventIsHeard /\ HandsOff /\ LastWordCounts)'
    BY <1>3, <1>a, <1>b
    DEF WaitPass, Ready, queues, execution, TypeOK, CallbacksHaveMessages,
        ExecutionIsUndisturbed, DeadForget, EventIsHeard, HandsOff,
        LastWordCounts
  <2> QED  BY <2>1, <2>2, <2>3 DEF ExecutorInv
<1>4. ASSUME EndPass PROVE ExecutorInv'
  <2>1. TypeOK'
    BY <1>4, <1>a, <1>b
    DEF EndPass, queues, execution, TypeOK, Answer
  <2>2. (CallbacksHaveMessages /\ ExecutionIsUndisturbed /\ DeadForget)'
    BY <1>4, <1>a, <1>b
    DEF EndPass, queues, execution, TypeOK, CallbacksHaveMessages,
        ExecutionIsUndisturbed, DeadForget
  <2>3. (EventIsHeard /\ HandsOff /\ LastWordCounts)'
    BY <1>4, <1>a, <1>b
    DEF EndPass, queues, execution, TypeOK, CallbacksHaveMessages,
        ExecutionIsUndisturbed, DeadForget, EventIsHeard, HandsOff,
        LastWordCounts
  <2> QED  BY <2>1, <2>2, <2>3 DEF ExecutorInv
<1>5. ASSUME TakeOverride PROVE ExecutorInv'
  <2>0. /\ overrides # <<>>
        /\ Head(overrides) \in BOOLEAN
        /\ Tail(overrides) \in Seq(BOOLEAN)
        /\ Len(Tail(overrides)) <= OverrideDepth
        /\ Tail(overrides) = <<>> => Head(overrides) = overrides[Len(overrides)]
        /\ Tail(overrides) # <<>> =>
             Tail(overrides)[Len(Tail(overrides))] = overrides[Len(overrides)]
    <3>1. overrides # <<>>
      BY <1>5, <1>a DEF TakeOverride, CallbacksHaveMessages
    <3>2. /\ Head(overrides) \in BOOLEAN
          /\ Tail(overrides) \in Seq(BOOLEAN)
          /\ Len(Tail(overrides)) = Len(overrides) - 1
          /\ Tail(overrides) = <<>> => Head(overrides) = overrides[Len(overrides)]
          /\ Tail(overrides) # <<>> =>
               Tail(overrides)[Len(Tail(overrides))] = overrides[Len(overrides)]
      BY <3>1, <1>b, TakingKeepsTheRest, Zenon
    <3>3. Len(overrides) \in Nat  BY <1>b, LenProperties
    <3>4. Len(Tail(overrides)) <= OverrideDepth
      BY <3>2, <3>3, <1>b
    <3> QED  BY <3>1, <3>2, <3>4, Zenon
  <2>1. TypeOK'
    <3>1. (overrides \in Seq(BOOLEAN) /\ Len(overrides) <= OverrideDepth)'
      BY <1>5, <1>a, <1>b, <2>0 DEF TakeOverride, queues, execution
    <3>2. (commands \in Seq(Command) /\ Len(commands) <= CommandDepth)'
      BY <1>5, <1>a, <1>b, <2>0 DEF TakeOverride, queues, execution
    <3>3. (/\ unsent \subseteq Command
           /\ ready \subseteq {"override", "command"}
           /\ pc \in {"waiting", "pass", "running", "asleep", "dead"}
           /\ current \in Sound \cup {None}
           /\ phase \in Nat /\ left \in Nat)'
      BY <1>5, <1>a DEF TakeOverride, queues, execution, TypeOK
    <3>4. (asserted \in BOOLEAN /\ moving \in BOOLEAN /\ heard \in BOOLEAN
           /\ said \in BOOLEAN)'
      BY <1>5, <1>a, <2>0 DEF TakeOverride, queues, execution, TypeOK
    <3>5. (age \in 0 .. (Ttl + 1) /\ crashes \in 0 .. MaxCrashes)'
      <4>1. age' = 0 \/ age' = age  BY <1>5 DEF TakeOverride
      <4>2. crashes' = crashes  BY <1>5 DEF TakeOverride
      <4> QED  BY <1>a, <1>b, <4>1, <4>2 DEF TypeOK
    <3>6. (answer \in [Command -> Answer])'
      BY <1>5, <1>a, <2>0 DEF TakeOverride, queues, execution, TypeOK
    <3> QED  BY <3>1, <3>2, <3>3, <3>4, <3>5, <3>6 DEF TypeOK
  <2>2. (CallbacksHaveMessages /\ ExecutionIsUndisturbed /\ DeadForget)'
    BY <1>5, <1>a, <1>b, <2>0
    DEF TakeOverride, queues, execution, TypeOK, CallbacksHaveMessages,
        ExecutionIsUndisturbed, DeadForget
  <2>3. (EventIsHeard /\ HandsOff /\ LastWordCounts)'
    BY <1>5, <1>a, <1>b, <2>0
    DEF TakeOverride, queues, execution, TypeOK, CallbacksHaveMessages,
        ExecutionIsUndisturbed, DeadForget, EventIsHeard, HandsOff,
        LastWordCounts
  <2> QED  BY <2>1, <2>2, <2>3 DEF ExecutorInv
<1>6. ASSUME Ignore PROVE ExecutorInv'
  <2>0. /\ pc = "pass" /\ ready = {"command"} /\ commands # <<>>
        /\ Head(commands) \in Command
        /\ Tail(commands) \in Seq(Command)
        /\ Len(Tail(commands)) <= CommandDepth
    BY <1>6, <1>a, <1>b, TakingKeepsTheRest
    DEF Ignore, TakeCommand, CommandTurn, CallbacksHaveMessages
  <2>a. answer' \in [Command -> Answer]
    BY <1>6, <1>a, <2>0 DEF Ignore, Answered, TypeOK, Answer
  <2>1. TypeOK'
    BY <1>6, <1>a, <1>b, <2>0, <2>a
    DEF Ignore, TakeCommand, Answered, Overridden, queues, execution, TypeOK,
        Answer
  <2>2. (CallbacksHaveMessages /\ ExecutionIsUndisturbed /\ DeadForget)'
    BY <1>6, <1>a, <1>b, <2>0
    DEF Ignore, TakeCommand, Answered, Overridden, queues, execution, TypeOK,
        CallbacksHaveMessages, ExecutionIsUndisturbed, DeadForget
  <2>3. (EventIsHeard /\ HandsOff /\ LastWordCounts)'
    BY <1>6, <1>a, <1>b, <2>0
    DEF Ignore, TakeCommand, Answered, Overridden, queues, execution, TypeOK,
        CallbacksHaveMessages, ExecutionIsUndisturbed, DeadForget,
        EventIsHeard, HandsOff, LastWordCounts
  <2> QED  BY <2>1, <2>2, <2>3 DEF ExecutorInv
<1>7. ASSUME Refuse PROVE ExecutorInv'
  <2>0. /\ pc = "pass" /\ ready = {"command"} /\ commands # <<>>
        /\ Head(commands) \in Command
        /\ Tail(commands) \in Seq(Command)
        /\ Len(Tail(commands)) <= CommandDepth
    BY <1>7, <1>a, <1>b, TakingKeepsTheRest
    DEF Refuse, TakeCommand, CommandTurn, CallbacksHaveMessages
  <2>a. answer' \in [Command -> Answer]
    BY <1>7, <1>a, <2>0 DEF Refuse, Answered, TypeOK, Answer
  <2>1. TypeOK'
    BY <1>7, <1>a, <1>b, <2>0, <2>a
    DEF Refuse, TakeCommand, Answered, Overridden, queues, execution, TypeOK,
        Answer
  <2>2. (CallbacksHaveMessages /\ ExecutionIsUndisturbed /\ DeadForget)'
    BY <1>7, <1>a, <1>b, <2>0
    DEF Refuse, TakeCommand, Answered, Overridden, queues, execution, TypeOK,
        CallbacksHaveMessages, ExecutionIsUndisturbed, DeadForget
  <2>3. (EventIsHeard /\ HandsOff /\ LastWordCounts)'
    BY <1>7, <1>a, <1>b, <2>0
    DEF Refuse, TakeCommand, Answered, Overridden, queues, execution, TypeOK,
        CallbacksHaveMessages, ExecutionIsUndisturbed, DeadForget,
        EventIsHeard, HandsOff, LastWordCounts
  <2> QED  BY <2>1, <2>2, <2>3 DEF ExecutorInv
<1>8. ASSUME Reject PROVE ExecutorInv'
  <2>0. /\ pc = "pass" /\ ready = {"command"} /\ commands # <<>>
        /\ Head(commands) \in Command
        /\ Tail(commands) \in Seq(Command)
        /\ Len(Tail(commands)) <= CommandDepth
    BY <1>8, <1>a, <1>b, TakingKeepsTheRest
    DEF Reject, TakeCommand, CommandTurn, CallbacksHaveMessages
  <2>a. answer' \in [Command -> Answer]
    BY <1>8, <1>a, <2>0 DEF Reject, Answered, TypeOK, Answer
  <2>1. TypeOK'
    BY <1>8, <1>a, <1>b, <2>0, <2>a
    DEF Reject, TakeCommand, Answered, Overridden, queues, execution, TypeOK,
        Answer
  <2>2. (CallbacksHaveMessages /\ ExecutionIsUndisturbed /\ DeadForget)'
    BY <1>8, <1>a, <1>b, <2>0
    DEF Reject, TakeCommand, Answered, Overridden, queues, execution, TypeOK,
        CallbacksHaveMessages, ExecutionIsUndisturbed, DeadForget
  <2>3. (EventIsHeard /\ HandsOff /\ LastWordCounts)'
    BY <1>8, <1>a, <1>b, <2>0
    DEF Reject, TakeCommand, Answered, Overridden, queues, execution, TypeOK,
        CallbacksHaveMessages, ExecutionIsUndisturbed, DeadForget,
        EventIsHeard, HandsOff, LastWordCounts
  <2> QED  BY <2>1, <2>2, <2>3 DEF ExecutorInv
<1>9. ASSUME Begin PROVE ExecutorInv'
  <2>0. /\ pc = "pass" /\ ready = {"command"} /\ commands # <<>>
        /\ Head(commands) \in Command
        /\ Tail(commands) \in Seq(Command)
        /\ Len(Tail(commands)) <= CommandDepth
    BY <1>9, <1>a, <1>b, TakingKeepsTheRest
    DEF Begin, TakeCommand, CommandTurn, CallbacksHaveMessages
  <2>a. Head(commands) \in Sound /\ TicksOf(Head(commands), 1) \in Nat
    BY <1>9, TicksAreNatural DEF Begin, TakeCommand
  <2>1. TypeOK'
    BY <1>9, <1>a, <1>b, <2>0, <2>a
    DEF Begin, TakeCommand, Overridden, queues, execution, TypeOK, Answer
  <2>2. (CallbacksHaveMessages /\ ExecutionIsUndisturbed /\ DeadForget)'
    BY <1>9, <1>a, <1>b, <2>0, <2>a
    DEF Begin, TakeCommand, Overridden, queues, execution, TypeOK,
        CallbacksHaveMessages, ExecutionIsUndisturbed, DeadForget
  <2>3. (EventIsHeard /\ HandsOff /\ LastWordCounts)'
    BY <1>9, <1>a, <1>b, <2>0
    DEF Begin, TakeCommand, Overridden, queues, execution, TypeOK,
        CallbacksHaveMessages, ExecutionIsUndisturbed, DeadForget,
        EventIsHeard, HandsOff, LastWordCounts
  <2> QED  BY <2>1, <2>2, <2>3 DEF ExecutorInv
<1>10. ASSUME Publish PROVE ExecutorInv'
  <2>0. Plan[current][phase].moves \in BOOLEAN
    <3>1. Plan[current] \in Seq([moves : BOOLEAN, ticks : Nat])
      BY <1>10, <1>a, PlansHavePhases
      DEF Publish, InPhase, ExecutionIsUndisturbed
    <3>2. Plan[current][phase] \in [moves : BOOLEAN, ticks : Nat]
      BY <1>10, <3>1, ElementOfSeq DEF Publish, InPhase
    <3> QED  BY <3>2
  <2>1. TypeOK'
    BY <1>10, <1>a, <1>b, <2>0
    DEF Publish, InPhase, PhaseGoesOn, queues, execution, TypeOK, Answer
  <2>2. (CallbacksHaveMessages /\ ExecutionIsUndisturbed /\ DeadForget)'
    BY <1>10, <1>a, <1>b
    DEF Publish, InPhase, PhaseGoesOn, queues, execution, TypeOK,
        CallbacksHaveMessages, ExecutionIsUndisturbed, DeadForget
  <2>3. (EventIsHeard /\ HandsOff /\ LastWordCounts)'
    BY <1>10, <1>a, <1>b
    DEF Publish, InPhase, PhaseGoesOn, queues, execution, TypeOK,
        CallbacksHaveMessages, ExecutionIsUndisturbed, DeadForget,
        EventIsHeard, HandsOff, LastWordCounts
  <2> QED  BY <2>1, <2>2, <2>3 DEF ExecutorInv
<1>11. ASSUME EndPhase PROVE ExecutorInv'
  <2>0. phase' \in Nat /\ left' \in Nat
    <3>1. current \in Sound /\ ~asserted
      BY <1>11, <1>a DEF EndPhase, InPhase, ExecutionIsUndisturbed
    <3>2. phase' = phase + 1 /\ phase' \in Nat
      BY <1>11, <1>a, <3>1 DEF EndPhase, TypeOK
    <3> QED  BY <1>11, <3>1, <3>2, TicksAreNatural DEF EndPhase
  <2>1. TypeOK'
    BY <1>11, <1>a, <1>b, <2>0
    DEF EndPhase, InPhase, queues, execution, TypeOK, Answer
  <2>2. (CallbacksHaveMessages /\ ExecutionIsUndisturbed /\ DeadForget)'
    BY <1>11, <1>a, <1>b
    DEF EndPhase, InPhase, queues, execution, TypeOK, CallbacksHaveMessages,
        ExecutionIsUndisturbed, DeadForget
  <2>3. (EventIsHeard /\ HandsOff /\ LastWordCounts)'
    BY <1>11, <1>a, <1>b
    DEF EndPhase, InPhase, queues, execution, TypeOK, CallbacksHaveMessages,
        ExecutionIsUndisturbed, DeadForget, EventIsHeard, HandsOff,
        LastWordCounts
  <2> QED  BY <2>1, <2>2, <2>3 DEF ExecutorInv
<1>12. ASSUME Finish PROVE ExecutorInv'
  <2>0. answer' \in [Command -> Answer]
    BY <1>12, <1>a DEF Finish, TypeOK, Answer
  <2>1. TypeOK'
    BY <1>12, <1>a, <1>b, <2>0
    DEF Finish, queues, execution, TypeOK, Answer
  <2>2. (CallbacksHaveMessages /\ ExecutionIsUndisturbed /\ DeadForget)'
    BY <1>12, <1>a, <1>b
    DEF Finish, queues, execution, TypeOK, CallbacksHaveMessages,
        ExecutionIsUndisturbed, DeadForget
  <2>3. (EventIsHeard /\ HandsOff /\ LastWordCounts)'
    BY <1>12, <1>a, <1>b
    DEF Finish, queues, execution, TypeOK, CallbacksHaveMessages,
        ExecutionIsUndisturbed, DeadForget, EventIsHeard, HandsOff,
        LastWordCounts
  <2> QED  BY <2>1, <2>2, <2>3 DEF ExecutorInv
<1>13. ASSUME Tick PROVE ExecutorInv'
  <2>1. TypeOK'
    BY <1>13, <1>a, <1>b
    DEF Tick, queues, execution, TypeOK, Answer
  <2>2. (CallbacksHaveMessages /\ ExecutionIsUndisturbed /\ DeadForget)'
    BY <1>13, <1>a, <1>b
    DEF Tick, queues, execution, TypeOK, CallbacksHaveMessages,
        ExecutionIsUndisturbed, DeadForget
  <2>3. (EventIsHeard /\ HandsOff /\ LastWordCounts)'
    BY <1>13, <1>a, <1>b
    DEF Tick, queues, execution, TypeOK, CallbacksHaveMessages,
        ExecutionIsUndisturbed, DeadForget, EventIsHeard, HandsOff,
        LastWordCounts
  <2> QED  BY <2>1, <2>2, <2>3 DEF ExecutorInv
<1>14. ASSUME Raise PROVE ExecutorInv'
  <2>0. /\ overrides' = <<>> /\ overrides' \in Seq(BOOLEAN)
        /\ commands' = <<>> /\ commands' \in Seq(Command)
        /\ Len(overrides') = 0 /\ Len(commands') = 0
    BY <1>14, EmptySeq DEF Raise, Die
  <2>a. answer' \in [Command -> Answer]
    BY <1>14, <1>a DEF Raise, Die, TypeOK, Answer
  <2>1. TypeOK'
    <3>1. (overrides \in Seq(BOOLEAN) /\ Len(overrides) <= OverrideDepth)'
      BY <1>14, <1>a, <1>b, <2>0, <2>a
      DEF Raise, Die, Overridden, queues, execution
    <3>2. (commands \in Seq(Command) /\ Len(commands) <= CommandDepth)'
      BY <1>14, <1>a, <1>b, <2>0, <2>a
      DEF Raise, Die, Overridden, queues, execution
    <3>3. (/\ unsent \subseteq Command
           /\ ready \subseteq {"override", "command"}
           /\ pc \in {"waiting", "pass", "running", "asleep", "dead"}
           /\ current \in Sound \cup {None}
           /\ phase \in Nat /\ left \in Nat)'
      BY <1>14, <1>a DEF Raise, Die, Overridden, queues, execution, TypeOK
    <3>4. (asserted \in BOOLEAN /\ moving \in BOOLEAN /\ heard \in BOOLEAN
           /\ said \in BOOLEAN)'
      BY <1>14, <1>a, <2>0, <2>a
      DEF Raise, Die, Overridden, queues, execution, TypeOK
    <3>5. (age \in 0 .. (Ttl + 1) /\ crashes \in 0 .. MaxCrashes)'
      BY <1>14, <1>a, <1>b
      DEF Raise, Die, Overridden, queues, execution, TypeOK
    <3>6. (answer \in [Command -> Answer])'
      BY <1>14, <1>a, <2>0, <2>a
      DEF Raise, Die, Overridden, queues, execution, TypeOK
    <3> QED  BY <3>1, <3>2, <3>3, <3>4, <3>5, <3>6 DEF TypeOK
  <2>2. (CallbacksHaveMessages /\ ExecutionIsUndisturbed /\ DeadForget)'
    BY <1>14, <1>a, <1>b, <2>0
    DEF Raise, Die, Overridden, queues, execution, TypeOK,
        CallbacksHaveMessages, ExecutionIsUndisturbed, DeadForget
  <2>3. (EventIsHeard /\ HandsOff /\ LastWordCounts)'
    BY <1>14, <1>a, <1>b, <2>0
    DEF Raise, Die, Overridden, queues, execution, TypeOK,
        CallbacksHaveMessages, ExecutionIsUndisturbed, DeadForget,
        EventIsHeard, HandsOff, LastWordCounts
  <2> QED  BY <2>1, <2>2, <2>3 DEF ExecutorInv
<1>15. ASSUME Crash PROVE ExecutorInv'
  <2>0. /\ overrides' = <<>> /\ overrides' \in Seq(BOOLEAN)
        /\ commands' = <<>> /\ commands' \in Seq(Command)
        /\ Len(overrides') = 0 /\ Len(commands') = 0
    BY <1>15, EmptySeq DEF Crash, Die
  <2>a. answer' \in [Command -> Answer]
    BY <1>15, <1>a DEF Crash, Die, TypeOK, Answer
  <2>1. TypeOK'
    <3>1. (overrides \in Seq(BOOLEAN) /\ Len(overrides) <= OverrideDepth)'
      BY <1>15, <1>a, <1>b, <2>0, <2>a DEF Crash, Die, queues, execution
    <3>2. (commands \in Seq(Command) /\ Len(commands) <= CommandDepth)'
      BY <1>15, <1>a, <1>b, <2>0, <2>a DEF Crash, Die, queues, execution
    <3>3. (/\ unsent \subseteq Command
           /\ ready \subseteq {"override", "command"}
           /\ pc \in {"waiting", "pass", "running", "asleep", "dead"}
           /\ current \in Sound \cup {None}
           /\ phase \in Nat /\ left \in Nat)'
      BY <1>15, <1>a DEF Crash, Die, queues, execution, TypeOK
    <3>4. (asserted \in BOOLEAN /\ moving \in BOOLEAN /\ heard \in BOOLEAN
           /\ said \in BOOLEAN)'
      BY <1>15, <1>a, <2>0, <2>a DEF Crash, Die, queues, execution, TypeOK
    <3>5. (age \in 0 .. (Ttl + 1) /\ crashes \in 0 .. MaxCrashes)'
      BY <1>15, <1>a, <1>b DEF Crash, Die, queues, execution, TypeOK
    <3>6. (answer \in [Command -> Answer])'
      BY <1>15, <1>a, <2>0, <2>a DEF Crash, Die, queues, execution, TypeOK
    <3> QED  BY <3>1, <3>2, <3>3, <3>4, <3>5, <3>6 DEF TypeOK
  <2>2. (CallbacksHaveMessages /\ ExecutionIsUndisturbed /\ DeadForget)'
    BY <1>15, <1>a, <1>b, <2>0
    DEF Crash, Die, Overridden, queues, execution, TypeOK,
        CallbacksHaveMessages, ExecutionIsUndisturbed, DeadForget
  <2>3. (EventIsHeard /\ HandsOff /\ LastWordCounts)'
    <3>1. /\ heard' = heard /\ age' = age /\ asserted' = asserted
          /\ pc' = "dead"
      BY <1>15 DEF Crash, Die
    <3>2. moving' = moving \/ moving' = FALSE  BY <1>15 DEF Crash
    <3>3. EventIsHeard'  BY <3>1, <1>a DEF EventIsHeard
    <3>4. HandsOff'  BY <3>1, <3>2, <1>a DEF HandsOff
    <3>5. LastWordCounts'  BY <3>1 DEF LastWordCounts
    <3> QED  BY <3>3, <3>4, <3>5
  <2> QED  BY <2>1, <2>2, <2>3 DEF ExecutorInv
<1>16. ASSUME Restart PROVE ExecutorInv'
  <2>1. TypeOK'
    <3>1. (overrides \in Seq(BOOLEAN) /\ Len(overrides) <= OverrideDepth)'
      BY <1>16, <1>a, <1>b DEF Restart, queues, execution
    <3>2. (commands \in Seq(Command) /\ Len(commands) <= CommandDepth)'
      BY <1>16, <1>a, <1>b DEF Restart, queues, execution
    <3>3. (/\ unsent \subseteq Command
           /\ ready \subseteq {"override", "command"}
           /\ pc \in {"waiting", "pass", "running", "asleep", "dead"}
           /\ current \in Sound \cup {None}
           /\ phase \in Nat /\ left \in Nat)'
      BY <1>16, <1>a DEF Restart, queues, execution, TypeOK
    <3>4. (asserted \in BOOLEAN /\ moving \in BOOLEAN /\ heard \in BOOLEAN
           /\ said \in BOOLEAN)'
      BY <1>16, <1>a DEF Restart, queues, execution, TypeOK
    <3>5. (age \in 0 .. (Ttl + 1) /\ crashes \in 0 .. MaxCrashes)'
      BY <1>16, <1>a, <1>b DEF Restart, queues, execution, TypeOK
    <3>6. (answer \in [Command -> Answer])'
      BY <1>16, <1>a DEF Restart, queues, execution, TypeOK
    <3> QED  BY <3>1, <3>2, <3>3, <3>4, <3>5, <3>6 DEF TypeOK
  <2>2. (CallbacksHaveMessages /\ ExecutionIsUndisturbed /\ DeadForget)'
    BY <1>16, <1>a, <1>b
    DEF Restart, queues, execution, TypeOK, CallbacksHaveMessages,
        ExecutionIsUndisturbed, DeadForget
  <2>3. (EventIsHeard /\ HandsOff /\ LastWordCounts)'
    <3>1. /\ overrides' = <<>> /\ ~heard' /\ heard' = FALSE /\ said' = FALSE
      BY <1>16, <1>a DEF Restart, DeadForget, queues
    <3>2. EventIsHeard' /\ HandsOff'  BY <3>1 DEF EventIsHeard, HandsOff
    <3>3. heard' = said'  BY <3>1, Zenon
    <3>4. LastWordCounts'  BY <3>1, <3>3, Zenon DEF LastWordCounts
    <3> QED  BY <3>2, <3>4
  <2> QED  BY <2>1, <2>2, <2>3 DEF ExecutorInv
<1>17. ASSUME UNCHANGED vars PROVE ExecutorInv'
  <2>1. TypeOK'
    BY <1>17, <1>a, <1>b
    DEF vars, queues, execution, TypeOK, Answer
  <2>2. (CallbacksHaveMessages /\ ExecutionIsUndisturbed /\ DeadForget)'
    BY <1>17, <1>a, <1>b
    DEF vars, queues, execution, TypeOK, CallbacksHaveMessages,
        ExecutionIsUndisturbed, DeadForget
  <2>3. (EventIsHeard /\ HandsOff /\ LastWordCounts)'
    <3>1. /\ heard' = heard /\ age' = age /\ asserted' = asserted
          /\ moving' = moving /\ said' = said /\ overrides' = overrides /\ pc' = pc
      BY <1>17 DEF vars, queues, execution
    <3>2. EventIsHeard' /\ HandsOff'
      BY <3>1, <1>a DEF EventIsHeard, HandsOff
    <3>3. LastWordCounts'  BY <3>1, <1>a, Zenon DEF LastWordCounts
    <3> QED  BY <3>2, <3>3
  <2> QED  BY <2>1, <2>2, <2>3 DEF ExecutorInv
<1> QED
  BY <1>1, <1>2, <1>3, <1>4, <1>5, <1>6, <1>7, <1>8, <1>9, <1>10, <1>11, <1>12,
     <1>13, <1>14, <1>15, <1>16, <1>17 DEF Next, ThreadNext

-----------------------------------------------------------------------------
(* The theorems.                                                           *)

LEMMA InvIsInvariant == Spec => []ExecutorInv
  BY InitInv, StepInv, PTL DEF Spec

\* Every reachable state is of the declared type: the queues stay within
\* their depth, and a command in execution always has a plan.
THEOREM TypeCorrect == Spec => []TypeOK
<1>1. ExecutorInv => TypeOK  BY DEF ExecutorInv
<1> QED  BY <1>1, InvIsInvariant, PTL

\* For any commands, plans and time to live: from the callback that takes an
\* override until its release or its end, _execute_command_core and its loops
\* leave the robot at rest.
THEOREM TheHumanComesFirst == Spec => []HandsOff
<1>1. ExecutorInv => HandsOff  BY DEF ExecutorInv
<1> QED  BY <1>1, InvIsInvariant, PTL

\* For any depth of the subscription, the human's last word is not lost.
THEOREM TheLastWordIsKept == Spec => []LastWordCounts
<1>1. ExecutorInv => LastWordCounts  BY DEF ExecutorInv
<1> QED  BY <1>1, InvIsInvariant, PTL
=============================================================================
