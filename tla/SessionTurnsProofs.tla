------------------------- MODULE SessionTurnsProofs -------------------------
(***************************************************************************)
(* Theorems about SessionTurns for every set of threads, interrupters,     *)
(* keys and inputs, and every bound.                                       *)
(*                                                                         *)
(* First the claims and interrupts: the inductive invariant is TypeOK /\   *)
(* Exclusion /\ Requests /\ InterruptHasCause /\ Failures, each part shown *)
(* to be preserved by every action from the parts named in its lemma's     *)
(* assumptions.  Then the message queue and the stored conversations: the  *)
(* queue conserves what it accepted, conversations stay apart, every       *)
(* prompt has its system prompt, and stored conversations implement        *)
(* SessionHistory.                                                         *)
(***************************************************************************)
EXTENDS SessionTurns, SequenceTheorems, TLAPS

USE DEF vars, runVars, registryVars, interruptVars, sessionVars, queueVars,
        ghostVars

(***************************************************************************)
(* The inductive invariant.                                                *)
(***************************************************************************)
\* A thread with a turn in flight has its key registered in active_runs_ and
\* bound to itself.
Claimed ==
    \A t \in Threads :
        pc[t] # "idle" => key[t] \in activeRuns /\ bound[t] = key[t]

Exclusion == Claimed /\ TurnExclusion

\* The tokens and the flag agree with the requests made of each turn: an owed
\* stop is still in the token, and nothing else interrupts a turn.
Requests ==
    \A t \in Threads :
        /\ asked[t] = "owed" /\ Owes(t) => token[key[t]]
        /\ Owes(t) /\ RunInterrupted(t) => asked[t] # "no"
        /\ pc[t] = "starting" => asked[t] # "owed"

\* How a loop ends when no exception leaves it.
Ended == {"COMPLETE", "INTERRUPTED", "ERROR", "EXECUTING"}

\* turn_failures_ of a session holds the outcome of the turn just ended on it.
Failures ==
    \A t \in Threads :
        /\ pc[t] \in {"settle", "drain", "done"}
        /\ outcome[t] \in Ended
        => (failures[key[t]] <=> outcome[t] = "ERROR")

(***************************************************************************)
(* The message lists the model builds are message lists.                   *)
(***************************************************************************)
\* Compaction of a list of messages is a list of messages.
LEMMA CheckAndCompactType ==
    ASSUME NEW s \in Seq(Message)
    PROVE  CheckAndCompact(s) \in Seq(Message)
<1>1. LastAssistant(s) \in Seq(Message)
  <2>1. CASE \E n \in 1..Len(s) : IsLastAssistant(s, n)
    <3>1. (CHOOSE n \in 1..Len(s) : IsLastAssistant(s, n)) \in 1..Len(s)
      BY <2>1
    <3>2. s[CHOOSE n \in 1..Len(s) : IsLastAssistant(s, n)] \in Message
      BY <3>1
    <3> QED BY <2>1, <3>2 DEF LastAssistant
  <2>2. CASE ~\E n \in 1..Len(s) : IsLastAssistant(s, n)
    BY <2>2 DEF LastAssistant
  <2> QED BY <2>1, <2>2
<1>2. Summary \in Message
  BY DEF Summary, Message, Roles
<1>3. (IF s # <<>> /\ s[1].role = "system" THEN <<s[1]>> ELSE <<>>)
          \in Seq(Message)
  <2>1. CASE s # <<>>
    <3>1. s[1] \in Message
      BY <2>1
    <3> QED BY <3>1
  <2>2. CASE s = <<>>
    BY <2>2
  <2> QED BY <2>1, <2>2
<1>4. Compact(s) \in Seq(Message)
  BY <1>1, <1>2, <1>3 DEF Compact
<1> QED BY <1>4 DEF CheckAndCompact

\* settle_turn leaves a list of messages.
LEMMA SettledType ==
    ASSUME TypeOK, NEW t \in Threads, NEW k \in Keys
    PROVE  Settled(t, k) \in Seq(Message)
<1>1. conv[k] \in Seq(Message) /\ msgs[t] \in Seq(Message)
  BY DEF TypeOK
<1>2. turnBegin[t] \in Nat /\ sentLen[t] \in Nat
  BY DEF TypeOK
<1>3. Rollback(t, k) \in Seq(Message)
  <2> DEFINE n == IF turnBegin[t] < Len(conv[k]) THEN turnBegin[t]
                  ELSE Len(conv[k])
  <2>1. n \in 0..Len(conv[k])
    BY <1>1, <1>2
  <2>2. \A m \in 1..n : conv[k][m] \in Message
    BY <1>1, <2>1
  <2>3. SubSeq(conv[k], 1, n) \in Seq(Message)
    BY <2>1, <2>2, <1>1, SubSeqProperties
  <2> QED BY <2>3 DEF Rollback
<1>4. SubSeq(msgs[t], sentLen[t] + 1, Len(msgs[t])) \in Seq(Message)
  BY <1>1, <1>2, SubSeqProperties
<1>5. KeepFrom(t, k, sentLen[t] + 1) \in Seq(Message)
  BY <1>1, <1>4 DEF KeepFrom
<1> QED BY <1>3, <1>5 DEF Settled

\* Every constant message, and the one a turn appends, is a message.
LEMMA MessageType ==
    /\ System \in Message
    /\ RestoredHistory \in Seq(Message)
    /\ \A i \in Inputs \cup {NoInput} :
          /\ UserMsg(i) \in Message /\ Reply(i) \in Message
          /\ Note(i) \in Message
BY DEF Message, Roles, System, RestoredHistory, UserMsg, Reply, Note

\* The empty list has every element type.
LEMMA EmptyList ==
    <<>> \in Seq(Message) /\ <<>> \in Seq(Inputs) /\ Len(<<>>) = 0
OBVIOUS

\* active_session_key always names a session.
LEMMA ActiveKeyType ==
    ASSUME TypeOK, NEW t \in Threads
    PROVE  ActiveSessionKey(t) \in Keys
BY DEF TypeOK, ActiveSessionKey, KeyOrNone

\* What an iteration may add to its run.
Said(i) ==
    {<<>>, <<Reply(i)>>, <<Reply(i), Note(i)>>, <<Reply(i), Reply(i)>>}

\* The ways through execute_iteration, and what they have in common.
LoopStep(t) ==
    \/ Iterate(t) \/ CancelGenerate(t) \/ HardCut(t) \/ StopStuck(t)
    \/ StopGenerating(t)

LEMMA LoopStepFacts ==
    ASSUME NEW t \in Threads, LoopStep(t)
    PROVE  \E said \in Said(input[t]) :
              /\ Iteration(t, said)
              /\ \/ ~RunInterrupted(t) /\ UNCHANGED <<pc, outcome, failures>>
                 \/ /\ ~RunInterrupted(t)
                    /\ \E o \in {"COMPLETE", "ERROR", "EXECUTING"} : EndLoop(t, o)
                 \/ RunInterrupted(t) /\ EndLoop(t, "INTERRUPTED")
<1>1. Answers(input[t]) \subseteq Said(input[t])
  BY DEF Answers, Said
<1>2. CASE Iterate(t)
  BY <1>1, <1>2 DEF Iterate
<1>3. CASE CancelGenerate(t)
  BY <1>3 DEF CancelGenerate, Said
<1>4. CASE HardCut(t)
  BY <1>4 DEF HardCut, Said
<1>5. CASE StopStuck(t)
  BY <1>5 DEF StopStuck, Said
<1>6. CASE StopGenerating(t)
  BY <1>1, <1>6 DEF StopGenerating
<1> QED BY <1>2, <1>3, <1>4, <1>5, <1>6 DEF LoopStep

\* The context after an iteration is a list of messages.
LEMMA IterationMsgs ==
    ASSUME TypeOK, NEW t \in Threads
    PROVE  /\ \A said \in Said(input[t]) :
                 CheckAndCompact(msgs[t]) \o said \in Seq(Message)
           /\ Append(msgs[t], Reply(input[t])) \in Seq(Message)
<1>1. /\ CheckAndCompact(msgs[t]) \in Seq(Message)
      /\ msgs[t] \in Seq(Message)
      /\ Reply(input[t]) \in Message /\ Note(input[t]) \in Message
  BY CheckAndCompactType, MessageType DEF TypeOK
<1>2. Said(input[t]) \subseteq Seq(Message)
  BY <1>1 DEF Said
<1> QED BY <1>1, <1>2

\* A loop below its cap can count one iteration more.
LEMMA BelowCap ==
    ASSUME TypeOK, NEW t \in Threads, ~AtCap(t)
    PROVE  iterations[t] + 1 \in 0..MaxIterations
<1>1. iterations[t] \in 0..MaxIterations
  BY DEF TypeOK
<1> QED BY <1>1, ConstantsAssumption DEF AtCap

\* The end of a loop keeps the types of what it assigns.
LEMMA EndLoopType ==
    ASSUME TypeOK, NEW t \in Threads,
           NEW o \in Ended, EndLoop(t, o)
    PROVE  /\ pc' \in [Threads -> Running \cup {"idle"}]
           /\ failures' \in [Keys -> BOOLEAN]
           /\ outcome' \in [Threads -> {"none", "COMPLETE", "INTERRUPTED",
                                        "ERROR", "EXECUTING", "thrown",
                                        "refused", "batch"}]
BY ActiveKeyType DEF TypeOK, EndLoop, Ended, TurnFailure, Running, InTurn

\* The locals of run_drain_loop's body end as they began.
LEMMA LeaveBodyType ==
    ASSUME TypeOK, NEW t \in Threads, LeaveBody(t)
    PROVE  /\ turnBegin' \in [Threads -> Nat] /\ sentLen' \in [Threads -> Nat]
           /\ msgs' \in [Threads -> Seq(Message)]
           /\ iterations' \in [Threads -> 0..MaxIterations]
<1>1. 0 \in 0..MaxIterations /\ 0 \in Nat
  BY ConstantsAssumption
<1> QED BY <1>1, EmptyList DEF TypeOK, LeaveBody

\* Every step keeps the types.
LEMMA TypeStep ==
    ASSUME TypeOK, [Next]_vars
    PROVE  TypeOK'
<1>1. ASSUME NEW t \in Threads, NEW k \in Keys, NEW i \in Inputs,
             TryBeginTurn(t, k, i)
      PROVE  TypeOK'
  BY <1>1 DEF TypeOK, TryBeginTurn, Running, KeyOrNone
<1>2. ASSUME NEW t \in Threads, SetActiveSession(t) PROVE TypeOK'
  <2>1. activeKey' \in Keys /\ bound' \in [Threads -> KeyOrNone]
    <3>1. /\ key[t] \in Keys /\ key[t] \in KeyOrNone /\ activeKey \in Keys
          /\ bound \in [Threads -> KeyOrNone]
      BY DEF TypeOK, KeyOrNone
    <3>2. \/ activeKey' = key[t] /\ bound' = [bound EXCEPT ![t] = key[t]]
          \/ activeKey' = activeKey /\ bound' = bound
      BY <1>2 DEF SetActiveSession
    <3> QED BY ONLY <3>1, <3>2
  <2>2. pc' \in [Threads -> Running \cup {"idle"}]
    BY <1>2 DEF TypeOK, SetActiveSession, Running
  <2> QED BY <1>2, <2>1, <2>2 DEF TypeOK, SetActiveSession, Running
<1>3. ASSUME NEW t \in Threads, RefuseTier(t) PROVE TypeOK'
  BY <1>3 DEF TypeOK, RefuseTier, Running
<1>4. ASSUME NEW t \in Threads, RunBatch(t) PROVE TypeOK'
  BY <1>4 DEF TypeOK, RunBatch, Running
<1>5. ASSUME NEW t \in Threads, SeedSystemPrompt(t) PROVE TypeOK'
  <2>1. \A s \in Seq(Message) : Seeded(s) \in Seq(Message)
    BY MessageType DEF Seeded
  <2>2. conv' \in [Keys -> Seq(Message)]
    BY <1>5, <2>1, ActiveKeyType DEF TypeOK, SeedSystemPrompt
  <2> QED BY <1>5, <2>2 DEF TypeOK, SeedSystemPrompt, Running
<1>6. ASSUME NEW t \in Threads, BeginTurn(t) PROVE TypeOK'
  <2> DEFINE k == ActiveSessionKey(t)
             sent == Append(conv[k], UserMsg(input[t]))
  <2>1. k \in Keys
    BY ActiveKeyType
  <2>2. sent \in Seq(Message) /\ Len(sent) \in Nat /\ Len(conv[k]) \in Nat
    BY <2>1, MessageType DEF TypeOK
  <2>3. /\ conv' = [conv EXCEPT ![k] = sent]
        /\ msgs' = [msgs EXCEPT ![t] = sent]
        /\ turnBegin' = [turnBegin EXCEPT ![t] = Len(conv[k])]
        /\ sentLen' = [sentLen EXCEPT ![t] = Len(sent)]
    BY <1>6 DEF BeginTurn
  <2>4. 0 \in 0..MaxIterations
    BY ConstantsAssumption
  <2> HIDE DEF k, sent
  <2>5. conv' \in [Keys -> Seq(Message)] /\ msgs' \in [Threads -> Seq(Message)]
    BY <2>1, <2>2, <2>3 DEF TypeOK
  <2>6. turnBegin' \in [Threads -> Nat] /\ sentLen' \in [Threads -> Nat]
    BY <2>2, <2>3 DEF TypeOK
  <2> QED BY <1>6, <2>4, <2>5, <2>6 DEF TypeOK, BeginTurn, Running, InTurn
<1>7. ASSUME NEW t \in Threads, ResetFlags(t) PROVE TypeOK'
  BY <1>7 DEF TypeOK, ResetFlags, FlagAfterReset, Running, InTurn
<1>8. ASSUME NEW t \in Threads, ResetExternal(t) PROVE TypeOK'
  BY <1>8 DEF TypeOK, ResetExternal, Running, InTurn
<1>9. ASSUME NEW t \in Threads, LoopStep(t) PROVE TypeOK'
  <2>1. PICK said \in Said(input[t]) :
           /\ Iteration(t, said)
           /\ \/ UNCHANGED <<pc, outcome, failures>>
              \/ \E o \in Ended : EndLoop(t, o)
    BY <1>9, LoopStepFacts DEF Ended
  <2>2. msgs' \in [Threads -> Seq(Message)]
    BY <2>1, IterationMsgs DEF TypeOK, Iteration
  <2>3. iterations' \in [Threads -> 0..MaxIterations]
    BY <2>1, BelowCap DEF TypeOK, Iteration
  <2>4. CASE UNCHANGED <<pc, outcome, failures>>
    BY <2>1, <2>2, <2>3, <2>4 DEF TypeOK, Iteration
  <2>5. ASSUME NEW o \in Ended, EndLoop(t, o) PROVE TypeOK'
    BY <2>1, <2>2, <2>3, <2>5, EndLoopType DEF TypeOK, Iteration
  <2> QED BY <2>1, <2>4, <2>5
<1>10. ASSUME NEW t \in Threads, StopInterrupted(t) PROVE TypeOK'
  <2>1. iterations' \in [Threads -> 0..MaxIterations]
    BY <1>10, BelowCap DEF TypeOK, StopInterrupted
  <2>2. EndLoop(t, "INTERRUPTED") /\ "INTERRUPTED" \in Ended
    BY <1>10 DEF StopInterrupted, Ended
  <2> QED BY <1>10, <2>1, <2>2, EndLoopType DEF TypeOK, StopInterrupted
<1>11. ASSUME NEW t \in Threads, CapIterations(t) PROVE TypeOK'
  <2>1. msgs' \in [Threads -> Seq(Message)]
    BY <1>11, IterationMsgs DEF TypeOK, CapIterations
  <2>2. EndLoop(t, "COMPLETE") /\ "COMPLETE" \in Ended
    BY <1>11 DEF CapIterations, Ended
  <2> QED BY <1>11, <2>1, <2>2, EndLoopType DEF TypeOK, CapIterations
<1>12. ASSUME NEW t \in Threads, Throw(t) PROVE TypeOK'
  BY <1>12, LeaveBodyType DEF TypeOK, Throw, Running
<1>13. ASSUME NEW t \in Threads, SettleTurn(t) PROVE TypeOK'
  <2>1. conv' \in [Keys -> Seq(Message)]
    BY <1>13, SettledType, ActiveKeyType DEF TypeOK, SettleTurn
  <2> QED BY <1>13, <2>1, LeaveBodyType DEF TypeOK, SettleTurn, Running
<1>14. ASSUME NEW t \in Threads, Drain(t) PROVE TypeOK'
  <2>1. CASE queue = <<>>
    BY <1>14, <2>1 DEF TypeOK, Drain, Running
  <2>2. CASE queue # <<>>
    <3>1. /\ queue \in Seq(Inputs) /\ Len(queue) <= QueueCap
          /\ consumed \in Seq(Inputs)
      BY DEF TypeOK
    <3> DEFINE h == Head(queue)
    <3>2. /\ h \in Inputs
          /\ Tail(queue) \in Seq(Inputs) /\ Len(Tail(queue)) <= QueueCap
      BY <2>2, <3>1, ConstantsAssumption, HeadTailProperties
    <3>3. /\ queue' = Tail(queue)
          /\ consumed' = Append(consumed, h)
          /\ owner' = [owner EXCEPT ![h] = key[t]]
          /\ input' = [input EXCEPT ![t] = h]
          /\ pc' = [pc EXCEPT ![t] = "seeded"]
      BY <1>14, <2>2 DEF Drain, QueueAfterPop
    <3> HIDE DEF h
    <3>4. consumed' \in Seq(Inputs)
      BY <3>1, <3>2, <3>3
    <3>5. owner' \in [Inputs -> KeyOrNone]
      BY <3>2, <3>3 DEF TypeOK, KeyOrNone
    <3> QED BY <1>14, <2>2, <3>2, <3>3, <3>4, <3>5 DEF TypeOK, Drain, Running
  <2> QED BY <2>1, <2>2
<1>15. ASSUME NEW t \in Threads, EndTurn(t) PROVE TypeOK'
  BY <1>15, ConstantsAssumption DEF TypeOK, EndTurn, KeyOrNone
<1>16. ASSUME NEW t \in Threads, CancelCurrentRun(t) PROVE TypeOK'
  BY <1>16 DEF TypeOK, CancelCurrentRun, AskRuns, Noted
<1>17. ASSUME NEW p \in Interrupters, InterruptFanOut(p) PROVE TypeOK'
  BY <1>17 DEF TypeOK, InterruptFanOut, AskRuns, Noted, FannedOut
<1>18. ASSUME NEW p \in Interrupters, InterruptExchange(p) PROVE TypeOK'
  BY <1>18 DEF TypeOK, InterruptExchange, Noted
<1>19. ASSUME NEW p \in Interrupters, InterruptLatch(p) PROVE TypeOK'
  BY <1>19 DEF TypeOK, InterruptLatch
<1>20. ASSUME NEW k \in Keys, InterruptSession(k) PROVE TypeOK'
  BY <1>20 DEF TypeOK, InterruptSession, AskRuns, Noted
<1>21. ASSUME NEW k \in Keys, ClearConversation(k) PROVE TypeOK'
  BY <1>21 DEF TypeOK, ClearConversation
<1>22. ASSUME NEW k \in Keys, DropSession(k) PROVE TypeOK'
  <2>1. conv' \in [Keys -> Seq(Message)] /\ dangling' \in BOOLEAN
    BY <1>22, EmptyList DEF TypeOK, DropSession
  <2> QED BY <1>22, <2>1 DEF TypeOK, DropSession
<1>23. ASSUME NEW k \in Keys, RestoreCheck(k) PROVE TypeOK'
  BY <1>23 DEF TypeOK, RestoreCheck, KeyOrNone
<1>24. ASSUME NEW i \in Inputs, QueueCheck(i) PROVE TypeOK'
  BY <1>24 DEF TypeOK, QueueCheck
<1>25. CASE QueuePush
  <2>1. /\ posting \in Inputs /\ accepted \in Seq(Inputs)
        /\ queue \in Seq(Inputs) /\ Len(queue) <= QueueCap
    BY <1>25 DEF TypeOK, QueuePush
  <2>2. CASE Len(queue) >= QueueCap
    BY <1>25, <2>2, <2>1 DEF TypeOK, QueuePush
  <2>3. CASE ~(Len(queue) >= QueueCap)
    <3>1. /\ Append(queue, posting) \in Seq(Inputs)
          /\ Len(Append(queue, posting)) <= QueueCap
      BY <2>1, <2>3, ConstantsAssumption
    <3>2. Append(accepted, posting) \in Seq(Inputs)
      BY <2>1
    <3> QED BY <1>25, <2>3, <3>1, <3>2 DEF TypeOK, QueuePush, QueueAfterPush
  <2> QED BY <2>2, <2>3
<1>26. CASE ClearQueue
  <2>1. queue' \in Seq(Inputs) /\ Len(queue') <= QueueCap
    BY <1>26, ConstantsAssumption DEF ClearQueue
  <2> QED BY <1>26, <2>1 DEF TypeOK, ClearQueue
<1>27. CASE RestoreSwap
  <2>1. conv' \in [Keys -> Seq(Message)]
    BY <1>27, MessageType DEF TypeOK, RestoreSwap, KeyOrNone
  <2> QED BY <1>27, <2>1 DEF TypeOK, RestoreSwap, KeyOrNone
<1>28. CASE UNCHANGED vars
  BY <1>28 DEF TypeOK
<1> QED
  BY <1>1, <1>2, <1>3, <1>4, <1>5, <1>6, <1>7, <1>8, <1>9, <1>10, <1>11,
     <1>12, <1>13, <1>14, <1>15, <1>16, <1>17, <1>18, <1>19, <1>20, <1>21,
     <1>22, <1>23, <1>24, <1>25, <1>26, <1>27, <1>28 DEF Next, RunStep,
     LoopStep, InterruptStep

\* Claims stay exclusive: a new turn's key is not in active_runs_, and the end
\* of a turn gives back a key nobody else holds.
LEMMA ExclusionStep ==
    ASSUME TypeOK, Exclusion, [Next]_vars
    PROVE  Exclusion'
<1>1. ASSUME NEW t \in Threads, NEW k \in Keys, NEW i \in Inputs,
             TryBeginTurn(t, k, i)
      PROVE  Exclusion'
  <2>1. \A u \in Threads : u # t => /\ pc'[u] = pc[u]
                                   /\ key'[u] = key[u]
                                   /\ bound'[u] = bound[u]
    BY <1>1 DEF TypeOK, TryBeginTurn
  <2>2. pc'[t] = "claimed" /\ key'[t] = k /\ bound'[t] = k
    BY <1>1 DEF TypeOK, TryBeginTurn
  <2>3. /\ activeRuns' = activeRuns \cup {k}
        /\ concurrent' = concurrent
        /\ ~Blocked(k)
    BY <1>1 DEF TryBeginTurn
  <2>4. Claimed'
    BY <2>1, <2>2, <2>3 DEF Exclusion, Claimed
  <2>5. \A u \in Threads : u # t /\ pc[u] # "idle" => concurrent /\ key[u] # k
    BY <2>3 DEF Exclusion, Claimed, Blocked
  <2>6. TurnExclusion'
    BY <2>1, <2>2, <2>3, <2>5 DEF Exclusion, TurnExclusion
  <2> QED BY <2>4, <2>6 DEF Exclusion
<1>2. ASSUME NEW t \in Threads, SetActiveSession(t) PROVE Exclusion'
  <2>1. /\ key' = key /\ activeRuns' = activeRuns /\ concurrent' = concurrent
        /\ \A u \in Threads : pc[u] = "idle" <=> pc'[u] = "idle"
    BY <1>2 DEF TypeOK, SetActiveSession
  <2>2. \A u \in Threads : bound'[u] = bound[u] \/ bound'[u] = key[u]
    BY <1>2 DEF TypeOK, SetActiveSession
  <2> QED BY <2>1, <2>2 DEF Exclusion, Claimed, TurnExclusion
<1>3. ASSUME NEW t \in Threads, RefuseTier(t) PROVE Exclusion'
  BY <1>3 DEF TypeOK, Exclusion, Claimed, TurnExclusion, RefuseTier
<1>4. ASSUME NEW t \in Threads, RunBatch(t) PROVE Exclusion'
  <2>1. UNCHANGED <<key, bound, activeRuns, concurrent>>
    BY <1>4 DEF RunBatch
  <2>2. \A u \in Threads : pc[u] = "idle" <=> pc'[u] = "idle"
    BY <1>4 DEF TypeOK, RunBatch
  <2> QED BY <2>1, <2>2 DEF Exclusion, Claimed, TurnExclusion
<1>5. ASSUME NEW t \in Threads, SeedSystemPrompt(t) PROVE Exclusion'
  BY <1>5 DEF TypeOK, Exclusion, Claimed, TurnExclusion, SeedSystemPrompt
<1>6. ASSUME NEW t \in Threads, BeginTurn(t) PROVE Exclusion'
  BY <1>6 DEF TypeOK, Exclusion, Claimed, TurnExclusion, BeginTurn
<1>7. ASSUME NEW t \in Threads, ResetFlags(t) PROVE Exclusion'
  BY <1>7 DEF TypeOK, Exclusion, Claimed, TurnExclusion, ResetFlags
<1>8. ASSUME NEW t \in Threads, ResetExternal(t) PROVE Exclusion'
  BY <1>8 DEF TypeOK, Exclusion, Claimed, TurnExclusion, ResetExternal
<1>9. ASSUME NEW t \in Threads, LoopStep(t) PROVE Exclusion'
  <2>1. pc[t] = "loop" /\ UNCHANGED <<key, bound, activeRuns, concurrent>>
    BY <1>9, LoopStepFacts DEF Iteration
  <2>2. pc' = pc \/ pc' = [pc EXCEPT ![t] = "settle"]
    BY <1>9, LoopStepFacts DEF EndLoop
  <2> QED BY <2>1, <2>2 DEF TypeOK, Exclusion, Claimed, TurnExclusion
<1>10. ASSUME NEW t \in Threads, StopInterrupted(t) PROVE Exclusion'
  BY <1>10 DEF TypeOK, Exclusion, Claimed, TurnExclusion, StopInterrupted,
     EndLoop
<1>11. ASSUME NEW t \in Threads, CapIterations(t) PROVE Exclusion'
  BY <1>11 DEF TypeOK, Exclusion, Claimed, TurnExclusion, CapIterations,
     EndLoop
<1>12. ASSUME NEW t \in Threads, Throw(t) PROVE Exclusion'
  BY <1>12 DEF TypeOK, Exclusion, Claimed, TurnExclusion, Throw
<1>13. ASSUME NEW t \in Threads, SettleTurn(t) PROVE Exclusion'
  BY <1>13 DEF TypeOK, Exclusion, Claimed, TurnExclusion, SettleTurn
<1>14. ASSUME NEW t \in Threads, Drain(t) PROVE Exclusion'
  BY <1>14 DEF TypeOK, Exclusion, Claimed, TurnExclusion, Drain
<1>15. ASSUME NEW t \in Threads, EndTurn(t) PROVE Exclusion'
  BY <1>15 DEF TypeOK, Exclusion, Claimed, TurnExclusion, EndTurn
<1>16. ASSUME NEW t \in Threads, CancelCurrentRun(t) PROVE Exclusion'
  BY <1>16 DEF TypeOK, Exclusion, Claimed, TurnExclusion, CancelCurrentRun
<1>17. ASSUME NEW i \in Inputs, QueueCheck(i) PROVE Exclusion'
  BY <1>17 DEF TypeOK, Exclusion, Claimed, TurnExclusion, QueueCheck
<1>18. ASSUME NEW p \in Interrupters,
             \/ InterruptFanOut(p) \/ InterruptExchange(p)
             \/ InterruptLatch(p)
      PROVE  Exclusion'
  BY <1>18 DEF TypeOK, Exclusion, Claimed, TurnExclusion, InterruptFanOut,
     InterruptExchange, InterruptLatch
<1>19. ASSUME NEW k \in Keys,
             \/ InterruptSession(k) \/ ClearConversation(k)
             \/ DropSession(k) \/ RestoreCheck(k)
      PROVE  Exclusion'
  BY <1>19 DEF TypeOK, Exclusion, Claimed, TurnExclusion, InterruptSession,
     ClearConversation, DropSession, RestoreCheck
<1>20. CASE \/ QueuePush \/ ClearQueue \/ RestoreSwap
  BY <1>20 DEF TypeOK, Exclusion, Claimed, TurnExclusion, QueuePush,
     ClearQueue, RestoreSwap
<1>21. CASE UNCHANGED vars
  BY <1>21 DEF TypeOK, Exclusion, Claimed, TurnExclusion
<1> QED
  BY <1>1, <1>2, <1>3, <1>4, <1>5, <1>6, <1>7, <1>8, <1>9, <1>10, <1>11,
     <1>12, <1>13, <1>14, <1>15, <1>16, <1>17, <1>18, <1>19, <1>20, <1>21 DEF
     Next, RunStep, LoopStep, InterruptStep

\* Requests survive every step: a run's token is lowered only by its own reset,
\* before which nothing is owed, or with its claim.
LEMMA RequestsStep ==
    ASSUME TypeOK, Exclusion, Requests, [Next]_vars
    PROVE  Requests'
<1>1. ASSUME NEW t \in Threads, NEW k \in Keys, NEW i \in Inputs,
             TryBeginTurn(t, k, i)
      PROVE  Requests'
  <2>1. pc'[t] = "claimed"
    BY <1>1 DEF TypeOK, TryBeginTurn
  <2>2. \A u \in Threads : u # t => /\ pc'[u] = pc[u] /\ key'[u] = key[u]
                                   /\ asked'[u] = asked[u]
    BY <1>1 DEF TypeOK, TryBeginTurn
  <2>3. \A u \in Threads : u # t /\ pc[u] # "idle"
                             => token'[key[u]] = token[key[u]]
    BY <1>1 DEF TypeOK, TryBeginTurn, Blocked, Exclusion, Claimed
  <2>4. interruptFlag' = interruptFlag
    BY <1>1 DEF TryBeginTurn
  <2> QED BY <2>1, <2>2, <2>3, <2>4 DEF Requests, Owes, RunInterrupted
<1>2. ASSUME NEW t \in Threads, SetActiveSession(t) PROVE Requests'
  BY <1>2 DEF TypeOK, Exclusion, Claimed, TurnExclusion, Requests, Owes,
     RunInterrupted, SetActiveSession
<1>3. ASSUME NEW t \in Threads, RefuseTier(t) PROVE Requests'
  BY <1>3 DEF TypeOK, Exclusion, Claimed, TurnExclusion, Requests, Owes,
     RunInterrupted, RefuseTier
<1>4. ASSUME NEW t \in Threads, RunBatch(t) PROVE Requests'
  BY <1>4 DEF TypeOK, Exclusion, Claimed, TurnExclusion, Requests, Owes,
     RunInterrupted, RunBatch
<1>5. ASSUME NEW t \in Threads, SeedSystemPrompt(t) PROVE Requests'
  BY <1>5 DEF TypeOK, Exclusion, Claimed, TurnExclusion, Requests, Owes,
     RunInterrupted, SeedSystemPrompt
<1>6. ASSUME NEW t \in Threads, BeginTurn(t) PROVE Requests'
  BY <1>6 DEF TypeOK, Exclusion, Claimed, TurnExclusion, Requests, Owes,
     RunInterrupted, BeginTurn
<1>7. ASSUME NEW t \in Threads, ResetFlags(t) PROVE Requests'
  BY <1>7 DEF TypeOK, Exclusion, Claimed, TurnExclusion, Requests, Owes,
     RunInterrupted, ResetFlags, FlagAfterReset
<1>8. ASSUME NEW t \in Threads, ResetExternal(t) PROVE Requests'
  BY <1>8 DEF TypeOK, Exclusion, Claimed, TurnExclusion, Requests, Owes,
     RunInterrupted, ResetExternal
<1>9. ASSUME NEW t \in Threads, LoopStep(t) PROVE Requests'
  <2>1. /\ pc[t] = "loop"
        /\ UNCHANGED <<key, token, interruptFlag, asked>>
    BY <1>9, LoopStepFacts DEF Iteration
  <2>2. pc' = pc \/ pc' = [pc EXCEPT ![t] = "settle"]
    BY <1>9, LoopStepFacts DEF EndLoop
  <2> QED BY <2>1, <2>2 DEF TypeOK, Requests, Owes, RunInterrupted
<1>10. ASSUME NEW t \in Threads, StopInterrupted(t) PROVE Requests'
  BY <1>10 DEF TypeOK, Exclusion, Claimed, TurnExclusion, Requests, Owes,
     RunInterrupted, StopInterrupted, EndLoop
<1>11. ASSUME NEW t \in Threads, CapIterations(t) PROVE Requests'
  BY <1>11 DEF TypeOK, Exclusion, Claimed, TurnExclusion, Requests, Owes,
     RunInterrupted, CapIterations, EndLoop
<1>12. ASSUME NEW t \in Threads, Throw(t) PROVE Requests'
  BY <1>12 DEF TypeOK, Exclusion, Claimed, TurnExclusion, Requests, Owes,
     RunInterrupted, Throw
<1>13. ASSUME NEW t \in Threads, SettleTurn(t) PROVE Requests'
  BY <1>13 DEF TypeOK, Exclusion, Claimed, TurnExclusion, Requests, Owes,
     RunInterrupted, SettleTurn
<1>14. ASSUME NEW t \in Threads, Drain(t) PROVE Requests'
  BY <1>14 DEF TypeOK, Exclusion, Claimed, TurnExclusion, Requests, Owes,
     RunInterrupted, Drain
<1>15. ASSUME NEW t \in Threads, EndTurn(t) PROVE Requests'
  BY <1>15 DEF TypeOK, Exclusion, Claimed, TurnExclusion, Requests, Owes,
     RunInterrupted, EndTurn
<1>16. ASSUME NEW t \in Threads, CancelCurrentRun(t) PROVE Requests'
  BY <1>16 DEF TypeOK, Exclusion, Claimed, TurnExclusion, Requests, Owes,
     RunInterrupted, CancelCurrentRun, AskRuns, Noted
<1>17. ASSUME NEW p \in Interrupters, InterruptFanOut(p) PROVE Requests'
  BY <1>17 DEF TypeOK, Exclusion, Claimed, TurnExclusion, Requests, Owes,
     RunInterrupted, InterruptFanOut, AskRuns, Noted, FannedOut
<1>18. ASSUME NEW p \in Interrupters, InterruptExchange(p) PROVE Requests'
  BY <1>18 DEF TypeOK, Exclusion, Claimed, TurnExclusion, Requests, Owes,
     RunInterrupted, InterruptExchange, Noted
<1>19. ASSUME NEW p \in Interrupters, InterruptLatch(p) PROVE Requests'
  BY <1>19 DEF TypeOK, Exclusion, Claimed, TurnExclusion, Requests, Owes,
     RunInterrupted, InterruptLatch
<1>20. ASSUME NEW k \in Keys, InterruptSession(k) PROVE Requests'
  BY <1>20 DEF TypeOK, Exclusion, Claimed, TurnExclusion, Requests, Owes,
     RunInterrupted, InterruptSession, AskRuns, Noted
<1>21. ASSUME NEW i \in Inputs, QueueCheck(i) PROVE Requests'
  BY <1>21 DEF TypeOK, Exclusion, Claimed, TurnExclusion, Requests, Owes,
     RunInterrupted, QueueCheck
<1>22. ASSUME NEW k \in Keys,
             \/ ClearConversation(k) \/ DropSession(k) \/ RestoreCheck(k)
      PROVE  Requests'
  BY <1>22 DEF TypeOK, Exclusion, Claimed, TurnExclusion, Requests, Owes,
     RunInterrupted, ClearConversation, DropSession, RestoreCheck
<1>23. CASE \/ QueuePush \/ ClearQueue \/ RestoreSwap
  BY <1>23 DEF TypeOK, Exclusion, Claimed, TurnExclusion, Requests, Owes,
     RunInterrupted, QueuePush, ClearQueue, RestoreSwap
<1>24. CASE UNCHANGED vars
  BY <1>24 DEF TypeOK, Exclusion, Claimed, TurnExclusion, Requests, Owes,
     RunInterrupted
<1> QED
  BY <1>1, <1>2, <1>3, <1>4, <1>5, <1>6, <1>7, <1>8, <1>9, <1>10, <1>11,
     <1>12, <1>13, <1>14, <1>15, <1>16, <1>17, <1>18, <1>19, <1>20, <1>21,
     <1>22, <1>23, <1>24 DEF Next, RunStep, LoopStep, InterruptStep

\* A loop that stops as interrupted was asked to.
LEMMA CauseStep ==
    ASSUME TypeOK, Requests, InterruptHasCause, [Next]_vars
    PROVE  InterruptHasCause'
<1>1. ASSUME NEW t \in Threads, NEW k \in Keys, NEW i \in Inputs,
             TryBeginTurn(t, k, i)
      PROVE  InterruptHasCause'
  BY <1>1 DEF TypeOK, Requests, InterruptHasCause, Owes, TryBeginTurn, Blocked
<1>2. ASSUME NEW t \in Threads, SetActiveSession(t) PROVE InterruptHasCause'
  BY <1>2 DEF TypeOK, Requests, InterruptHasCause, Owes, SetActiveSession
<1>3. ASSUME NEW t \in Threads, RefuseTier(t) PROVE InterruptHasCause'
  BY <1>3 DEF TypeOK, Requests, InterruptHasCause, Owes, RefuseTier
<1>4. ASSUME NEW t \in Threads, RunBatch(t) PROVE InterruptHasCause'
  BY <1>4 DEF TypeOK, Requests, InterruptHasCause, Owes, RunBatch
<1>5. ASSUME NEW t \in Threads, SeedSystemPrompt(t) PROVE InterruptHasCause'
  BY <1>5 DEF TypeOK, Requests, InterruptHasCause, Owes, SeedSystemPrompt
<1>6. ASSUME NEW t \in Threads, BeginTurn(t) PROVE InterruptHasCause'
  BY <1>6 DEF TypeOK, Requests, InterruptHasCause, Owes, BeginTurn
<1>7. ASSUME NEW t \in Threads, ResetFlags(t) PROVE InterruptHasCause'
  BY <1>7 DEF TypeOK, Requests, InterruptHasCause, Owes, ResetFlags,
     FlagAfterReset
<1>8. ASSUME NEW t \in Threads, ResetExternal(t) PROVE InterruptHasCause'
  BY <1>8 DEF TypeOK, Requests, InterruptHasCause, Owes, ResetExternal
<1>9. ASSUME NEW t \in Threads, LoopStep(t) PROVE InterruptHasCause'
  <2>1. pc[t] = "loop" /\ key' = key /\ asked' = asked
    BY <1>9, LoopStepFacts DEF Iteration
  <2>2. CASE UNCHANGED <<pc, outcome>>
    BY <2>1, <2>2 DEF InterruptHasCause
  <2>3. CASE \E o \in {"COMPLETE", "ERROR", "EXECUTING"} : EndLoop(t, o)
    BY <2>1, <2>3 DEF TypeOK, InterruptHasCause, EndLoop
  <2>4. CASE RunInterrupted(t) /\ EndLoop(t, "INTERRUPTED")
    BY <2>1, <2>4 DEF TypeOK, Requests, InterruptHasCause, Owes, EndLoop
  <2> QED BY <1>9, <2>2, <2>3, <2>4, LoopStepFacts
<1>10. ASSUME NEW t \in Threads, StopInterrupted(t) PROVE InterruptHasCause'
  BY <1>10 DEF TypeOK, Requests, InterruptHasCause, Owes, StopInterrupted,
     EndLoop
<1>11. ASSUME NEW t \in Threads, CapIterations(t) PROVE InterruptHasCause'
  BY <1>11 DEF TypeOK, Requests, InterruptHasCause, Owes, CapIterations,
     EndLoop
<1>12. ASSUME NEW t \in Threads, Throw(t) PROVE InterruptHasCause'
  BY <1>12 DEF TypeOK, Requests, InterruptHasCause, Owes, Throw
<1>13. ASSUME NEW t \in Threads, SettleTurn(t) PROVE InterruptHasCause'
  BY <1>13 DEF TypeOK, Requests, InterruptHasCause, Owes, SettleTurn
<1>14. ASSUME NEW t \in Threads, Drain(t) PROVE InterruptHasCause'
  BY <1>14 DEF TypeOK, Requests, InterruptHasCause, Owes, Drain
<1>15. ASSUME NEW t \in Threads, EndTurn(t) PROVE InterruptHasCause'
  BY <1>15 DEF TypeOK, Requests, InterruptHasCause, Owes, EndTurn
<1>16. ASSUME NEW t \in Threads, CancelCurrentRun(t) PROVE InterruptHasCause'
  BY <1>16 DEF TypeOK, Requests, InterruptHasCause, Owes, CancelCurrentRun,
     AskRuns, Noted
<1>17. ASSUME NEW p \in Interrupters,
             InterruptFanOut(p)
      PROVE  InterruptHasCause'
  BY <1>17 DEF TypeOK, Requests, InterruptHasCause, Owes, InterruptFanOut,
     AskRuns, Noted, FannedOut
<1>18. ASSUME NEW p \in Interrupters,
             InterruptExchange(p)
      PROVE  InterruptHasCause'
  BY <1>18 DEF TypeOK, Requests, InterruptHasCause, Owes, InterruptExchange,
     Noted
<1>19. ASSUME NEW p \in Interrupters,
             InterruptLatch(p)
      PROVE  InterruptHasCause'
  BY <1>19 DEF TypeOK, Requests, InterruptHasCause, Owes, InterruptLatch
<1>20. ASSUME NEW k \in Keys, InterruptSession(k) PROVE InterruptHasCause'
  BY <1>20 DEF TypeOK, Requests, InterruptHasCause, Owes, InterruptSession,
     AskRuns, Noted
<1>21. ASSUME NEW i \in Inputs, QueueCheck(i) PROVE InterruptHasCause'
  BY <1>21 DEF TypeOK, Requests, InterruptHasCause, Owes, QueueCheck
<1>22. ASSUME NEW k \in Keys,
             \/ ClearConversation(k) \/ DropSession(k) \/ RestoreCheck(k)
      PROVE  InterruptHasCause'
  BY <1>22 DEF TypeOK, Requests, InterruptHasCause, Owes, ClearConversation,
     DropSession, RestoreCheck
<1>23. CASE \/ QueuePush \/ ClearQueue \/ RestoreSwap
  BY <1>23 DEF TypeOK, Requests, InterruptHasCause, Owes, QueuePush,
     ClearQueue, RestoreSwap
<1>24. CASE UNCHANGED vars
  BY <1>24 DEF TypeOK, Requests, InterruptHasCause, Owes
<1> QED
  BY <1>1, <1>2, <1>3, <1>4, <1>5, <1>6, <1>7, <1>8, <1>9, <1>10, <1>11,
     <1>12, <1>13, <1>14, <1>15, <1>16, <1>17, <1>18, <1>19, <1>20, <1>21,
     <1>22, <1>23, <1>24 DEF Next, RunStep, LoopStep, InterruptStep

\* During a turn active_session_key is the key the turn claimed.
LEMMA ActiveIsKey ==
    ASSUME TypeOK, Claimed, NEW t \in Threads, pc[t] # "idle"
    PROVE  ActiveSessionKey(t) = key[t]
BY ConstantsAssumption DEF TypeOK, Claimed, ActiveSessionKey

\* The end of a loop records its outcome for its own session and no other.
LEMMA EndLoopFailures ==
    ASSUME TypeOK, Exclusion, Failures, NEW t \in Threads, pc[t] = "loop",
           key' = key, NEW o \in Ended, EndLoop(t, o)
    PROVE  Failures'
<1>1. ActiveSessionKey(t) = key[t] /\ key[t] \in Keys
  BY ActiveIsKey DEF Exclusion, TypeOK
<1>2. outcome'[t] = o /\ failures'[key[t]] = (o = "ERROR")
  BY <1>1 DEF EndLoop, TurnFailure, TypeOK
<1>3. \A u \in Threads : u # t => pc'[u] = pc[u] /\ outcome'[u] = outcome[u]
  BY DEF EndLoop, TypeOK
<1>4. \A u \in Threads : u # t /\ pc[u] # "idle"
                         => failures'[key[u]] = failures[key[u]]
  BY <1>1 DEF EndLoop, TypeOK, Exclusion, TurnExclusion
<1> QED BY <1>2, <1>3, <1>4 DEF Failures

\* No step of another session disturbs a turn's recorded outcome.
LEMMA FailuresStep ==
    ASSUME TypeOK, Exclusion, Failures, [Next]_vars
    PROVE  Failures'
<1>1. ASSUME NEW t \in Threads, NEW k \in Keys, NEW i \in Inputs,
             TryBeginTurn(t, k, i)
      PROVE  Failures'
  BY <1>1 DEF TypeOK, Exclusion, Claimed, TurnExclusion, Failures,
     TryBeginTurn, Blocked
<1>2. ASSUME NEW t \in Threads, SetActiveSession(t) PROVE Failures'
  BY <1>2 DEF TypeOK, Exclusion, Claimed, TurnExclusion, Failures,
     SetActiveSession
<1>3. ASSUME NEW t \in Threads, RefuseTier(t) PROVE Failures'
  BY <1>3 DEF TypeOK, Exclusion, Claimed, TurnExclusion, Failures, Ended,
     RefuseTier
<1>4. ASSUME NEW t \in Threads, RunBatch(t) PROVE Failures'
  BY <1>4 DEF TypeOK, Exclusion, Claimed, TurnExclusion, Failures, Ended,
     RunBatch
<1>5. ASSUME NEW t \in Threads, SeedSystemPrompt(t) PROVE Failures'
  BY <1>5 DEF TypeOK, Exclusion, Claimed, TurnExclusion, Failures,
     SeedSystemPrompt
<1>6. ASSUME NEW t \in Threads, BeginTurn(t) PROVE Failures'
  BY <1>6 DEF TypeOK, Exclusion, Claimed, TurnExclusion, Failures, BeginTurn
<1>7. ASSUME NEW t \in Threads, ResetFlags(t) PROVE Failures'
  BY <1>7 DEF TypeOK, Exclusion, Claimed, TurnExclusion, Failures, ResetFlags,
     FlagAfterReset
<1>8. ASSUME NEW t \in Threads, ResetExternal(t) PROVE Failures'
  BY <1>8 DEF TypeOK, Exclusion, Claimed, TurnExclusion, Failures,
     ResetExternal
<1>9. ASSUME NEW t \in Threads, LoopStep(t) PROVE Failures'
  <2>1. pc[t] = "loop" /\ key' = key
    BY <1>9, LoopStepFacts DEF Iteration
  <2>2. CASE UNCHANGED <<pc, outcome, failures>>
    BY <2>1, <2>2 DEF Failures
  <2>3. ASSUME NEW o \in Ended, EndLoop(t, o) PROVE Failures'
    BY <2>1, <2>3, EndLoopFailures
  <2> QED BY <1>9, <2>2, <2>3, LoopStepFacts DEF Ended
<1>10. ASSUME NEW t \in Threads, StopInterrupted(t) PROVE Failures'
  BY <1>10, EndLoopFailures DEF StopInterrupted, Ended
<1>11. ASSUME NEW t \in Threads, CapIterations(t) PROVE Failures'
  BY <1>11, EndLoopFailures DEF CapIterations, Ended
<1>12. ASSUME NEW t \in Threads, Throw(t) PROVE Failures'
  BY <1>12 DEF TypeOK, Exclusion, Claimed, TurnExclusion, Failures, Ended,
     Throw
<1>13. ASSUME NEW t \in Threads, SettleTurn(t) PROVE Failures'
  BY <1>13 DEF TypeOK, Exclusion, Claimed, TurnExclusion, Failures, SettleTurn
<1>14. ASSUME NEW t \in Threads, Drain(t) PROVE Failures'
  BY <1>14 DEF TypeOK, Exclusion, Claimed, TurnExclusion, Failures, Drain
<1>15. ASSUME NEW t \in Threads, EndTurn(t) PROVE Failures'
  BY <1>15 DEF TypeOK, Exclusion, Claimed, TurnExclusion, Failures, EndTurn
<1>16. ASSUME NEW t \in Threads, CancelCurrentRun(t) PROVE Failures'
  BY <1>16 DEF TypeOK, Exclusion, Claimed, TurnExclusion, Failures,
     CancelCurrentRun, AskRuns, Noted
<1>17. ASSUME NEW i \in Inputs, QueueCheck(i) PROVE Failures'
  BY <1>17 DEF TypeOK, Exclusion, Claimed, TurnExclusion, Failures, QueueCheck
<1>18. ASSUME NEW p \in Interrupters,
             \/ InterruptFanOut(p) \/ InterruptExchange(p)
             \/ InterruptLatch(p)
      PROVE  Failures'
  BY <1>18 DEF TypeOK, Exclusion, Claimed, TurnExclusion, Failures,
     InterruptFanOut, InterruptExchange, InterruptLatch, AskRuns, Noted,
     FannedOut
<1>19. ASSUME NEW k \in Keys,
             \/ InterruptSession(k) \/ ClearConversation(k)
             \/ DropSession(k) \/ RestoreCheck(k)
      PROVE  Failures'
  BY <1>19 DEF TypeOK, Exclusion, Claimed, TurnExclusion, Failures,
     InterruptSession, ClearConversation, DropSession, RestoreCheck, AskRuns,
     Noted
<1>20. CASE \/ QueuePush \/ ClearQueue \/ RestoreSwap
  BY <1>20 DEF TypeOK, Exclusion, Claimed, TurnExclusion, Failures, QueuePush,
     ClearQueue, RestoreSwap
<1>21. CASE UNCHANGED vars
  BY <1>21 DEF TypeOK, Exclusion, Claimed, TurnExclusion, Failures
<1> QED
  BY <1>1, <1>2, <1>3, <1>4, <1>5, <1>6, <1>7, <1>8, <1>9, <1>10, <1>11,
     <1>12, <1>13, <1>14, <1>15, <1>16, <1>17, <1>18, <1>19, <1>20, <1>21 DEF
     Next, RunStep, LoopStep, InterruptStep

(***************************************************************************)
(* The theorems.                                                           *)
(***************************************************************************)
\* The inductive invariant holds initially.
LEMMA InitInvariant ==
    ASSUME Init
    PROVE  TypeOK /\ Exclusion /\ Requests /\ InterruptHasCause /\ Failures
<1>1. 0 \in 0..MaxIterations /\ Len(<<>>) <= QueueCap
  BY ConstantsAssumption, EmptyList
<1>2. TypeOK
  BY <1>1, ConstantsAssumption, EmptyList DEF Init, TypeOK, KeyOrNone
<1>3. Exclusion
  BY DEF Init, Exclusion, Claimed, TurnExclusion
<1>4. Requests
  BY DEF Init, Requests, Owes
<1>5. InterruptHasCause /\ Failures
  BY DEF Init, InterruptHasCause, Failures, Ended
<1> QED BY <1>2, <1>3, <1>4, <1>5

\* Every variable keeps its type, a loop never counts past max_iterations and
\* the message queue never outgrows message_queue_capacity.
THEOREM TypeCorrect == Spec => []TypeOK
<1>1. Init => TypeOK
  BY InitInvariant
<1>2. TypeOK /\ [Next]_vars => TypeOK'
  BY TypeStep
<1> QED BY <1>1, <1>2, PTL DEF Spec

\* A turn in flight owns its session's claim (try_begin_turn, end_turn).
LEMMA ExclusionInvariant == Spec => []Exclusion
<1>1. Init => Exclusion
  BY InitInvariant
<1>2. TypeOK /\ Exclusion /\ [Next]_vars => Exclusion'
  BY ExclusionStep
<1> QED BY <1>1, <1>2, TypeCorrect, PTL DEF Spec

\* However many host threads call the entry points, no two turns are ever in
\* flight on one session, nor two at all with concurrent_sessions off.
THEOREM OneTurnPerSession == Spec => []TurnExclusion
<1>1. Exclusion => TurnExclusion
  BY DEF Exclusion
<1> QED BY <1>1, ExclusionInvariant, PTL

\* Flags, tokens and the requests behind them agree in every reachable state.
LEMMA RequestsInvariant == Spec => []Requests
<1>1. Init => Requests
  BY InitInvariant
<1>2. TypeOK /\ Exclusion /\ Requests /\ [Next]_vars => Requests'
  BY RequestsStep
<1> QED BY <1>1, <1>2, TypeCorrect, ExclusionInvariant, PTL DEF Spec

\* No turn is ever stopped by a request made before it began or of another
\* session: reset_interrupt and the per-run tokens keep them apart.
THEOREM NoStaleInterrupt == Spec => []InterruptHasCause
<1>1. Init => InterruptHasCause
  BY InitInvariant
<1>2. TypeOK /\ Requests /\ InterruptHasCause /\ [Next]_vars
        => InterruptHasCause'
  BY CauseStep
<1> QED BY <1>1, <1>2, TypeCorrect, RequestsInvariant, PTL DEF Spec

\* What turn_outcome and settle_turn read is how this very turn ended.
THEOREM OutcomeIsTheTurns == Spec => []OutcomeMatchesTurn
<1>1. Init => Failures
  BY InitInvariant
<1>2. TypeOK /\ Exclusion /\ Failures /\ [Next]_vars => Failures'
  BY FailuresStep
<1>3. TypeOK /\ Exclusion /\ Failures => OutcomeMatchesTurn
  BY ActiveIsKey DEF Exclusion, Failures, Ended, OutcomeMatchesTurn
<1> QED BY <1>1, <1>2, <1>3, TypeCorrect, ExclusionInvariant, PTL DEF Spec

\* A step may start no iteration of a turn that owes a stop.
LEMMA StopStep ==
    ASSUME TypeOK, Requests, [Next]_vars, NEW u \in Threads,
           asked[u] = "owed", iterations'[u] = iterations[u] + 1
    PROVE  outcome'[u] = "INTERRUPTED"
<1>1. iterations[u] \in Nat
  BY ConstantsAssumption DEF TypeOK
<1>2. iterations' # iterations
  BY <1>1
<1>3. iterations'[u] # 0
  BY <1>1
<1>4. ASSUME NEW t \in Threads, LoopStep(t)
      PROVE  outcome'[u] = "INTERRUPTED"
  <2>1. PICK said \in Said(input[t]) : Iteration(t, said)
    BY <1>4, LoopStepFacts
  <2>2. t = u
    BY <1>1, <2>1 DEF TypeOK, Iteration
  <2>3. token[key[u]]
    BY <2>1, <2>2 DEF Iteration, Requests, Owes
  <2>4. EndLoop(t, "INTERRUPTED")
    BY <1>4, <2>2, <2>3, LoopStepFacts DEF RunInterrupted
  <2> QED BY <2>2, <2>4 DEF TypeOK, EndLoop
<1>5. ASSUME NEW t \in Threads, StopInterrupted(t)
      PROVE  outcome'[u] = "INTERRUPTED"
  <2>1. t = u
    BY <1>1, <1>5 DEF TypeOK, StopInterrupted
  <2> QED BY <1>5, <2>1 DEF TypeOK, StopInterrupted, EndLoop
<1>6. ASSUME NEW t \in Threads, BeginTurn(t) \/ Throw(t) \/ SettleTurn(t)
      PROVE  FALSE
  <2>1. iterations' = [iterations EXCEPT ![t] = 0]
    BY <1>6 DEF BeginTurn, Throw, SettleTurn, LeaveBody
  <2> QED BY <1>1, <1>3, <2>1 DEF TypeOK
<1>7. ASSUME NEW t \in Threads,
             \/ SetActiveSession(t) \/ RefuseTier(t) \/ RunBatch(t)
             \/ SeedSystemPrompt(t) \/ ResetFlags(t) \/ ResetExternal(t)
             \/ CapIterations(t) \/ Drain(t) \/ EndTurn(t)
             \/ CancelCurrentRun(t)
      PROVE  FALSE
  BY <1>2, <1>7 DEF SetActiveSession, RefuseTier, RunBatch, SeedSystemPrompt,
     ResetFlags, ResetExternal, CapIterations, Drain, EndTurn, CancelCurrentRun
<1>8. ASSUME NEW t \in Threads, NEW k \in Keys, NEW i \in Inputs,
             TryBeginTurn(t, k, i)
      PROVE  FALSE
  BY <1>2, <1>8 DEF TryBeginTurn
<1>9. ASSUME NEW p \in Interrupters,
             InterruptFanOut(p) \/ InterruptExchange(p) \/ InterruptLatch(p)
      PROVE  FALSE
  BY <1>2, <1>9 DEF InterruptFanOut, InterruptExchange, InterruptLatch
<1>10. ASSUME NEW k \in Keys,
              \/ InterruptSession(k) \/ ClearConversation(k)
              \/ DropSession(k) \/ RestoreCheck(k)
       PROVE  FALSE
  BY <1>2, <1>10 DEF InterruptSession, ClearConversation, DropSession,
     RestoreCheck
<1>11. ASSUME NEW i \in Inputs, QueueCheck(i) PROVE FALSE
  BY <1>2, <1>11 DEF QueueCheck
<1>12. CASE QueuePush \/ ClearQueue \/ RestoreSwap \/ UNCHANGED vars
  BY <1>2, <1>12 DEF QueuePush, ClearQueue, RestoreSwap
<1> QED
  BY <1>4, <1>5, <1>6, <1>7, <1>8, <1>9, <1>10, <1>11, <1>12
     DEF Next, RunStep, LoopStep, InterruptStep

\* A turn whose token was set while it was running starts no further
\* iteration, whatever other sessions start, end or reset meanwhile.
THEOREM InterruptIsHonoured == Spec => StopWhenAsked
<1>1. TypeOK /\ Requests /\ [Next]_vars
        => [\A t \in Threads :
               asked[t] = "owed" /\ iterations'[t] = iterations[t] + 1
                   => outcome'[t] = "INTERRUPTED"]_vars
  BY StopStep
<1> QED
  BY <1>1, TypeCorrect, RequestsInvariant, PTL DEF Spec, StopWhenAsked

(***************************************************************************)
(* The message queue.                                                      *)
(***************************************************************************)
\* The steps that change the queue or who an input belongs to.
QueueStep ==
    \/ \E t \in Threads, k \in Keys, i \in Inputs : TryBeginTurn(t, k, i)
    \/ \E t \in Threads : Drain(t)
    \/ \E i \in Inputs : QueueCheck(i)
    \/ QueuePush \/ ClearQueue

\* Every other step leaves them alone.
LEMMA QueueFrame ==
    ASSUME [Next]_vars
    PROVE  QueueStep \/ UNCHANGED <<queue, posting, accepted, consumed, used, owner>>
<1>1. ASSUME NEW t \in Threads, RunStep(t) \/ CancelCurrentRun(t), ~Drain(t)
      PROVE  UNCHANGED <<queue, posting, accepted, consumed, used, owner>>
  BY <1>1 DEF RunStep, SetActiveSession, RefuseTier, RunBatch, SeedSystemPrompt,
     BeginTurn, ResetFlags, ResetExternal, Iterate, CancelGenerate, HardCut,
     StopStuck, StopGenerating, Iteration, StopInterrupted, CapIterations,
     Throw, SettleTurn, EndTurn, CancelCurrentRun
<1>2. ASSUME NEW p \in Interrupters, InterruptFanOut(p) \/ InterruptStep(p)
      PROVE  UNCHANGED <<queue, posting, accepted, consumed, used, owner>>
  BY <1>2 DEF InterruptStep, InterruptFanOut, InterruptExchange, InterruptLatch
<1>3. ASSUME NEW k \in Keys, \/ InterruptSession(k) \/ ClearConversation(k)
                             \/ DropSession(k) \/ RestoreCheck(k)
      PROVE  UNCHANGED <<queue, posting, accepted, consumed, used, owner>>
  BY <1>3 DEF InterruptSession, ClearConversation, DropSession, RestoreCheck
<1>4. CASE RestoreSwap \/ UNCHANGED vars
  BY <1>4 DEF RestoreSwap
<1> QED BY <1>1, <1>2, <1>3, <1>4 DEF Next, QueueStep

\* Popping the head of the queue behind the messages taken so far keeps their
\* concatenation.
LEMMA QueueConcat ==
    ASSUME NEW S, NEW a \in Seq(S), NEW q \in Seq(S)
    PROVE  q # <<>> => Append(a, Head(q)) \o Tail(q) = a \o q
<1>1. Len(a) \in Nat /\ Len(q) \in Nat
  BY LenProperties
<1>2. /\ a \o q \in Seq(S) /\ Len(a \o q) = Len(a) + Len(q)
      /\ \A i \in 1 .. Len(a) + Len(q) :
            (a \o q)[i] = IF i <= Len(a) THEN a[i] ELSE q[i - Len(a)]
  BY ConcatProperties
<1>3. ASSUME q # <<>> PROVE Append(a, Head(q)) \o Tail(q) = a \o q
  <2> DEFINE b == Append(a, Head(q))
             r == Tail(q)
  <2>1. /\ Head(q) \in S /\ Head(q) = q[1] /\ r \in Seq(S) /\ Len(r) = Len(q) - 1
        /\ \A i \in 1 .. Len(q) - 1 : r[i] = q[i + 1]
    BY <1>3, HeadTailProperties
  <2>2. /\ b \in Seq(S) /\ Len(b) = Len(a) + 1 /\ b[Len(a) + 1] = q[1]
        /\ \A i \in 1 .. Len(a) : b[i] = a[i]
    BY <2>1, AppendProperties
  <2> HIDE DEF b, r
  <2>3. /\ b \o r \in Seq(S) /\ Len(b \o r) = Len(b) + Len(r)
        /\ \A i \in 1 .. Len(b) + Len(r) :
              (b \o r)[i] = IF i <= Len(b) THEN b[i] ELSE r[i - Len(b)]
    BY <2>1, <2>2, ConcatProperties
  <2>4. Len(b \o r) = Len(a \o q)
    BY <1>1, <1>2, <2>1, <2>2, <2>3
  <2>5. ASSUME NEW i \in 1 .. Len(b \o r) PROVE (b \o r)[i] = (a \o q)[i]
    <3>1. i \in 1 .. Len(a) + Len(q) /\ i \in 1 .. Len(b) + Len(r)
      BY <1>2, <2>3, <2>4
    <3>2. CASE i <= Len(a)
      BY <1>1, <1>2, <2>2, <2>3, <3>1, <3>2
    <3>3. CASE i = Len(a) + 1
      BY <1>1, <1>2, <2>2, <2>3, <3>1, <3>3
    <3>4. CASE i > Len(a) + 1
      <4>1. /\ i - Len(b) \in 1 .. Len(q) - 1 /\ (i - Len(b)) + 1 = i - Len(a)
            /\ ~(i <= Len(b)) /\ ~(i <= Len(a))
        BY <1>1, <2>1, <2>2, <3>1, <3>4
      <4> QED BY <1>2, <2>1, <2>3, <3>1, <4>1
    <3> QED BY <1>1, <3>1, <3>2, <3>3, <3>4
  <2>6. b \o r = a \o q
    BY <1>2, <2>3, <2>4, <2>5, SeqEqual
  <2> QED BY <2>6 DEF b, r
<1> QED BY <1>3

\* So does pushing a message at its end.
LEMMA PushConcat ==
    ASSUME NEW S, NEW a \in Seq(S), NEW q \in Seq(S), NEW e \in S,
           NEW b, b = a \o q, NEW q1, q1 = Append(q, e), NEW b1, b1 = Append(b, e)
    PROVE  b1 = a \o q1
<1>1. Len(a) \in Nat /\ Len(q) \in Nat
  BY LenProperties
<1>2. /\ b \in Seq(S) /\ Len(b) = Len(a) + Len(q)
      /\ \A i \in 1 .. Len(a) + Len(q) :
            b[i] = IF i <= Len(a) THEN a[i] ELSE q[i - Len(a)]
  BY ConcatProperties
<1>3. /\ q1 \in Seq(S) /\ Len(q1) = Len(q) + 1 /\ q1[Len(q) + 1] = e
      /\ \A i \in 1 .. Len(q) : q1[i] = q[i]
  BY AppendProperties
<1>4. /\ b1 \in Seq(S) /\ Len(b1) = Len(b) + 1 /\ b1[Len(b) + 1] = e
      /\ \A i \in 1 .. Len(b) : b1[i] = b[i]
  BY <1>2, AppendProperties
<1> DEFINE c == a \o q1
<1>5. /\ c \in Seq(S) /\ Len(c) = Len(a) + Len(q1)
      /\ \A i \in 1 .. Len(a) + Len(q1) :
            c[i] = IF i <= Len(a) THEN a[i] ELSE q1[i - Len(a)]
  BY <1>3, ConcatProperties
<1> HIDE DEF c
<1>6. Len(b1) = Len(c)
  BY <1>1, <1>2, <1>3, <1>4, <1>5
<1>7. ASSUME NEW i \in 1 .. Len(c) PROVE b1[i] = c[i]
  <2>1. CASE i <= Len(a)
    BY <1>1, <1>2, <1>3, <1>4, <1>5, <2>1
  <2>2. CASE i > Len(a) /\ i <= Len(a) + Len(q)
    <3>1. /\ i \in 1 .. Len(a) + Len(q) /\ i \in 1 .. Len(b) /\ ~(i <= Len(a))
          /\ i - Len(a) \in 1 .. Len(q) /\ i \in 1 .. Len(a) + Len(q1)
      BY <1>1, <1>2, <1>3, <1>5, <2>2
    <3> QED BY <1>2, <1>3, <1>4, <1>5, <3>1
  <2>3. CASE i = Len(a) + Len(q) + 1
    <3>1. /\ i = Len(b) + 1 /\ i - Len(a) = Len(q) + 1 /\ ~(i <= Len(a))
          /\ i \in 1 .. Len(a) + Len(q1)
      BY <1>1, <1>2, <1>3, <1>5, <2>3
    <3> QED BY <1>3, <1>4, <1>5, <3>1
  <2> QED BY <1>1, <1>3, <1>5, <2>1, <2>2, <2>3
<1>8. b1 = c
  BY <1>4, <1>5, <1>6, <1>7, SeqEqual
<1> QED BY <1>8 DEF c

\* No step loses, repeats or reorders an accepted message.
LEMMA ConservedStep ==
    ASSUME TypeOK, QueueConserved, [Next]_vars
    PROVE  QueueConserved'
<1>1. queue \in Seq(Inputs) /\ consumed \in Seq(Inputs) /\ accepted = consumed \o queue
  BY DEF TypeOK, QueueConserved
<1>2. CASE UNCHANGED <<queue, accepted, consumed>>
  BY <1>2 DEF QueueConserved
<1>3. ASSUME NEW t \in Threads, Drain(t) PROVE QueueConserved'
  <2>1. CASE queue = <<>>
    BY <1>2, <1>3, <2>1 DEF Drain
  <2>2. CASE queue # <<>>
    <3>1. /\ queue' = Tail(queue) /\ consumed' = Append(consumed, Head(queue))
          /\ accepted' = accepted
      BY <1>3, <2>2 DEF Drain, QueueAfterPop
    <3>2. Append(consumed, Head(queue)) \o Tail(queue) = consumed \o queue
      BY <1>1, <2>2, QueueConcat
    <3> QED BY <1>1, <3>1, <3>2 DEF QueueConserved
  <2> QED BY <2>1, <2>2
<1>4. CASE QueuePush
  <2>1. CASE Len(queue) >= QueueCap
    BY <1>2, <1>4, <2>1 DEF QueuePush
  <2>2. CASE ~(Len(queue) >= QueueCap)
    <3>1. /\ queue' = Append(queue, posting) /\ accepted' = Append(accepted, posting)
          /\ consumed' = consumed /\ posting \in Inputs
      BY <1>4, <2>2 DEF QueuePush, QueueAfterPush, TypeOK
    <3>2. accepted' = consumed \o queue'
      BY <1>1, <3>1, PushConcat
    <3> QED BY <3>1, <3>2 DEF QueueConserved
  <2> QED BY <2>1, <2>2
<1>5. CASE ClearQueue
  <2>1. queue' = <<>> /\ accepted' = consumed /\ consumed' = consumed
    BY <1>5 DEF ClearQueue
  <2> QED BY <1>1, <2>1, ConcatEmptySeq DEF QueueConserved
<1>6. ASSUME NEW t \in Threads, NEW k \in Keys, NEW i \in Inputs,
             TryBeginTurn(t, k, i)
      PROVE  QueueConserved'
  BY <1>2, <1>6 DEF TryBeginTurn
<1>7. ASSUME NEW i \in Inputs, QueueCheck(i) PROVE QueueConserved'
  BY <1>2, <1>7 DEF QueueCheck
<1> QED BY <1>2, <1>3, <1>4, <1>5, <1>6, <1>7, QueueFrame DEF QueueStep

\* The mid-generation queue (queue_user_message, pop_queued_user_message)
\* neither loses, repeats nor reorders a message it accepted.
THEOREM QueueLosesNothing == Spec => []QueueConserved
<1>1. Init => QueueConserved
  <2>1. <<>> \o <<>> = <<>>
    BY EmptyList, ConcatEmptySeq
  <2> QED BY <2>1 DEF Init, QueueConserved
<1>2. TypeOK /\ QueueConserved /\ [Next]_vars => QueueConserved'
  BY ConservedStep
<1> QED BY <1>1, <1>2, TypeCorrect, PTL DEF Spec

(***************************************************************************)
(* Whose input is whose.                                                   *)
(***************************************************************************)
\* Nothing is in q twice.
Distinct(q) == \A i, j \in 1 .. Len(q) : q[i] = q[j] => i = j

\* A message waiting in the queue, or about to be, has no session yet.
Waiting ==
    /\ \A i \in Inputs : owner[i] # NoKey => i \in used
    /\ Distinct(queue)
    /\ \A n \in 1 .. Len(queue) :
          /\ queue[n] \in used /\ owner[queue[n]] = NoKey
          /\ queue[n] # posting
    /\ posting # NoInput => posting \in used /\ owner[posting] = NoKey

\* An input is given to one session, once.
LEMMA WaitingStep ==
    ASSUME TypeOK, Waiting, [Next]_vars
    PROVE  /\ Waiting'
           /\ \A i \in Inputs : owner[i] # NoKey => owner'[i] = owner[i]
<1>0. /\ queue \in Seq(Inputs) /\ Len(queue) \in Nat
      /\ \A n \in 1 .. Len(queue) : queue[n] \in Inputs
      /\ owner \in [Inputs -> KeyOrNone] /\ NoInput \notin Inputs
  BY LenProperties, ElementOfSeq, ConstantsAssumption DEF TypeOK
<1>1. CASE UNCHANGED <<queue, posting, used, owner>>
  BY <1>1 DEF Waiting, Distinct
<1>2. ASSUME NEW t \in Threads, NEW k \in Keys, NEW i \in Inputs,
             TryBeginTurn(t, k, i)
      PROVE  Waiting' /\ \A j \in Inputs : owner[j] # NoKey => owner'[j] = owner[j]
  <2>1. /\ i \notin used /\ used' = used \cup {i} /\ owner' = [owner EXCEPT ![i] = k]
        /\ UNCHANGED <<queue, posting>>
    BY <1>2 DEF TryBeginTurn
  <2>2. posting \in Inputs \cup {NoInput}
    BY DEF TypeOK
  <2> QED BY <1>0, <2>1, <2>2 DEF Waiting, Distinct
<1>3. ASSUME NEW t \in Threads, Drain(t)
      PROVE  Waiting' /\ \A j \in Inputs : owner[j] # NoKey => owner'[j] = owner[j]
  <2>1. CASE queue = <<>>
    BY <1>1, <1>3, <2>1 DEF Drain
  <2>2. CASE queue # <<>>
    <3> DEFINE h == Head(queue)
               r == Tail(queue)
    <3>1. /\ queue' = r /\ owner' = [owner EXCEPT ![h] = key[t]]
          /\ UNCHANGED <<posting, used>>
      BY <1>3, <2>2 DEF Drain, QueueAfterPop
    <3>2. /\ h \in Inputs /\ h = queue[1] /\ Len(r) = Len(queue) - 1
          /\ \A n \in 1 .. Len(queue) - 1 : r[n] = queue[n + 1]
      BY <1>0, <2>2, HeadTailProperties
    <3> HIDE DEF h, r
    <3>3. Len(queue) # 0
      BY <1>0, <2>2, EmptySeq
    <3>4. \A n \in 1 .. Len(r) : n + 1 \in 1 .. Len(queue) /\ n + 1 # 1 /\ r[n] = queue[n + 1]
      BY <1>0, <3>2
    <3>5. 1 \in 1 .. Len(queue) /\ owner[h] = NoKey /\ h \in used /\ h # posting
      BY <1>0, <3>2, <3>3 DEF Waiting
    <3>6. \A n \in 1 .. Len(r) : r[n] # h /\ r[n] \in Inputs
      BY <1>0, <3>2, <3>4, <3>5 DEF Waiting, Distinct
    <3>7. Distinct(r)
      <4> SUFFICES ASSUME NEW m \in 1 .. Len(r), NEW n \in 1 .. Len(r), r[m] = r[n]
                   PROVE  m = n
        BY DEF Distinct
      <4>1. m + 1 = n + 1
        BY <3>4 DEF Waiting, Distinct
      <4> QED BY <4>1
    <3>8. \A j \in Inputs : j # h => owner'[j] = owner[j]
      BY <1>0, <3>1
    <3>9. posting \in Inputs \cup {NoInput}
      BY DEF TypeOK
    <3>10. \A n \in 1 .. Len(r) :
              r[n] \in used /\ owner'[r[n]] = NoKey /\ r[n] # posting
      BY <3>4, <3>6, <3>8 DEF Waiting
    <3>11. \A i \in Inputs : owner'[i] # NoKey => i \in used
      BY <3>5, <3>8 DEF Waiting
    <3>12. posting # NoInput => posting \in used /\ owner'[posting] = NoKey
      BY <3>5, <3>8, <3>9 DEF Waiting
    <3>13. Waiting'
      <4>1. Distinct(queue)'
        BY <3>1, <3>7 DEF Distinct
      <4> QED BY <3>1, <3>10, <3>11, <3>12, <4>1 DEF Waiting
    <3> QED BY <3>5, <3>8, <3>13
  <2> QED BY <2>1, <2>2
<1>4. ASSUME NEW i \in Inputs, QueueCheck(i)
      PROVE  Waiting' /\ \A j \in Inputs : owner[j] # NoKey => owner'[j] = owner[j]
  <2>1. /\ i \notin used /\ posting' = i /\ used' = used \cup {i}
        /\ UNCHANGED <<queue, owner>>
    BY <1>4 DEF QueueCheck
  <2> QED BY <1>0, <2>1 DEF Waiting, Distinct
<1>5. CASE QueuePush
  <2>1. posting' = NoInput /\ UNCHANGED <<used, owner>> /\ posting # NoInput
        /\ posting \in Inputs
    BY <1>5 DEF QueuePush, TypeOK
  <2>2. CASE UNCHANGED queue
    BY <1>0, <2>1, <2>2 DEF Waiting, Distinct
  <2>3. CASE queue' = Append(queue, posting)
    <3> DEFINE q == Append(queue, posting)
    <3>1. /\ Len(q) = Len(queue) + 1 /\ q[Len(queue) + 1] = posting
          /\ \A n \in 1 .. Len(queue) : q[n] = queue[n]
      BY <1>0, <2>1, AppendProperties
    <3> HIDE DEF q
    <3>2. \A n \in 1 .. Len(q) : \/ n \in 1 .. Len(queue) /\ q[n] = queue[n]
                                 \/ n = Len(queue) + 1 /\ q[n] = posting
      BY <1>0, <3>1
    <3>3. \A n \in 1 .. Len(q) : q[n] \in used /\ owner[q[n]] = NoKey /\ q[n] # NoInput
      BY <1>0, <2>1, <3>2 DEF Waiting
    <3>4. Distinct(q)
      BY <3>2 DEF Waiting, Distinct
    <3>5. queue' = q
      BY <2>3 DEF q
    <3>6. Distinct(queue)'
      BY <3>4, <3>5 DEF Distinct
    <3>7. Waiting'
      BY <2>1, <3>3, <3>5, <3>6 DEF Waiting
    <3> QED BY <2>1, <3>7
  <2> QED BY <1>5, <2>2, <2>3 DEF QueuePush, QueueAfterPush
<1>6. CASE ClearQueue
  <2>1. queue' = <<>> /\ Len(<<>>) = 0 /\ UNCHANGED <<posting, used, owner>>
    BY <1>6, EmptyList DEF ClearQueue
  <2> QED BY <2>1 DEF Waiting, Distinct
<1> QED BY <1>1, <1>2, <1>3, <1>4, <1>5, <1>6, QueueFrame DEF QueueStep

(***************************************************************************)
(* What compaction leaves.                                                 *)
(***************************************************************************)
\* At most three messages: each is an old one or the summary, which is there, and
\* a third is an old reply, without a system message a second one too.
LEMMA CompactShape ==
    ASSUME NEW s \in Seq(Message)
    PROVE  LET c == Compact(s) IN
           /\ c \in Seq(Message) /\ Len(c) <= 3
           /\ \A n \in 1 .. Len(c) :
                 c[n] = Summary \/ \E m \in 1 .. Len(s) : c[n] = s[m]
           /\ \A n \in 3 .. Len(c) :
                 \E m \in 1 .. Len(s) : c[n] = s[m] /\ s[m].role = "assistant"
           /\ \E n \in 1 .. Len(c) : c[n] = Summary
           /\ (\A m \in 1 .. Len(s) : s[m].role # "system")
              => \A n \in 2 .. Len(c) :
                    \E m \in 1 .. Len(s) : c[n] = s[m] /\ s[m].role = "assistant"
<1> DEFINE a == IF s # <<>> /\ s[1].role = "system" THEN <<s[1]>> ELSE <<>>
           b == <<Summary>>
           l == LastAssistant(s)
<1>1. Len(s) \in Nat /\ \A m \in 1 .. Len(s) : s[m] \in Message
  BY LenProperties, ElementOfSeq
<1>2. /\ a \in Seq(Message) /\ Len(a) <= 1 /\ Len(a) \in Nat
      /\ \A n \in 1 .. Len(a) : \E m \in 1 .. Len(s) : a[n] = s[m]
      /\ (\A m \in 1 .. Len(s) : s[m].role # "system") => Len(a) = 0
  <2>1. CASE s # <<>> /\ s[1].role = "system"
    <3>1. 1 \in 1 .. Len(s) /\ s[1] \in Message
      BY <1>1, <2>1, EmptySeq
    <3>2. a = <<s[1]>>
      BY <2>1
    <3> HIDE DEF a
    <3> QED BY <2>1, <3>1, <3>2
  <2>2. CASE ~(s # <<>> /\ s[1].role = "system")
    <3>1. a = <<>>
      BY <2>2
    <3> HIDE DEF a
    <3> QED BY <3>1, EmptyList
  <2> QED BY <2>1, <2>2
<1>3. b \in Seq(Message) /\ Len(b) = 1 /\ b[1] = Summary
  BY DEF Summary, Message, Roles
<1>4. /\ l \in Seq(Message) /\ Len(l) <= 1 /\ Len(l) \in Nat
      /\ \A n \in 1 .. Len(l) :
            \E m \in 1 .. Len(s) : l[n] = s[m] /\ s[m].role = "assistant"
  <2>1. CASE \E n \in 1 .. Len(s) : IsLastAssistant(s, n)
    <3> DEFINE p == CHOOSE n \in 1 .. Len(s) : IsLastAssistant(s, n)
    <3>1. p \in 1 .. Len(s) /\ IsLastAssistant(s, p)
      BY <2>1
    <3>2. l = <<s[p]>>
      BY <2>1 DEF LastAssistant
    <3> HIDE DEF p, l
    <3>3. s[p].role = "assistant" /\ s[p] \in Message
      BY <1>1, <3>1 DEF IsLastAssistant, Assistants
    <3> QED BY <3>1, <3>2, <3>3
  <2>2. CASE ~\E n \in 1 .. Len(s) : IsLastAssistant(s, n)
    <3>1. l = <<>>
      BY <2>2 DEF LastAssistant
    <3> HIDE DEF l
    <3> QED BY <3>1, EmptyList
  <2> QED BY <2>1, <2>2
<1> HIDE DEF a, b, l
<1> DEFINE d == a \o b
<1>5. /\ d \in Seq(Message) /\ Len(d) = Len(a) + 1
      /\ \A n \in 1 .. Len(a) + 1 : d[n] = IF n <= Len(a) THEN a[n] ELSE b[n - Len(a)]
  <2>1. /\ d \in Seq(Message) /\ Len(d) = Len(a) + Len(b)
        /\ \A n \in 1 .. Len(a) + Len(b) :
              d[n] = IF n <= Len(a) THEN a[n] ELSE b[n - Len(a)]
    BY <1>2, <1>3, ConcatProperties
  <2> QED BY <1>3, <2>1
<1> HIDE DEF d
<1> DEFINE c == d \o l
<1>6. /\ c \in Seq(Message) /\ Len(c) = Len(d) + Len(l)
      /\ \A n \in 1 .. Len(d) + Len(l) : c[n] = IF n <= Len(d) THEN d[n] ELSE l[n - Len(d)]
  BY <1>4, <1>5, ConcatProperties
<1>7. Compact(s) = c
  BY DEF Compact, a, b, c, d, l
<1> HIDE DEF c
<1>8. \A n \in 1 .. Len(d) : d[n] = Summary \/ \E m \in 1 .. Len(s) : d[n] = s[m]
  <2> SUFFICES ASSUME NEW n \in 1 .. Len(d)
               PROVE  d[n] = Summary \/ \E m \in 1 .. Len(s) : d[n] = s[m]
    OBVIOUS
  <2>1. CASE n <= Len(a)
    <3>1. n \in 1 .. Len(a) /\ n \in 1 .. Len(a) + 1
      BY <1>2, <1>5, <2>1
    <3> QED BY <1>2, <1>5, <2>1, <3>1
  <2>2. CASE ~(n <= Len(a))
    <3>1. n - Len(a) = 1 /\ n \in 1 .. Len(a) + 1
      BY <1>2, <1>5, <2>2
    <3> QED BY <1>3, <1>5, <2>2, <3>1
  <2> QED BY <2>1, <2>2
<1>9. \A n \in 1 .. Len(c) : \/ n \in 1 .. Len(d) /\ c[n] = d[n]
                             \/ n > Len(d) /\ \E m \in 1 .. Len(s) :
                                      c[n] = s[m] /\ s[m].role = "assistant"
  <2> SUFFICES ASSUME NEW n \in 1 .. Len(c)
               PROVE  \/ n \in 1 .. Len(d) /\ c[n] = d[n]
                      \/ n > Len(d) /\ \E m \in 1 .. Len(s) :
                                           c[n] = s[m] /\ s[m].role = "assistant"
    OBVIOUS
  <2>1. CASE n <= Len(d)
    BY <1>2, <1>4, <1>5, <1>6, <2>1
  <2>2. CASE ~(n <= Len(d))
    <3>1. n - Len(d) \in 1 .. Len(l) /\ n > Len(d) /\ n \in 1 .. Len(d) + Len(l)
      BY <1>2, <1>4, <1>5, <1>6, <2>2
    <3> QED BY <1>4, <1>6, <2>2, <3>1
  <2> QED BY <2>1, <2>2
<1>10. Len(c) <= 3 /\ Len(d) <= 2 /\ Len(c) \in Nat /\ Len(d) \in Nat
  BY <1>2, <1>4, <1>5, <1>6
<1>11. \E n \in 1 .. Len(c) : c[n] = Summary
  <2> DEFINE n == Len(a) + 1
  <2>1. /\ n \in 1 .. Len(a) + 1 /\ ~(n <= Len(a)) /\ n - Len(a) = 1 /\ n \in 1 .. Len(d)
        /\ n <= Len(d) /\ n \in 1 .. Len(d) + Len(l)
    BY <1>2, <1>4, <1>5
  <2> HIDE DEF n
  <2>2. d[n] = Summary
    BY <1>3, <1>5, <2>1
  <2>3. c[n] = Summary /\ n \in 1 .. Len(c)
    BY <1>6, <2>1, <2>2
  <2> QED BY <2>3
<1>14. ASSUME \A m \in 1 .. Len(s) : s[m].role # "system", NEW n \in 2 .. Len(c)
       PROVE  \E m \in 1 .. Len(s) : c[n] = s[m] /\ s[m].role = "assistant"
  <2>1. n \in 1 .. Len(c) /\ ~(n \in 1 .. Len(d))
    BY <1>2, <1>5, <1>6, <1>14
  <2> QED BY <1>9, <2>1
<1>12. \A n \in 1 .. Len(c) : c[n] = Summary \/ \E m \in 1 .. Len(s) : c[n] = s[m]
  BY <1>8, <1>9
<1>13. \A n \in 3 .. Len(c) : \E m \in 1 .. Len(s) : c[n] = s[m] /\ s[m].role = "assistant"
  <2>1. \A n \in 3 .. Len(c) : n \in 1 .. Len(c) /\ ~(n \in 1 .. Len(d))
    BY <1>10
  <2> QED BY <1>9, <2>1
<1> QED BY <1>6, <1>7, <1>10, <1>11, <1>12, <1>13, <1>14

(***************************************************************************)
(* Conversations stay apart.                                               *)
(***************************************************************************)
\* Every message of s that an input produced belongs to session k.
Mine(s, k, o) == \A n \in 1 .. Len(s) : s[n].of # NoInput => o[s[n].of] = k

\* Appending, cutting and compacting keep a session's messages its own.
LEMMA MineFacts ==
    ASSUME NEW k, NEW o, NEW s \in Seq(Message), Mine(s, k, o)
    PROVE  /\ Mine(<<>>, k, o)
           /\ \A e \in Message : e.of = NoInput \/ o[e.of] = k
                                 => Mine(Append(s, e), k, o)
           /\ \A r \in Seq(Message) : Mine(r, k, o) => Mine(s \o r, k, o)
           /\ \A m, n \in Nat : m >= 1 /\ n <= Len(s) => Mine(SubSeq(s, m, n), k, o)
           /\ Mine(CheckAndCompact(s), k, o)
<1>0. Len(s) \in Nat
  BY LenProperties
<1>1. Mine(<<>>, k, o)
  BY EmptyList DEF Mine
<1>2. ASSUME NEW e \in Message, e.of = NoInput \/ o[e.of] = k
      PROVE  Mine(Append(s, e), k, o)
  <2> DEFINE r == Append(s, e)
  <2>1. /\ Len(r) = Len(s) + 1 /\ r[Len(s) + 1] = e
        /\ \A n \in 1 .. Len(s) : r[n] = s[n]
    BY AppendProperties
  <2> HIDE DEF r
  <2>2. \A n \in 1 .. Len(r) : (n \in 1 .. Len(s) /\ r[n] = s[n]) \/ r[n] = e
    BY <1>0, <2>1
  <2>3. Mine(r, k, o)
    BY <1>2, <2>2 DEF Mine
  <2> QED BY <2>3 DEF r
<1>3. ASSUME NEW r \in Seq(Message), Mine(r, k, o)
      PROVE  Mine(s \o r, k, o)
  <2> DEFINE c == s \o r
  <2>1. /\ Len(c) = Len(s) + Len(r) /\ Len(r) \in Nat
        /\ \A n \in 1 .. Len(s) + Len(r) : c[n] = IF n <= Len(s) THEN s[n] ELSE r[n - Len(s)]
    BY ConcatProperties, LenProperties
  <2> HIDE DEF c
  <2>2. \A n \in 1 .. Len(c) : \/ n \in 1 .. Len(s) /\ c[n] = s[n]
                               \/ n - Len(s) \in 1 .. Len(r) /\ c[n] = r[n - Len(s)]
    BY <1>0, <2>1
  <2>3. Mine(c, k, o)
    BY <1>3, <2>2 DEF Mine
  <2> QED BY <2>3 DEF c
<1>4. ASSUME NEW m \in Nat, NEW n \in Nat, m >= 1, n <= Len(s)
      PROVE  Mine(SubSeq(s, m, n), k, o)
  <2> DEFINE c == SubSeq(s, m, n)
  <2>1. /\ Len(c) = (IF m <= n THEN n - m + 1 ELSE 0)
        /\ \A i \in 1 .. n - m + 1 : c[i] = s[m + i - 1]
    <3>1. \A i \in m .. n : s[i] \in Message
      BY <1>0, <1>4, ElementOfSeq
    <3> QED BY <3>1, <1>0, <1>4, SubSeqProperties
  <2> HIDE DEF c
  <2>2. \A i \in 1 .. Len(c) : m + i - 1 \in 1 .. Len(s) /\ c[i] = s[m + i - 1]
    BY <1>0, <1>4, <2>1
  <2>3. Mine(c, k, o)
    BY <2>2 DEF Mine
  <2> QED BY <2>3 DEF c
<1>5. Mine(CheckAndCompact(s), k, o)
  <2> DEFINE c == Compact(s)
  <2>1. \A n \in 1 .. Len(c) : c[n] = Summary \/ \E m \in 1 .. Len(s) : c[n] = s[m]
    BY CompactShape
  <2> HIDE DEF c
  <2>2. Summary.of = NoInput
    BY DEF Summary
  <2>3. Mine(c, k, o)
    BY <2>1, <2>2 DEF Mine
  <2> QED BY <2>3 DEF CheckAndCompact, c
<1> QED BY <1>1, <1>2, <1>3, <1>4, <1>5

\* A turn's input and its context, and every conversation, belong to the
\* session.
Owners ==
    /\ \A t \in Threads : pc[t] # "idle" => /\ input[t] \in Inputs
                                            /\ owner[input[t]] = key[t]
    /\ \A t \in Threads : pc[t] \in InTurn => Mine(msgs[t], key[t], owner)
    /\ \A k \in Keys : Mine(conv[k], k, owner)

\* No step gives a session a message of another one.
LEMMA OwnersStep ==
    ASSUME TypeOK, Exclusion, Waiting, Owners, [Next]_vars
    PROVE  Owners'
<1>0. /\ \A i \in Inputs : owner[i] # NoKey => owner'[i] = owner[i]
      /\ NoKey \notin Keys /\ NoInput \notin Inputs
      /\ owner \in [Inputs -> KeyOrNone] /\ owner' \in [Inputs -> KeyOrNone]
      /\ \A t \in Threads : key[t] \in Keys /\ msgs[t] \in Seq(Message)
      /\ \A k \in Keys : conv[k] \in Seq(Message)
  BY WaitingStep, TypeStep, ConstantsAssumption DEF TypeOK
<1>1. \A s \in Seq(Message), k \in Keys : Mine(s, k, owner) => Mine(s, k, owner')
  <2> SUFFICES ASSUME NEW s \in Seq(Message), NEW k \in Keys, Mine(s, k, owner),
                      NEW n \in 1 .. Len(s), s[n].of # NoInput
               PROVE  owner'[s[n].of] = k
    BY DEF Mine
  <2>1. s[n] \in Message
    BY ElementOfSeq
  <2>2. s[n].of \in Inputs
    BY <2>1 DEF Message
  <2>3. owner[s[n].of] = k
    BY DEF Mine
  <2> QED BY <1>0, <2>2, <2>3
<1>2. /\ \A t \in Threads : pc[t] # "idle" => /\ input[t] \in Inputs
                                              /\ owner'[input[t]] = key[t]
      /\ \A t \in Threads : pc[t] \in InTurn => Mine(msgs[t], key[t], owner')
      /\ \A k \in Keys : Mine(conv[k], k, owner')
      /\ "idle" \notin InTurn
  BY <1>0, <1>1 DEF Owners, InTurn
<1>3. \A k : Mine(<<>>, k, owner')
  BY EmptyList DEF Mine
<1>4. \A t \in Threads : pc[t] # "idle" => ActiveSessionKey(t) = key[t]
  BY ActiveIsKey DEF Exclusion
<1>5. \A s \in Seq(Message), e \in Message, k \in Keys :
         Mine(s, k, owner') /\ (e.of = NoInput \/ owner'[e.of] = k)
         => Mine(Append(s, e), k, owner') /\ Mine(Append(CheckAndCompact(s), e), k, owner')
  <2> SUFFICES ASSUME NEW s \in Seq(Message), NEW e \in Message, NEW k \in Keys,
                      Mine(s, k, owner'), e.of = NoInput \/ owner'[e.of] = k
               PROVE  /\ Mine(Append(s, e), k, owner')
                      /\ Mine(Append(CheckAndCompact(s), e), k, owner')
    OBVIOUS
  <2> DEFINE c == CheckAndCompact(s)
  <2>1. c \in Seq(Message) /\ Mine(c, k, owner')
    BY CheckAndCompactType, MineFacts
  <2> HIDE DEF c
  <2>2. Mine(Append(s, e), k, owner') /\ Mine(Append(c, e), k, owner')
    BY <2>1, MineFacts
  <2> QED BY <2>2 DEF c
<1>6. \A t \in Threads : pc[t] # "idle" =>
         /\ Reply(input[t]) \in Message /\ owner'[Reply(input[t]).of] = key[t]
         /\ UserMsg(input[t]) \in Message /\ owner'[UserMsg(input[t]).of] = key[t]
  BY <1>2, MessageType DEF Reply, UserMsg
<1>9. \A t \in Threads : pc[t] # "idle" =>
         \A said \in Said(input[t]) :
            said \in Seq(Message) /\ Mine(said, key[t], owner')
  <2> SUFFICES ASSUME NEW t \in Threads, pc[t] # "idle",
                      NEW said \in Said(input[t])
               PROVE  said \in Seq(Message) /\ Mine(said, key[t], owner')
    OBVIOUS
  <2> DEFINE r == Reply(input[t])
             n == Note(input[t])
  <2>1. /\ r \in Message /\ owner'[r.of] = key[t]
        /\ n \in Message /\ owner'[n.of] = key[t]
    BY <1>2, MessageType DEF Reply, Note
  <2>2. said \in {<<>>, <<r>>, <<r, n>>, <<r, r>>}
    BY DEF Said
  <2> HIDE DEF r, n
  <2>3. CASE said = <<>>
    BY <1>3, <2>3, EmptyList
  <2>4. CASE said = <<r>>
    BY <2>1, <2>4 DEF Mine
  <2>5. CASE said = <<r, n>>
    BY <2>1, <2>5 DEF Mine
  <2>6. CASE said = <<r, r>>
    BY <2>1, <2>6 DEF Mine
  <2> QED BY <2>2, <2>3, <2>4, <2>5, <2>6
\* A step that moves a thread or not, and changes no message of a turn.
<1>7. ASSUME UNCHANGED <<key, input, conv>>,
             \A t \in Threads : pc'[t] # "idle" => pc[t] # "idle",
             \A t \in Threads : pc'[t] \in InTurn
                                 => pc[t] \in InTurn /\ msgs'[t] = msgs[t]
      PROVE  Owners'
  BY <1>2, <1>7 DEF Owners
\* A step of a loop.
<1>8. ASSUME NEW t \in Threads, pc[t] \in InTurn, UNCHANGED <<key, input, conv>>,
             \/ UNCHANGED msgs
             \/ msgs' = [msgs EXCEPT ![t] = Append(msgs[t], Reply(input[t]))]
             \/ \E said \in Said(input[t]) :
                   msgs' = [msgs EXCEPT ![t] = CheckAndCompact(msgs[t]) \o said],
             pc' = pc \/ pc' = [pc EXCEPT ![t] = "settle"]
      PROVE  Owners'
  <2>1. \A u \in Threads : /\ u # t => pc'[u] = pc[u] /\ msgs'[u] = msgs[u]
                           /\ pc'[u] # "idle" => pc[u] # "idle"
    BY <1>2, <1>8 DEF TypeOK
  <2>2. Mine(msgs[t], key[t], owner') /\ pc[t] # "idle"
    BY <1>2, <1>8
  <2>3. Mine(msgs'[t], key[t], owner')
    <3> DEFINE a == Append(msgs[t], Reply(input[t]))
               c == CheckAndCompact(msgs[t])
    <3>1. Mine(a, key[t], owner')
      BY <1>0, <1>5, <1>6, <2>2
    <3>2. c \in Seq(Message) /\ Mine(c, key[t], owner')
      BY <1>0, <2>2, CheckAndCompactType, MineFacts
    <3> HIDE DEF a, c
    <3>3. \A said \in Said(input[t]) : Mine(c \o said, key[t], owner')
      BY <1>9, <2>2, <3>2, MineFacts
    <3>4. \/ msgs'[t] = msgs[t] \/ msgs'[t] = a
          \/ \E said \in Said(input[t]) : msgs'[t] = c \o said
      BY <1>8 DEF TypeOK, a, c
    <3> QED BY <2>2, <3>1, <3>3, <3>4
  <2> QED BY <1>2, <1>8, <2>1, <2>3 DEF Owners
<1>11. ASSUME NEW t \in Threads, NEW k \in Keys, NEW i \in Inputs,
             TryBeginTurn(t, k, i)
      PROVE  Owners'
  <2>1. /\ key' = [key EXCEPT ![t] = k] /\ input' = [input EXCEPT ![t] = i]
        /\ pc' = [pc EXCEPT ![t] = "claimed"] /\ owner' = [owner EXCEPT ![i] = k]
        /\ UNCHANGED <<msgs, conv>>
    BY <1>11 DEF TryBeginTurn
  <2>2. owner'[i] = k
    BY <1>0, <2>1
  <2>3. \A u \in Threads : u # t => /\ pc'[u] = pc[u] /\ key'[u] = key[u]
                                    /\ input'[u] = input[u]
    BY <2>1 DEF TypeOK
  <2>4. key'[t] = k /\ input'[t] = i /\ pc'[t] = "claimed" /\ "claimed" \notin InTurn
    BY <2>1 DEF TypeOK, InTurn
  <2>5. \A u \in Threads : pc'[u] # "idle" => /\ input'[u] \in Inputs
                                                /\ owner'[input'[u]] = key'[u]
    BY <1>2, <2>2, <2>3, <2>4
  <2>6. \A u \in Threads : pc'[u] \in InTurn => Mine(msgs'[u], key'[u], owner')
    <3> SUFFICES ASSUME NEW u \in Threads, pc'[u] \in InTurn
                 PROVE  Mine(msgs'[u], key'[u], owner')
      OBVIOUS
    <3>1. u # t
      BY <2>4
    <3>2. pc[u] \in InTurn /\ key'[u] = key[u] /\ msgs'[u] = msgs[u]
      BY <2>1, <2>3, <3>1
    <3> QED BY <1>2, <3>2
  <2>7. \A c \in Keys : Mine(conv'[c], c, owner')
    BY <1>2, <2>1
  <2> QED BY <2>5, <2>6, <2>7 DEF Owners
<1>12. ASSUME NEW t \in Threads,
              SetActiveSession(t) \/ RefuseTier(t) \/ RunBatch(t) \/ Throw(t)
       PROVE  Owners'
  <2>1. /\ UNCHANGED <<key, input, conv>>
        /\ msgs' = msgs \/ msgs' = [msgs EXCEPT ![t] = <<>>]
    BY <1>12 DEF SetActiveSession, RefuseTier, RunBatch, Throw, LeaveBody
  <2>2. /\ pc[t] # "idle"
        /\ \E x \in {"bound", "done", "batch"} : pc' = [pc EXCEPT ![t] = x]
    BY <1>12 DEF SetActiveSession, RefuseTier, RunBatch, Throw
  <2>3. \A u \in Threads : \/ pc'[u] = pc[u] /\ msgs'[u] = msgs[u]
                           \/ pc[u] # "idle" /\ pc'[u] \notin InTurn
    BY <2>1, <2>2 DEF TypeOK, InTurn
  <2> QED BY <1>7, <2>1, <2>3
<1>13. ASSUME NEW t \in Threads, ResetFlags(t) \/ ResetExternal(t) PROVE Owners'
  <2>1. UNCHANGED <<key, input, msgs, conv>>
    BY <1>13 DEF ResetFlags, ResetExternal
  <2>2. \A u \in Threads : pc'[u] = pc[u] \/ pc[u] \in InTurn
    BY <1>13 DEF ResetFlags, ResetExternal, TypeOK, InTurn
  <2> QED BY <1>2, <1>7, <2>1, <2>2
<1>14. ASSUME NEW t \in Threads, SeedSystemPrompt(t) PROVE Owners'
  <2>1. /\ pc[t] = "bound" /\ UNCHANGED <<key, input, msgs>>
        /\ conv' = [conv EXCEPT ![key[t]] = Seeded(conv[key[t]])]
        /\ pc' = [pc EXCEPT ![t] = "seeded"]
    BY <1>4, <1>14 DEF SeedSystemPrompt
  <2>2. \A u \in Threads : \/ pc'[u] = pc[u]
                           \/ pc[u] # "idle" /\ pc'[u] \notin InTurn
    BY <2>1 DEF TypeOK, InTurn
  <2>3. \A k \in Keys : Mine(Seeded(conv[k]), k, owner')
    <3>1. System.of = NoInput
      BY DEF System
    <3>2. \A k : Mine(<<System>>, k, owner')
      BY <3>1 DEF Mine
    <3> QED BY <1>2, <3>2 DEF Seeded
  <2>4. \A k \in Keys : conv'[k] = conv[k] \/ conv'[k] = Seeded(conv[k])
    BY <2>1 DEF TypeOK
  <2> QED BY <1>2, <2>1, <2>2, <2>3, <2>4 DEF Owners
<1>15. ASSUME NEW t \in Threads, BeginTurn(t) PROVE Owners'
  <2> DEFINE k == key[t]
             sent == Append(conv[k], UserMsg(input[t]))
  <2>1. /\ pc[t] = "seeded" /\ UNCHANGED <<key, input>>
        /\ conv' = [conv EXCEPT ![k] = sent]
        /\ msgs' = [msgs EXCEPT ![t] = sent]
        /\ pc' = [pc EXCEPT ![t] = "starting"]
    BY <1>4, <1>15 DEF BeginTurn
  <2>2. Mine(sent, k, owner')
    BY <1>0, <1>2, <1>5, <1>6, <2>1
  <2> HIDE DEF sent
  <2>3. /\ \A u \in Threads : u # t => pc'[u] = pc[u] /\ msgs'[u] = msgs[u]
        /\ msgs'[t] = sent /\ pc[t] # "idle"
        /\ \A j \in Keys : conv'[j] = conv[j] \/ (j = k /\ conv'[j] = sent)
    BY <2>1 DEF TypeOK
  <2> QED BY <1>2, <2>1, <2>2, <2>3 DEF Owners
<1>16. ASSUME NEW t \in Threads, LoopStep(t) PROVE Owners'
  <2>1. PICK said \in Said(input[t]) :
           /\ Iteration(t, said)
           /\ pc' = pc \/ pc' = [pc EXCEPT ![t] = "settle"]
    BY <1>16, LoopStepFacts DEF EndLoop
  <2> QED BY <1>8, <2>1 DEF Iteration, InTurn
<1>17. ASSUME NEW t \in Threads, StopInterrupted(t) PROVE Owners'
  BY <1>8, <1>17 DEF StopInterrupted, EndLoop, InTurn
<1>18. ASSUME NEW t \in Threads, CapIterations(t) PROVE Owners'
  BY <1>8, <1>18 DEF CapIterations, EndLoop, InTurn
<1>19. ASSUME NEW t \in Threads, SettleTurn(t) PROVE Owners'
  <2> DEFINE k == key[t]
             c == Settled(t, k)
  <2>1. /\ pc[t] = "settle" /\ UNCHANGED <<key, input>>
        /\ conv' = [conv EXCEPT ![k] = c]
        /\ msgs' = [msgs EXCEPT ![t] = <<>>]
        /\ \E x \in {"done", "drain"} : pc' = [pc EXCEPT ![t] = x]
    BY <1>4, <1>19 DEF SettleTurn, LeaveBody
  <2>2. Mine(c, k, owner')
    <3>1. /\ conv[k] \in Seq(Message) /\ Mine(conv[k], k, owner') /\ k \in Keys
          /\ msgs[t] \in Seq(Message) /\ Mine(msgs[t], k, owner')
          /\ turnBegin[t] \in Nat /\ sentLen[t] \in Nat
      BY <1>0, <1>2, <2>1 DEF InTurn, TypeOK
    <3>2. Len(conv[k]) \in Nat /\ Len(msgs[t]) \in Nat
      BY <3>1, LenProperties
    <3>3. Mine(Rollback(t, k), k, owner')
      <4> DEFINE n == IF turnBegin[t] < Len(conv[k]) THEN turnBegin[t] ELSE Len(conv[k])
      <4>1. n \in Nat /\ n <= Len(conv[k]) /\ 1 \in Nat /\ 1 >= 1
        BY <3>1, <3>2
      <4> HIDE DEF n
      <4>2. Mine(SubSeq(conv[k], 1, n), k, owner')
        BY <3>1, <4>1, MineFacts
      <4> QED BY <4>2 DEF Rollback, n
    <3>4. Mine(KeepFrom(t, k, sentLen[t] + 1), k, owner')
      <4> DEFINE r == SubSeq(msgs[t], sentLen[t] + 1, Len(msgs[t]))
      <4>1. r \in Seq(Message)
        BY <3>1, <3>2, SubSeqProperties
      <4>2. /\ sentLen[t] + 1 \in Nat /\ sentLen[t] + 1 >= 1
            /\ Len(msgs[t]) <= Len(msgs[t])
        BY <3>1, <3>2
      <4>3. Mine(r, k, owner')
        BY <3>1, <3>2, <4>2, MineFacts
      <4> HIDE DEF r
      <4>4. Mine(conv[k] \o r, k, owner')
        BY <3>1, <4>1, <4>3, MineFacts
      <4> QED BY <4>4 DEF KeepFrom, r
    <3> QED BY <3>3, <3>4 DEF Settled
  <2> HIDE DEF c
  <2>3. /\ \A u \in Threads : \/ pc'[u] = pc[u] /\ msgs'[u] = msgs[u]
                              \/ pc[u] # "idle" /\ pc'[u] \notin InTurn
        /\ \A j \in Keys : conv'[j] = conv[j] \/ (j = k /\ conv'[j] = c)
    BY <2>1 DEF TypeOK, InTurn
  <2> QED BY <1>2, <2>1, <2>2, <2>3 DEF Owners
<1>20. ASSUME NEW t \in Threads, Drain(t) PROVE Owners'
  <2>1. CASE queue = <<>>
    <3>1. UNCHANGED <<key, input, msgs, conv>> /\ pc' = [pc EXCEPT ![t] = "done"]
          /\ pc[t] = "drain"
      BY <1>20, <2>1 DEF Drain
    <3>2. \A u \in Threads : \/ pc'[u] = pc[u]
                             \/ pc[u] # "idle" /\ pc'[u] \notin InTurn
      BY <3>1 DEF TypeOK, InTurn
    <3> QED BY <1>7, <3>1, <3>2
  <2>2. CASE queue # <<>>
    <3> DEFINE h == Head(queue)
    <3>1. h \in Inputs
      BY <2>2, HeadTailProperties DEF TypeOK
    <3>2. /\ input' = [input EXCEPT ![t] = h] /\ owner' = [owner EXCEPT ![h] = key[t]]
          /\ pc' = [pc EXCEPT ![t] = "seeded"] /\ pc[t] = "drain"
          /\ UNCHANGED <<key, msgs, conv>>
      BY <1>20, <2>2 DEF Drain
    <3> HIDE DEF h
    <3>3. input'[t] = h /\ owner'[h] = key[t]
          /\ \A u \in Threads : u # t => input'[u] = input[u]
      BY <1>0, <3>1, <3>2 DEF TypeOK
    <3>4. \A u \in Threads : \/ pc'[u] = pc[u]
                             \/ pc[u] # "idle" /\ pc'[u] \notin InTurn
      BY <3>2 DEF TypeOK, InTurn
    <3> QED BY <1>2, <3>1, <3>2, <3>3, <3>4 DEF Owners
  <2> QED BY <2>1, <2>2
<1>21. ASSUME NEW t \in Threads, EndTurn(t) PROVE Owners'
  <2>1. /\ pc' = [pc EXCEPT ![t] = "idle"] /\ UNCHANGED conv
        /\ \A u \in Threads : u # t => /\ key'[u] = key[u] /\ input'[u] = input[u]
                                       /\ msgs'[u] = msgs[u]
    BY <1>21 DEF EndTurn, TypeOK
  <2>2. pc'[t] = "idle" /\ \A u \in Threads : u # t => pc'[u] = pc[u]
    BY <2>1 DEF TypeOK
  <2> QED BY <1>2, <2>1, <2>2 DEF Owners
<1>22. ASSUME NEW k \in Keys, ClearConversation(k) \/ DropSession(k) PROVE Owners'
  <2>1. UNCHANGED <<pc, key, input, msgs>> /\ conv' = [conv EXCEPT ![k] = <<>>]
    BY <1>22 DEF ClearConversation, DropSession
  <2>2. \A j \in Keys : conv'[j] = conv[j] \/ conv'[j] = <<>>
    BY <2>1 DEF TypeOK
  <2> QED BY <1>2, <1>3, <2>1, <2>2 DEF Owners
<1>23. CASE RestoreSwap
  <2>1. UNCHANGED <<pc, key, input, msgs>>
        /\ conv' = [conv EXCEPT ![restoring] = RestoredHistory]
    BY <1>23 DEF RestoreSwap
  <2>2. \A j \in Keys : conv'[j] = conv[j] \/ conv'[j] = RestoredHistory
    BY <2>1 DEF TypeOK
  <2>3. \A k : Mine(RestoredHistory, k, owner')
    BY DEF Mine, RestoredHistory
  <2> QED BY <1>2, <2>1, <2>2, <2>3 DEF Owners
<1>24. CASE UNCHANGED <<pc, key, input, msgs, conv>>
  BY <1>7, <1>24
<1>25. ASSUME NEW p \in Interrupters,
              InterruptFanOut(p) \/ InterruptExchange(p) \/ InterruptLatch(p)
       PROVE  Owners'
  BY <1>24, <1>25 DEF InterruptFanOut, InterruptExchange, InterruptLatch
<1>26. ASSUME NEW k \in Keys, InterruptSession(k) \/ RestoreCheck(k) PROVE Owners'
  BY <1>24, <1>26 DEF InterruptSession, RestoreCheck
<1>27. ASSUME NEW i \in Inputs, QueueCheck(i) PROVE Owners'
  BY <1>24, <1>27 DEF QueueCheck
<1>28. ASSUME NEW t \in Threads, CancelCurrentRun(t) PROVE Owners'
  BY <1>24, <1>28 DEF CancelCurrentRun
<1>29. CASE QueuePush \/ ClearQueue \/ UNCHANGED vars
  BY <1>24, <1>29 DEF QueuePush, ClearQueue
<1> QED
  BY <1>11, <1>12, <1>13, <1>14, <1>15, <1>16, <1>17, <1>18, <1>19, <1>20, <1>21,
     <1>22, <1>23, <1>25, <1>26, <1>27, <1>28, <1>29 DEF Next, RunStep, LoopStep,
     InterruptStep

\* Every input has one session, and a conversation holds only its own.
LEMMA OwnersInvariant == Spec => [](Waiting /\ Owners)
<1>1. Init => Waiting /\ Owners
  <2> SUFFICES ASSUME Init PROVE Waiting /\ Owners
    OBVIOUS
  <2>1. Waiting
    BY EmptyList DEF Init, Waiting, Distinct
  <2>2. "idle" \notin InTurn /\ \A k : Mine(<<>>, k, owner)
    BY EmptyList DEF InTurn, Mine
  <2>3. Owners
    BY <2>2 DEF Init, Owners
  <2> QED BY <2>1, <2>3
<1>2. TypeOK /\ Exclusion /\ Waiting /\ Owners /\ [Next]_vars => Waiting' /\ Owners'
  BY WaitingStep, OwnersStep
<1> QED BY <1>1, <1>2, TypeCorrect, ExclusionInvariant, PTL DEF Spec

\* However turns, queued messages, clears, drops and restores interleave, even
\* by a host that does not wait, a stored conversation (conversations_) holds
\* only messages of turns run on its own session.
THEOREM SessionsStayApart == Spec => []SessionIsolation
<1>1. Owners => SessionIsolation
  BY DEF Owners, Mine, SessionIsolation
<1> QED BY <1>1, OwnersInvariant, PTL

(***************************************************************************)
(* The turn in flight, when the host manages only idle sessions.           *)
(***************************************************************************)
\* What a turn on input i may add: the model's messages and the engine's.
Own(i) == {Reply(i), Note(i)}

\* The context m of a turn on i, sent with the n messages c: whatever is behind
\* them is its own, and uncompacted it starts with them.  (A context sent with so
\* little that compaction may put messages behind it holds only own replies.)
Grown(c, n, m, i) ==
    /\ \A x \in n + 1 .. Len(m) : m[x] \in Own(i)
    /\ (\A x \in 1 .. Len(m) : m[x] # Summary)
       => n <= Len(m) /\ \A x \in 1 .. n : m[x] = c[x]
    /\ n <= 2 => \A x \in 1 .. Len(m) : m[x].role = "assistant" => m[x] \in Own(i)
    /\ n = 1 => \A x \in 1 .. Len(m) : m[x].role # "system"

\* A turn at p: its conversation c ends with its user message i behind b older
\* messages, and its context m has grown from c.
Flight(c, b, n, m, i, p) ==
    /\ n = b + 1 /\ Len(c) = n /\ c[n] = UserMsg(i)
    /\ Grown(c, n, m, i)
    /\ p = "starting" => m = c

InFlight(t) ==
    Flight(conv[key[t]], turnBegin[t], sentLen[t], msgs[t], input[t], pc[t])

\* How a conversation may open: with the system prompt or a restored history, and
\* with the user's message only if there is no prompt.
Openings == {"system", "restored"} \cup (IF HasPrompt THEN {} ELSE {"user"})

\* Every turn has its conversation as run_drain_loop left it.
Turns ==
    \A t \in Threads :
        /\ HasPrompt /\ pc[t] \in {"seeded", "drain"} => conv[key[t]] # <<>>
        /\ pc[t] \in InTurn => InFlight(t)
        /\ pc[t] = "settle" => outcome[t] \in Ended

Opened == \A k \in Keys : conv[k] = <<>> \/ conv[k][1].role \in Openings

\* A session being restored has no run in flight.
Rested == restoring # NoKey => restoring \notin activeRuns

Kept == Turns /\ Opened /\ Rested

\* A list that has an element has a first one.
LEMMA NonEmptyFacts ==
    ASSUME NEW s \in Seq(Message)
    PROVE  /\ Len(s) \in Nat /\ (s # <<>> <=> Len(s) >= 1)
           /\ s # <<>> => 1 \in 1 .. Len(s)
<1>1. Len(s) \in Nat /\ Len(<<>>) = 0 /\ (s # <<>> => Len(s) \in Nat \ {0})
  BY EmptySeq, LenProperties
<1> QED BY <1>1

\* The user, the model and the engine are neither the system nor the summary.
LEMMA OwnFacts ==
    ASSUME NEW i \in Inputs
    PROVE  /\ Own(i) \subseteq Message
           /\ \A e \in Own(i) : e # Summary /\ e.role # "system" /\ e.of = i
           /\ UserMsg(i) \in Message /\ UserMsg(i).role = "user"
           /\ UserMsg(i) # Summary
BY MessageType, ConstantsAssumption DEF Own, Reply, Note, UserMsg, Summary

\* What may be said in an iteration is the turn's own.
LEMMA SaidIsOwn ==
    ASSUME NEW i \in Inputs
    PROVE  /\ \A said \in Said(i) : said \in Seq(Own(i))
           /\ <<Reply(i)>> \in Seq(Own(i))
<1>1. Reply(i) \in Own(i) /\ Note(i) \in Own(i)
  BY DEF Own
<1> QED BY <1>1 DEF Said

\* Own messages behind a context keep it grown so.
LEMMA GrownAppend ==
    ASSUME NEW c, NEW n \in Nat, NEW s \in Seq(Message), NEW i \in Inputs,
           Grown(c, n, s, i), NEW r \in Seq(Own(i))
    PROVE  s \o r \in Seq(Message) /\ Grown(c, n, s \o r, i)
<1> DEFINE d == s \o r
<1>1. /\ Len(s) \in Nat /\ Len(r) \in Nat /\ r \in Seq(Message)
      /\ \A x \in 1 .. Len(r) : r[x] \in Own(i)
  BY LenProperties, ElementOfSeq, OwnFacts
<1>2. /\ d \in Seq(Message) /\ Len(d) = Len(s) + Len(r)
      /\ \A x \in 1 .. Len(s) + Len(r) : d[x] = IF x <= Len(s) THEN s[x] ELSE r[x - Len(s)]
  BY <1>1, ConcatProperties
<1> HIDE DEF d
<1>3. \A x \in 1 .. Len(d) : \/ x \in 1 .. Len(s) /\ d[x] = s[x]
                             \/ x > Len(s) /\ d[x] \in Own(i)
  <2> SUFFICES ASSUME NEW x \in 1 .. Len(d)
               PROVE  \/ x \in 1 .. Len(s) /\ d[x] = s[x]
                      \/ x > Len(s) /\ d[x] \in Own(i)
    OBVIOUS
  <2>1. CASE x <= Len(s)
    BY <1>1, <1>2, <2>1
  <2>2. CASE ~(x <= Len(s))
    <3>1. x - Len(s) \in 1 .. Len(r) /\ x > Len(s) /\ x \in 1 .. Len(s) + Len(r)
      BY <1>1, <1>2, <2>2
    <3> QED BY <1>1, <1>2, <2>2, <3>1
  <2> QED BY <2>1, <2>2
<1>4. \A x \in 1 .. Len(s) : x \in 1 .. Len(d) /\ d[x] = s[x]
  BY <1>1, <1>2
<1>5. \A x \in n + 1 .. Len(d) : d[x] \in Own(i)
  <2> SUFFICES ASSUME NEW x \in n + 1 .. Len(d) PROVE d[x] \in Own(i)
    OBVIOUS
  <2>1. x \in 1 .. Len(d) /\ (x \in 1 .. Len(s) => x \in n + 1 .. Len(s))
    BY <1>1, <1>2
  <2> QED BY <1>3, <2>1 DEF Grown
<1>6. ASSUME \A x \in 1 .. Len(d) : d[x] # Summary
      PROVE  n <= Len(d) /\ \A x \in 1 .. n : d[x] = c[x]
  <2>1. \A x \in 1 .. Len(s) : s[x] # Summary
    BY <1>4, <1>6
  <2>2. n <= Len(s) /\ \A x \in 1 .. n : s[x] = c[x]
    BY <2>1 DEF Grown
  <2>3. \A x \in 1 .. n : x \in 1 .. Len(s)
    BY <1>1, <2>2
  <2>4. n <= Len(d)
    BY <1>1, <1>2, <2>2
  <2> QED BY <1>4, <2>2, <2>3, <2>4
<1>7. n <= 2 => \A x \in 1 .. Len(d) : d[x].role = "assistant" => d[x] \in Own(i)
  BY <1>3 DEF Grown
<1>8. n = 1 => \A x \in 1 .. Len(d) : d[x].role # "system"
  BY <1>3, OwnFacts DEF Grown
<1>9. Grown(c, n, d, i)
  BY <1>5, <1>6, <1>7, <1>8 DEF Grown
<1> QED BY <1>2, <1>9 DEF d

\* So does the compaction at the start of an iteration.
LEMMA GrownCompact ==
    ASSUME NEW c, NEW n \in Nat, n >= 1, NEW m \in Seq(Message), NEW i \in Inputs,
           Grown(c, n, m, i)
    PROVE  CheckAndCompact(m) \in Seq(Message) /\ Grown(c, n, CheckAndCompact(m), i)
<1> DEFINE d == Compact(m)
<1>1. /\ d \in Seq(Message) /\ Len(d) <= 3
      /\ \A x \in 1 .. Len(d) : d[x] = Summary \/ \E y \in 1 .. Len(m) : d[x] = m[y]
      /\ \A x \in 3 .. Len(d) :
            \E y \in 1 .. Len(m) : d[x] = m[y] /\ m[y].role = "assistant"
      /\ \E x \in 1 .. Len(d) : d[x] = Summary
      /\ (\A y \in 1 .. Len(m) : m[y].role # "system")
         => \A x \in 2 .. Len(d) :
               \E y \in 1 .. Len(m) : d[x] = m[y] /\ m[y].role = "assistant"
  BY CompactShape
<1> HIDE DEF d
<1>2. Len(d) \in Nat /\ Summary.role # "assistant" /\ Summary.role # "system"
  BY <1>1, LenProperties DEF Summary
<1>3. n <= 2 => \A x \in 1 .. Len(d) : d[x].role = "assistant" => d[x] \in Own(i)
  BY <1>1, <1>2 DEF Grown
<1>4. n = 1 => \A x \in 1 .. Len(d) : d[x].role # "system"
  BY <1>1, <1>2 DEF Grown
<1>5. ASSUME NEW x \in n + 1 .. Len(d) PROVE d[x] \in Own(i)
  <2>1. \/ n = 2 /\ x \in 3 .. Len(d)
        \/ n = 1 /\ x \in 2 .. Len(d)
    BY <1>1, <1>2, <1>5
  <2>2. n <= 2 /\ \E y \in 1 .. Len(m) : d[x] = m[y] /\ m[y].role = "assistant"
    BY <1>1, <2>1 DEF Grown
  <2> QED BY <2>2 DEF Grown
<1>6. Grown(c, n, d, i)
  BY <1>1, <1>3, <1>4, <1>5 DEF Grown
<1> QED BY <1>1, <1>6 DEF CheckAndCompact, d

\* One more iteration keeps a turn in flight so; the loop may then end.
LEMMA FlightStep ==
    ASSUME NEW c \in Seq(Message), NEW b \in Nat, NEW n \in Nat, NEW m \in Seq(Message),
           NEW i \in Inputs, Flight(c, b, n, m, i, "loop"), NEW p \in {"loop", "settle"}
    PROVE  /\ \A said \in Said(i) : Flight(c, b, n, CheckAndCompact(m) \o said, i, p)
           /\ Flight(c, b, n, Append(m, Reply(i)), i, p)
           /\ Flight(c, b, n, m, i, p)
<1>1. n = b + 1 /\ Len(c) = n /\ c[n] = UserMsg(i) /\ Grown(c, n, m, i) /\ n >= 1
  BY DEF Flight
<1>2. CheckAndCompact(m) \in Seq(Message) /\ Grown(c, n, CheckAndCompact(m), i)
  BY <1>1, GrownCompact
<1>3. \A said \in Said(i) : Grown(c, n, CheckAndCompact(m) \o said, i)
  BY <1>2, GrownAppend, SaidIsOwn
<1>4. Append(m, Reply(i)) = m \o <<Reply(i)>>
  BY MessageType, AppendIsConcat
<1>5. Grown(c, n, Append(m, Reply(i)), i)
  BY <1>1, <1>4, GrownAppend, SaidIsOwn
<1> QED BY <1>1, <1>3, <1>5 DEF Flight

\* A step of one thread keeps the turns of the others if it writes no other
\* session's conversation.
LEMMA OthersTurns ==
    ASSUME Turns, NEW t \in Threads,
           \A u \in Threads : u # t =>
              /\ pc'[u] = pc[u] /\ key'[u] = key[u] /\ turnBegin'[u] = turnBegin[u]
              /\ sentLen'[u] = sentLen[u] /\ msgs'[u] = msgs[u]
              /\ input'[u] = input[u] /\ outcome'[u] = outcome[u],
           \A u \in Threads : u # t /\ pc[u] # "idle" => conv'[key[u]] = conv[key[u]],
           HasPrompt /\ pc'[t] \in {"seeded", "drain"} => conv'[key'[t]] # <<>>,
           pc'[t] \in InTurn => InFlight(t)',
           pc'[t] = "settle" => outcome'[t] \in Ended
    PROVE  Turns'
<1> SUFFICES ASSUME NEW u \in Threads
             PROVE  /\ HasPrompt /\ pc'[u] \in {"seeded", "drain"}
                       => conv'[key'[u]] # <<>>
                    /\ pc'[u] \in InTurn => InFlight(u)'
                    /\ pc'[u] = "settle" => outcome'[u] \in Ended
  BY DEF Turns
<1>1. CASE u = t
  BY <1>1
<1>2. CASE u # t
  <2>1. /\ pc[u] \in {"seeded", "drain"}
           => pc[u] # "idle" /\ (HasPrompt => conv[key[u]] # <<>>)
        /\ pc[u] \in InTurn => InFlight(u) /\ pc[u] # "idle"
        /\ pc[u] = "settle" => outcome[u] \in Ended
    BY DEF Turns, InTurn
  <2> QED BY <1>2, <2>1 DEF InFlight
<1> QED BY <1>1, <1>2

\* Writing the conversation of a turn in flight touches no other turn's.
LEMMA OwnConversation ==
    ASSUME TypeOK, Exclusion, NEW t \in Threads, pc[t] # "idle", NEW c,
           conv' = [conv EXCEPT ![key[t]] = c]
    PROVE  /\ conv'[key[t]] = c /\ key[t] \in Keys
           /\ \A k \in Keys : k # key[t] => conv'[k] = conv[k]
           /\ \A u \in Threads : u # t /\ pc[u] # "idle" => conv'[key[u]] = conv[key[u]]
BY DEF TypeOK, Exclusion, TurnExclusion

\* What a turn in flight has, with the types of its parts.
LEMMA FlightFacts ==
    ASSUME TypeOK, Owners, Kept, NEW t \in Threads, pc[t] \in InTurn
    PROVE  /\ InFlight(t) /\ pc[t] # "idle" /\ input[t] \in Inputs /\ key[t] \in Keys
           /\ conv[key[t]] \in Seq(Message) /\ conv[key[t]] # <<>>
           /\ conv[key[t]][1].role \in Openings
           /\ turnBegin[t] \in Nat /\ sentLen[t] \in Nat /\ msgs[t] \in Seq(Message)
<1>1. pc[t] # "idle" /\ InFlight(t) /\ input[t] \in Inputs
  BY DEF InTurn, Kept, Turns, Owners
<1>2. /\ conv[key[t]] \in Seq(Message) /\ key[t] \in Keys
      /\ turnBegin[t] \in Nat /\ sentLen[t] \in Nat /\ msgs[t] \in Seq(Message)
  BY DEF TypeOK
<1>3. conv[key[t]] # <<>>
  <2>1. Len(conv[key[t]]) = sentLen[t] /\ sentLen[t] = turnBegin[t] + 1
    BY <1>1 DEF InFlight, Flight
  <2>2. Len(conv[key[t]]) >= 1
    BY <1>2, <2>1
  <2> QED BY <1>2, <2>2, NonEmptyFacts
<1>4. conv[key[t]][1].role \in Openings
  BY <1>2, <1>3 DEF Kept, Opened
<1> QED BY <1>1, <1>2, <1>3, <1>4

\* One pass of the loop, or its end.
LEMMA LoopTurns ==
    ASSUME TypeOK, Exclusion, Owners, Kept, NEW t \in Threads, pc[t] = "loop",
           LoopStep(t) \/ StopInterrupted(t) \/ CapIterations(t)
    PROVE  Turns' /\ UNCHANGED <<key, turnBegin, conv, restoring, activeRuns>>
<1> DEFINE d == Append(msgs[t], Reply(input[t]))
<1>1. /\ InFlight(t) /\ pc[t] # "idle" /\ input[t] \in Inputs /\ key[t] \in Keys
      /\ conv[key[t]] \in Seq(Message)
      /\ turnBegin[t] \in Nat /\ sentLen[t] \in Nat /\ msgs[t] \in Seq(Message)
  BY FlightFacts DEF InTurn
<1>2. Flight(conv[key[t]], turnBegin[t], sentLen[t], msgs[t], input[t], "loop")
  BY <1>1 DEF InFlight
<1>3. \A q \in {"loop", "settle"} :
         /\ \A said \in Said(input[t]) :
               Flight(conv[key[t]], turnBegin[t], sentLen[t],
                      CheckAndCompact(msgs[t]) \o said, input[t], q)
         /\ Flight(conv[key[t]], turnBegin[t], sentLen[t], d, input[t], q)
         /\ Flight(conv[key[t]], turnBegin[t], sentLen[t], msgs[t], input[t], q)
  BY <1>1, <1>2, FlightStep
<1> HIDE DEF d
<1>4. /\ UNCHANGED <<key, input, turnBegin, sentLen, conv, restoring, activeRuns>>
      /\ \A u \in Threads : u # t =>
            pc'[u] = pc[u] /\ msgs'[u] = msgs[u] /\ outcome'[u] = outcome[u]
      /\ pc'[t] \in {"loop", "settle"} /\ (pc'[t] = "settle" => outcome'[t] \in Ended)
      /\ \/ \E said \in Said(input[t]) : msgs'[t] = CheckAndCompact(msgs[t]) \o said
         \/ msgs'[t] = d \/ msgs'[t] = msgs[t]
  <2>1. CASE LoopStep(t)
    <3>1. PICK said \in Said(input[t]) :
             /\ Iteration(t, said)
             /\ \/ UNCHANGED <<pc, outcome>>
                \/ \E o \in Ended : EndLoop(t, o)
      BY <2>1, LoopStepFacts DEF Ended
    <3>2. /\ UNCHANGED <<key, input, turnBegin, sentLen, conv, restoring, activeRuns>>
          /\ msgs'[t] = CheckAndCompact(msgs[t]) \o said
          /\ \A u \in Threads : u # t => msgs'[u] = msgs[u]
      BY <3>1 DEF Iteration, TypeOK
    <3>3. /\ \A u \in Threads : u # t => pc'[u] = pc[u] /\ outcome'[u] = outcome[u]
          /\ pc'[t] \in {"loop", "settle"} /\ (pc'[t] = "settle" => outcome'[t] \in Ended)
      <4>1. CASE UNCHANGED <<pc, outcome>>
        BY <4>1
      <4>2. ASSUME NEW o \in Ended, EndLoop(t, o)
            PROVE  /\ \A u \in Threads : u # t => pc'[u] = pc[u] /\ outcome'[u] = outcome[u]
                   /\ pc'[t] = "settle" /\ outcome'[t] = o
        BY <4>2 DEF EndLoop, TypeOK
      <4> QED BY <3>1, <4>1, <4>2
    <3> QED BY <3>2, <3>3
  <2>2. CASE StopInterrupted(t)
    BY <2>2 DEF StopInterrupted, TypeOK, EndLoop, Ended
  <2>3. CASE CapIterations(t)
    BY <2>3 DEF CapIterations, TypeOK, EndLoop, Ended, d
  <2> QED BY <2>1, <2>2, <2>3
<1>5. InFlight(t)'
  BY <1>3, <1>4 DEF InFlight
<1>6. pc'[t] \notin {"seeded", "drain"}
  BY <1>4
<1>7. Turns'
  BY <1>4, <1>5, <1>6, OthersTurns DEF Kept
<1> QED BY <1>4, <1>7

\* The turn is sent: its user message ends the conversation.
LEMMA SentTurn ==
    ASSUME TypeOK, Exclusion, Owners, Kept, NEW t \in Threads, BeginTurn(t)
    PROVE  Kept'
<1> DEFINE k == key[t]
           sent == Append(conv[k], UserMsg(input[t]))
           b == Len(conv[k])
<1>1. ActiveSessionKey(t) = k /\ pc[t] = "seeded" /\ k \in Keys
  BY ActiveIsKey DEF BeginTurn, Exclusion, TypeOK
<1>2. /\ conv' = [conv EXCEPT ![k] = sent] /\ msgs' = [msgs EXCEPT ![t] = sent]
      /\ turnBegin' = [turnBegin EXCEPT ![t] = b]
      /\ sentLen' = [sentLen EXCEPT ![t] = Len(sent)]
      /\ pc' = [pc EXCEPT ![t] = "starting"]
      /\ UNCHANGED <<key, input, outcome, restoring, activeRuns>>
  BY <1>1 DEF BeginTurn
<1>3. /\ conv[k] \in Seq(Message) /\ b \in Nat /\ (HasPrompt => b >= 1)
      /\ b >= 1 => conv[k][1].role \in Openings
  <2>1. conv[k] \in Seq(Message) /\ (HasPrompt => conv[k] # <<>>)
    BY <1>1 DEF TypeOK, Kept, Turns
  <2>2. conv[k] # <<>> => conv[k][1].role \in Openings
    BY <1>1 DEF Kept, Opened
  <2> QED BY <2>1, <2>2, NonEmptyFacts
<1>4. /\ input[t] \in Inputs /\ UserMsg(input[t]) \in Message
      /\ UserMsg(input[t]).role = "user"
  BY <1>1, OwnFacts DEF Owners
<1>5. /\ sent \in Seq(Message) /\ Len(sent) = b + 1 /\ sent[b + 1] = UserMsg(input[t])
      /\ \A x \in 1 .. b : sent[x] = conv[k][x]
  BY <1>3, <1>4, AppendProperties
<1> HIDE DEF sent, b
<1>13. sent[1].role \in Openings
  <2>1. CASE b >= 1
    <3>1. 1 \in 1 .. b
      BY <1>3, <2>1
    <3> QED BY <1>3, <1>5, <2>1, <3>1
  <2>2. CASE ~(b >= 1)
    <3>1. b + 1 = 1 /\ ~HasPrompt
      BY <1>3, <2>2
    <3> QED BY <1>4, <1>5, <3>1 DEF Openings
  <2> QED BY <2>1, <2>2
<1>6. Flight(sent, b, b + 1, sent, input[t], "starting")
  <2>1. /\ \A x \in b + 1 + 1 .. Len(sent) : FALSE
        /\ b + 1 <= Len(sent)
    BY <1>3, <1>5
  <2>2. ASSUME b + 1 <= 2, NEW x \in 1 .. Len(sent)
        PROVE  sent[x].role # "assistant"
    <3>1. x = 1 \/ x = b + 1
      BY <1>3, <1>5, <2>2
    <3> QED BY <1>4, <1>5, <1>13, <3>1 DEF Openings
  <2>3. ASSUME b + 1 = 1, NEW x \in 1 .. Len(sent)
        PROVE  sent[x].role # "system"
    <3>1. x = b + 1
      BY <1>3, <1>5, <2>3
    <3> QED BY <1>4, <1>5, <3>1
  <2>4. Grown(sent, b + 1, sent, input[t])
    BY <2>1, <2>2, <2>3 DEF Grown
  <2> QED BY <1>3, <1>5, <2>4 DEF Flight
<1>7. /\ conv'[k] = sent /\ \A u \in Keys : u # k => conv'[u] = conv[u]
      /\ \A u \in Threads : u # t /\ pc[u] # "idle" => conv'[key[u]] = conv[key[u]]
  BY <1>1, <1>2, OwnConversation
<1>8. /\ msgs'[t] = sent /\ turnBegin'[t] = b /\ sentLen'[t] = b + 1
      /\ pc'[t] = "starting"
      /\ \A u \in Threads : u # t =>
            /\ pc'[u] = pc[u] /\ turnBegin'[u] = turnBegin[u] /\ sentLen'[u] = sentLen[u]
            /\ msgs'[u] = msgs[u]
  BY <1>2, <1>5 DEF TypeOK
<1>9. InFlight(t)'
  BY <1>2, <1>6, <1>7, <1>8 DEF InFlight
<1>10. Turns'
  BY <1>2, <1>7, <1>8, <1>9, OthersTurns DEF Kept
<1>11. Opened'
  BY <1>7, <1>13 DEF Kept, Opened
<1>12. Rested'
  BY <1>2 DEF Kept, Rested
<1> QED BY <1>10, <1>11, <1>12 DEF Kept

\* settle_turn keeps the start of the conversation.
LEMMA SettledTurn ==
    ASSUME TypeOK, Exclusion, Owners, Kept, NEW t \in Threads, SettleTurn(t)
    PROVE  Kept'
<1> DEFINE k == key[t]
           c == Settled(t, k)
<1>1. /\ pc[t] = "settle" /\ ActiveSessionKey(t) = k
  BY ActiveIsKey DEF SettleTurn, Exclusion
<1>2. /\ conv' = [conv EXCEPT ![k] = c]
      /\ pc' = [pc EXCEPT ![t] = IF failures[k] THEN "done" ELSE "drain"]
      /\ UNCHANGED <<key, input, outcome, restoring, activeRuns>>
      /\ \A u \in Threads : u # t =>
            /\ turnBegin'[u] = turnBegin[u] /\ sentLen'[u] = sentLen[u]
            /\ msgs'[u] = msgs[u]
  BY <1>1 DEF SettleTurn, LeaveBody, TypeOK
<1>3. /\ InFlight(t) /\ conv[k] \in Seq(Message) /\ conv[k] # <<>> /\ k \in Keys
      /\ conv[k][1].role \in Openings
      /\ turnBegin[t] \in Nat /\ sentLen[t] \in Nat /\ msgs[t] \in Seq(Message)
  BY <1>1, FlightFacts DEF InTurn
<1>4. Len(conv[k]) \in Nat /\ Len(conv[k]) >= 1 /\ turnBegin[t] < Len(conv[k])
  BY <1>3, NonEmptyFacts DEF InFlight, Flight
<1>5. /\ c = <<>> \/ c[1] = conv[k][1]
      /\ ~failures[k] => c # <<>>
  <2>1. CASE failures[k]
    <3> DEFINE n == turnBegin[t]
    <3>1. n \in Nat /\ n <= Len(conv[k])
      BY <1>3, <1>4
    <3>2. \A x \in 1 .. n : conv[k][x] \in Message
      BY <1>3, <1>4, <3>1, ElementOfSeq
    <3> HIDE DEF n
    <3> DEFINE s == SubSeq(conv[k], 1, n)
    <3>3. s \in Seq(Message) /\ Len(s) = n /\ \A x \in 1 .. n : s[x] = conv[k][x]
      BY <3>1, <3>2, SubSeqProperties
    <3>4. c = s
      BY <1>4, <2>1 DEF Settled, Rollback, n
    <3> HIDE DEF s, c
    <3>5. s # <<>> => 1 \in 1 .. n
      BY <3>3, NonEmptyFacts
    <3> QED BY <2>1, <3>3, <3>4, <3>5
  <2>2. CASE ~failures[k]
    <3> DEFINE r == SubSeq(msgs[t], sentLen[t] + 1, Len(msgs[t]))
    <3>1. r \in Seq(Message)
      BY <1>3, LenProperties, SubSeqProperties
    <3>2. c = conv[k] \o r
      BY <2>2 DEF Settled, KeepFrom
    <3> HIDE DEF r, c
    <3>3. /\ c \in Seq(Message) /\ Len(c) = Len(conv[k]) + Len(r) /\ Len(r) \in Nat
          /\ \A x \in 1 .. Len(conv[k]) + Len(r) :
                c[x] = IF x <= Len(conv[k]) THEN conv[k][x] ELSE r[x - Len(conv[k])]
      BY <1>3, <3>1, <3>2, ConcatProperties, LenProperties
    <3>4. 1 \in 1 .. Len(conv[k]) + Len(r) /\ 1 <= Len(conv[k]) /\ Len(c) >= 1
      BY <1>4, <3>3
    <3> QED BY <3>3, <3>4, NonEmptyFacts
  <2> QED BY <2>1, <2>2
<1> HIDE DEF c
<1>6. /\ conv'[k] = c /\ \A u \in Keys : u # k => conv'[u] = conv[u]
      /\ \A u \in Threads : u # t /\ pc[u] # "idle" => conv'[key[u]] = conv[key[u]]
  BY <1>1, <1>2, OwnConversation
<1>7. /\ pc'[t] \in {"done", "drain"} /\ (pc'[t] = "drain" => ~failures[k])
      /\ \A u \in Threads : u # t => pc'[u] = pc[u]
  BY <1>2 DEF TypeOK
<1>8. pc'[t] \notin InTurn /\ pc'[t] # "settle"
  BY <1>7 DEF InTurn
<1>9. Turns'
  BY <1>2, <1>5, <1>6, <1>7, <1>8, OthersTurns DEF Kept
<1>10. Opened'
  BY <1>3, <1>5, <1>6 DEF Kept, Opened
<1>11. Rested'
  BY <1>2 DEF Kept, Rested
<1> QED BY <1>9, <1>10, <1>11 DEF Kept

\* Nothing happens to the conversation of a turn in flight but by the turn.
LEMMA KeptStep ==
    ASSUME HostWaits, TypeOK, Exclusion, Owners, Kept, [Next]_vars
    PROVE  Kept'
<1>1. Turns /\ Opened /\ Rested
  BY DEF Kept
\* A step of thread t that writes no conversation and no turn.
<1>2. ASSUME NEW t \in Threads,
             UNCHANGED <<key, input, turnBegin, sentLen, msgs, conv, restoring,
                         activeRuns>>,
             \A u \in Threads : u # t => pc'[u] = pc[u] /\ outcome'[u] = outcome[u],
             HasPrompt /\ pc'[t] \in {"seeded", "drain"} => conv'[key'[t]] # <<>>,
             pc'[t] \in InTurn => InFlight(t)',
             pc'[t] = "settle" => outcome'[t] \in Ended
      PROVE  Kept'
  <2>1. Turns'
    BY <1>1, <1>2, OthersTurns
  <2>2. Opened' /\ Rested'
    BY <1>1, <1>2 DEF Opened, Rested
  <2> QED BY <2>1, <2>2 DEF Kept
\* Such a step outside a turn.
<1>3. ASSUME NEW t \in Threads, NEW p, p \notin InTurn, p \notin {"seeded", "drain"},
             pc' = [pc EXCEPT ![t] = p],
             \A u \in Threads : u # t => outcome'[u] = outcome[u],
             UNCHANGED <<key, input, turnBegin, sentLen, msgs, conv, restoring,
                         activeRuns>>
      PROVE  Kept'
  <2>1. pc'[t] = p /\ \A u \in Threads : u # t => pc'[u] = pc[u]
    BY <1>3 DEF TypeOK
  <2>2. p # "settle"
    BY <1>3 DEF InTurn
  <2> QED BY <1>2, <1>3, <2>1, <2>2
<1>4. ASSUME UNCHANGED <<pc, key, input, turnBegin, sentLen, msgs, outcome,
                         conv, activeRuns>>,
             Rested'
      PROVE  Kept'
  <2>1. Turns' /\ Opened'
    BY <1>1, <1>4 DEF Turns, InFlight, Opened
  <2> QED BY <1>4, <2>1 DEF Kept
<1>5. ASSUME UNCHANGED <<pc, key, input, turnBegin, sentLen, msgs, outcome,
                         conv, activeRuns, restoring>>
      PROVE  Kept'
  <2>1. Rested'
    BY <1>1, <1>5 DEF Rested
  <2> QED BY <1>4, <1>5, <2>1
\* A step that replaces the conversation of an idle session.
<1>6. ASSUME NEW k \in Keys, k \notin activeRuns, NEW s, conv' = [conv EXCEPT ![k] = s],
             s = <<>> \/ s[1].role \in Openings, Rested',
             UNCHANGED <<pc, key, input, turnBegin, sentLen, msgs, outcome,
                         activeRuns>>
      PROVE  Kept'
  <2>1. \A u \in Threads : pc[u] # "idle" => conv'[key[u]] = conv[key[u]]
    BY <1>6 DEF TypeOK, Exclusion, Claimed
  <2>2. "idle" \notin {"seeded", "drain"} /\ "idle" \notin InTurn
    BY DEF InTurn
  <2>3. Turns'
    BY <1>1, <1>6, <2>1, <2>2 DEF Turns, InFlight
  <2>4. \A j \in Keys : conv'[j] = conv[j] \/ conv'[j] = s
    BY <1>6 DEF TypeOK
  <2>5. Opened'
    BY <1>1, <1>6, <2>4 DEF Opened
  <2> QED BY <1>6, <2>3, <2>5 DEF Kept
<1>7. /\ "claimed" \notin InTurn /\ "bound" \notin InTurn /\ "done" \notin InTurn
      /\ "batch" \notin InTurn /\ "idle" \notin InTurn
      /\ "seeded" \notin InTurn /\ "drain" \notin InTurn
      /\ {"starting", "resetting", "loop", "settle"} = InTurn
  BY DEF InTurn
<1>11. ASSUME NEW t \in Threads, NEW k \in Keys, NEW i \in Inputs,
              TryBeginTurn(t, k, i)
       PROVE  Kept'
  <2>1. /\ restoring # k /\ activeRuns' = activeRuns \cup {k}
        /\ UNCHANGED <<conv, restoring, turnBegin, sentLen, msgs>>
    BY <1>11 DEF TryBeginTurn, MayRun
  <2>2. /\ pc'[t] = "claimed"
        /\ \A u \in Threads : u # t =>
              pc'[u] = pc[u] /\ key'[u] = key[u] /\ input'[u] = input[u]
              /\ outcome'[u] = outcome[u]
    BY <1>11 DEF TryBeginTurn, TypeOK
  <2>3. Turns'
    BY <1>1, <1>7, <2>1, <2>2, OthersTurns
  <2>4. Opened' /\ Rested'
    BY <1>1, <2>1 DEF Opened, Rested
  <2> QED BY <2>3, <2>4 DEF Kept
<1>12. ASSUME NEW t \in Threads, SetActiveSession(t) PROVE Kept'
  BY <1>3, <1>7, <1>12 DEF SetActiveSession
<1>13. ASSUME NEW t \in Threads, RefuseTier(t) PROVE Kept'
  <2>1. \A u \in Threads : u # t => outcome'[u] = outcome[u]
    BY <1>13 DEF RefuseTier, TypeOK
  <2> QED BY <1>3, <1>7, <1>13, <2>1 DEF RefuseTier
<1>14. ASSUME NEW t \in Threads, RunBatch(t) PROVE Kept'
  <2>1. \A u \in Threads : u # t => outcome'[u] = outcome[u]
    BY <1>14 DEF RunBatch, TypeOK
  <2>2. pc' = [pc EXCEPT ![t] = "batch"] \/ pc' = [pc EXCEPT ![t] = "done"]
    BY <1>14 DEF RunBatch
  <2> QED BY <1>3, <1>7, <1>14, <2>1, <2>2 DEF RunBatch
<1>15. ASSUME NEW t \in Threads, SeedSystemPrompt(t) PROVE Kept'
  <2> DEFINE s == Seeded(conv[key[t]])
  <2>1. pc[t] # "idle" /\ ActiveSessionKey(t) = key[t]
    BY <1>15, ActiveIsKey DEF SeedSystemPrompt, Exclusion
  <2>2. /\ conv' = [conv EXCEPT ![key[t]] = s] /\ pc' = [pc EXCEPT ![t] = "seeded"]
        /\ UNCHANGED <<key, input, turnBegin, sentLen, msgs, outcome, restoring,
                       activeRuns>>
    BY <1>15, <2>1 DEF SeedSystemPrompt
  <2>3. /\ conv'[key[t]] = s /\ key[t] \in Keys
        /\ \A k \in Keys : k # key[t] => conv'[k] = conv[k]
        /\ \A u \in Threads : u # t /\ pc[u] # "idle" => conv'[key[u]] = conv[key[u]]
    BY <2>1, <2>2, OwnConversation
  <2>4. (HasPrompt => s # <<>>) /\ (s = <<>> \/ s[1].role \in Openings)
    <3>1. <<System>> # <<>> /\ <<System>>[1].role \in Openings
      BY DEF System, Openings
    <3> QED BY <1>1, <2>3, <3>1 DEF Opened, Seeded
  <2> HIDE DEF s
  <2>5. pc'[t] = "seeded" /\ \A u \in Threads : u # t => pc'[u] = pc[u]
    BY <2>2 DEF TypeOK
  <2>6. Turns'
    BY <1>1, <1>7, <2>2, <2>3, <2>4, <2>5, OthersTurns
  <2>7. Opened' /\ Rested'
    BY <1>1, <2>2, <2>3, <2>4 DEF Opened, Rested
  <2> QED BY <2>6, <2>7 DEF Kept
<1>16. ASSUME NEW t \in Threads, BeginTurn(t) PROVE Kept'
  BY <1>16, SentTurn
<1>17. ASSUME NEW t \in Threads, NEW p \in {"resetting", "loop"},
              pc[t] \in {"starting", "resetting"}, pc' = [pc EXCEPT ![t] = p],
              UNCHANGED <<key, input, turnBegin, sentLen, msgs, outcome, conv,
                          restoring, activeRuns>>
       PROVE  Kept'
  <2>1. InFlight(t)
    BY <1>1, <1>7, <1>17 DEF Turns
  <2>2. pc'[t] = p /\ \A u \in Threads : u # t => pc'[u] = pc[u]
    BY <1>17 DEF TypeOK
  <2>3. ASSUME NEW c, NEW b, NEW n, NEW m, NEW i, Flight(c, b, n, m, i, pc[t])
        PROVE  Flight(c, b, n, m, i, p)
    BY <1>17, <2>3 DEF Flight
  <2>4. InFlight(t)'
    BY <1>17, <2>1, <2>2, <2>3 DEF InFlight
  <2> QED BY <1>2, <1>17, <2>2, <2>4
<1>18. ASSUME NEW t \in Threads, ResetFlags(t) PROVE Kept'
  BY <1>17, <1>18 DEF ResetFlags
<1>19. ASSUME NEW t \in Threads, ResetExternal(t) PROVE Kept'
  BY <1>17, <1>19 DEF ResetExternal
<1>20. ASSUME NEW t \in Threads, LoopStep(t) \/ StopInterrupted(t) \/ CapIterations(t)
       PROVE  Kept'
  <2>1. pc[t] = "loop"
    BY <1>20, LoopStepFacts DEF Iteration, StopInterrupted, CapIterations
  <2>2. Turns' /\ UNCHANGED <<conv, restoring, activeRuns>>
    BY <1>20, <2>1, LoopTurns
  <2>3. Opened' /\ Rested'
    BY <1>1, <2>2 DEF Opened, Rested
  <2> QED BY <2>2, <2>3 DEF Kept
<1>21. ASSUME NEW t \in Threads, Throw(t) PROVE Kept'
  <2>1. /\ pc'[t] = "done" /\ UNCHANGED <<key, input, conv, restoring, activeRuns>>
        /\ \A u \in Threads : u # t =>
              /\ pc'[u] = pc[u] /\ turnBegin'[u] = turnBegin[u]
              /\ sentLen'[u] = sentLen[u] /\ msgs'[u] = msgs[u]
              /\ outcome'[u] = outcome[u]
    BY <1>21 DEF Throw, LeaveBody, TypeOK
  <2>2. Turns'
    BY <1>1, <1>7, <2>1, OthersTurns
  <2>3. Opened' /\ Rested'
    BY <1>1, <2>1 DEF Opened, Rested
  <2> QED BY <2>2, <2>3 DEF Kept
<1>22. ASSUME NEW t \in Threads, SettleTurn(t) PROVE Kept'
  BY <1>22, SettledTurn
<1>23. ASSUME NEW t \in Threads, Drain(t) PROVE Kept'
  <2>1. /\ pc[t] = "drain"
        /\ UNCHANGED <<key, turnBegin, sentLen, msgs, outcome, conv, restoring,
                       activeRuns>>
    BY <1>23 DEF Drain
  <2>2. /\ pc'[t] \in {"done", "seeded"}
        /\ \A u \in Threads : u # t => pc'[u] = pc[u] /\ input'[u] = input[u]
    BY <1>23 DEF Drain, TypeOK
  <2>3. HasPrompt => conv[key[t]] # <<>>
    BY <1>1, <2>1 DEF Turns
  <2>4. pc'[t] \notin InTurn /\ pc'[t] # "settle"
    BY <1>7, <2>2
  <2>5. Turns'
    BY <1>1, <2>1, <2>2, <2>3, <2>4, OthersTurns
  <2>6. Opened' /\ Rested'
    BY <1>1, <2>1 DEF Opened, Rested
  <2> QED BY <2>5, <2>6 DEF Kept
<1>24. ASSUME NEW t \in Threads, EndTurn(t) PROVE Kept'
  <2>1. /\ pc'[t] = "idle" /\ UNCHANGED <<conv, restoring>>
        /\ activeRuns' = activeRuns \ {key[t]}
        /\ \A u \in Threads : u # t =>
              /\ pc'[u] = pc[u] /\ key'[u] = key[u] /\ turnBegin'[u] = turnBegin[u]
              /\ sentLen'[u] = sentLen[u] /\ msgs'[u] = msgs[u]
              /\ input'[u] = input[u] /\ outcome'[u] = outcome[u]
    BY <1>24 DEF EndTurn, TypeOK
  <2>2. Turns'
    BY <1>1, <1>7, <2>1, OthersTurns
  <2>3. Opened' /\ Rested'
    BY <1>1, <2>1 DEF Opened, Rested
  <2> QED BY <2>2, <2>3 DEF Kept
<1>25. ASSUME NEW k \in Keys, ClearConversation(k) \/ DropSession(k) PROVE Kept'
  <2>1. /\ k \notin activeRuns /\ conv' = [conv EXCEPT ![k] = <<>>]
        /\ UNCHANGED <<pc, key, input, turnBegin, sentLen, msgs, outcome,
                       activeRuns, restoring>>
    BY <1>25 DEF ClearConversation, DropSession, MayManage
  <2>2. Rested'
    BY <1>1, <2>1 DEF Rested
  <2> QED BY <1>6, <2>1, <2>2
<1>26. ASSUME NEW k \in Keys, RestoreCheck(k) PROVE Kept'
  <2>1. Rested'
    BY <1>26 DEF RestoreCheck, Rested
  <2> QED BY <1>4, <1>26, <2>1 DEF RestoreCheck
<1>27. CASE RestoreSwap
  <2>1. /\ restoring \in Keys /\ restoring \notin activeRuns /\ restoring' = NoKey
        /\ conv' = [conv EXCEPT ![restoring] = RestoredHistory]
        /\ UNCHANGED <<pc, key, input, turnBegin, sentLen, msgs, outcome,
                       activeRuns>>
    BY <1>1, <1>27 DEF RestoreSwap, Rested, TypeOK, KeyOrNone
  <2>2. RestoredHistory[1].role \in Openings
    BY DEF RestoredHistory, Openings
  <2>3. Rested'
    BY <2>1 DEF Rested
  <2> QED BY <1>6, <2>1, <2>2, <2>3
<1>28. ASSUME NEW p \in Interrupters,
              InterruptFanOut(p) \/ InterruptExchange(p) \/ InterruptLatch(p)
       PROVE  Kept'
  BY <1>5, <1>28 DEF InterruptFanOut, InterruptExchange, InterruptLatch
<1>29. ASSUME NEW k \in Keys, InterruptSession(k) PROVE Kept'
  BY <1>5, <1>29 DEF InterruptSession
<1>30. ASSUME NEW i \in Inputs, QueueCheck(i) PROVE Kept'
  BY <1>5, <1>30 DEF QueueCheck
<1>31. ASSUME NEW t \in Threads, CancelCurrentRun(t) PROVE Kept'
  BY <1>5, <1>31 DEF CancelCurrentRun
<1>32. CASE QueuePush \/ ClearQueue \/ UNCHANGED vars
  BY <1>5, <1>32 DEF QueuePush, ClearQueue
<1> QED
  BY <1>11, <1>12, <1>13, <1>14, <1>15, <1>16, <1>18, <1>19, <1>20, <1>21, <1>22,
     <1>23, <1>24, <1>25, <1>26, <1>27, <1>28, <1>29, <1>30, <1>31, <1>32
     DEF Next, RunStep, LoopStep, InterruptStep

\* A host that manages only idle sessions leaves every turn its conversation.
LEMMA KeptInvariant ==
    ASSUME HostWaits
    PROVE  Spec => []Kept
<1>1. Init => Kept
  <2> SUFFICES ASSUME Init PROVE Kept
    OBVIOUS
  <2>1. \A t \in Threads : pc[t] \notin InTurn /\ pc[t] \notin {"seeded", "drain", "settle"}
    BY DEF Init, InTurn
  <2>2. Turns
    BY <2>1 DEF Turns
  <2>3. Opened /\ Rested
    BY DEF Init, Opened, Rested
  <2> QED BY <2>2, <2>3 DEF Kept
<1>2. TypeOK /\ Exclusion /\ Waiting /\ Owners /\ Kept /\ [Next]_vars => Kept'
  BY KeptStep
<1> QED BY <1>1, <1>2, TypeCorrect, ExclusionInvariant, OwnersInvariant, PTL DEF Spec

\* run_turn's seeding, the rollback of failed turns, clears, drops and restores
\* never leave a prompt without its system prompt or restored history, if the
\* host manages only sessions that have no run in flight.
THEOREM SystemPromptAlways ==
    ASSUME HostWaits
    PROVE  Spec => []SystemPromptFirst
<1>1. TypeOK /\ Waiting /\ Owners /\ Kept => SystemPromptFirst
  <2> SUFFICES ASSUME TypeOK, Owners, Kept, HasPrompt, NEW t \in Threads,
                      pc[t] = "starting"
               PROVE  msgs[t][1].role \in {"system", "restored"}
    BY DEF SystemPromptFirst
  <2>1. InFlight(t) /\ conv[key[t]][1].role \in Openings
    BY FlightFacts DEF InTurn
  <2>2. msgs[t] = conv[key[t]]
    BY <2>1 DEF InFlight, Flight
  <2> QED BY <2>1, <2>2 DEF Openings
<1> QED BY <1>1, TypeCorrect, OwnersInvariant, KeptInvariant, PTL

(***************************************************************************)
(* Stored conversations implement SessionHistory.                          *)
(***************************************************************************)
\* The mapped variables, and a step of them that SessionHistory allows.
Hist == [k \in Keys |-> Committed(k)]
Failed == {k \in Keys : Failing(k)}
HistoryStep == [History!Next]_<<Hist, activeRuns, Failed>>

\* What the mapping hides of a conversation: nothing without a turn in flight on
\* it, the messages past turn_begin with one.
Mapped ==
    /\ \A t \in Threads :
          pc[t] \in InTurn => Committed(key[t]) = SubSeq(conv[key[t]], 1, turnBegin[t])
    /\ \A k \in Keys :
          (\A t \in Threads : pc[t] \in InTurn => key[t] # k) => Committed(k) = conv[k]

\* At most one turn is in flight on a session, so the mapping is as it says.
LEMMA MappedFacts == TypeOK /\ Exclusion => Mapped
<1> SUFFICES ASSUME TypeOK, Exclusion PROVE Mapped
  OBVIOUS
<1>1. ASSUME NEW t \in Threads, pc[t] \in InTurn
      PROVE  Committed(key[t]) = SubSeq(conv[key[t]], 1, turnBegin[t])
  <2>1. \A u \in Threads : pc[u] \in InTurn /\ key[u] = key[t] => u = t
    BY <1>1 DEF Exclusion, TurnExclusion, InTurn
  <2>2. Settling(key[t]) = {t}
    BY <1>1, <2>1 DEF Settling
  <2>3. (CHOOSE u \in Settling(key[t]) : TRUE) = t /\ Settling(key[t]) # {}
    BY <2>2
  <2> QED BY <2>3 DEF Committed
<1>2. ASSUME NEW k \in Keys, \A t \in Threads : pc[t] \in InTurn => key[t] # k
      PROVE  Committed(k) = conv[k]
  <2>1. Settling(k) = {}
    BY <1>2 DEF Settling
  <2> QED BY <2>1 DEF Committed
<1> QED BY <1>1, <1>2 DEF Mapped

\* A session whose turn, if it has one, is left alone keeps its history.
LEMMA SameHistory ==
    ASSUME Mapped, Mapped', NEW k \in Keys, conv'[k] = conv[k],
           \A u \in Threads :
              /\ pc[u] \in InTurn /\ key[u] = k <=> pc'[u] \in InTurn /\ key'[u] = k
              /\ pc[u] \in InTurn /\ key[u] = k => turnBegin'[u] = turnBegin[u]
    PROVE  Committed(k)' = Committed(k)
<1>1. CASE \A u \in Threads : pc[u] \in InTurn => key[u] # k
  <2>1. Committed(k) = conv[k]
    BY <1>1 DEF Mapped
  <2>2. Committed(k)' = conv'[k]
    BY <1>1 DEF Mapped
  <2> QED BY <2>1, <2>2
<1>2. ASSUME NEW u \in Threads, pc[u] \in InTurn, key[u] = k
      PROVE  Committed(k)' = Committed(k)
  <2>1. Committed(k) = SubSeq(conv[k], 1, turnBegin[u])
    BY <1>2 DEF Mapped
  <2>2. Committed(k)' = SubSeq(conv'[k], 1, turnBegin'[u])
    BY <1>2 DEF Mapped
  <2> QED BY <1>2, <2>1, <2>2
<1> QED BY <1>1, <1>2

\* A step of one thread on session k leaves the history of the others.
LEMMA OtherHistories ==
    ASSUME Mapped, Mapped', NEW t \in Threads, NEW k \in Keys,
           key[t] = k \/ pc[t] = "idle", key'[t] = k \/ pc'[t] = "idle",
           \A u \in Threads : u # t =>
              /\ pc'[u] = pc[u] /\ key'[u] = key[u] /\ turnBegin'[u] = turnBegin[u]
              /\ outcome'[u] = outcome[u],
           \A j \in Keys : j # k => conv'[j] = conv[j]
    PROVE  \A j \in Keys : j # k => /\ Committed(j)' = Committed(j)
                                    /\ Failing(j)' <=> Failing(j)
<1> SUFFICES ASSUME NEW j \in Keys, j # k
             PROVE  Committed(j)' = Committed(j) /\ (Failing(j)' <=> Failing(j))
  OBVIOUS
<1>1. "idle" \notin InTurn /\ "idle" # "settle"
  BY DEF InTurn
<1>2. \A u \in Threads : /\ pc[u] # "idle" /\ key[u] = j => u # t
                         /\ pc'[u] # "idle" /\ key'[u] = j => u # t
  OBVIOUS
<1>3. \A u \in Threads :
         /\ pc[u] \in InTurn /\ key[u] = j <=> pc'[u] \in InTurn /\ key'[u] = j
         /\ pc[u] \in InTurn /\ key[u] = j => turnBegin'[u] = turnBegin[u]
  BY <1>1, <1>2
<1>4. Committed(j)' = Committed(j)
  BY <1>3, SameHistory
<1>5. \A u \in Threads :
         pc[u] = "settle" /\ key[u] = j /\ outcome[u] = "ERROR"
         <=> pc'[u] = "settle" /\ key'[u] = j /\ outcome'[u] = "ERROR"
  BY <1>1, <1>2
<1>6. Failing(j)' <=> Failing(j)
  BY <1>5 DEF Failing
<1> QED BY <1>4, <1>6

\* The mapped variables after a step on session k.
LEMMA HistoryMove ==
    ASSUME NEW k \in Keys, \A j \in Keys : j # k => /\ Committed(j)' = Committed(j)
                                                    /\ Failing(j)' <=> Failing(j)
    PROVE  /\ Hist' = [Hist EXCEPT ![k] = Committed(k)'] /\ Hist[k] = Committed(k)
           /\ Committed(k)' = Committed(k) => Hist' = Hist
           /\ Failing(k)' => Failed' = Failed \cup {k}
           /\ ~Failing(k)' => Failed' = Failed \ {k}
           /\ (Failing(k)' <=> Failing(k)) => Failed' = Failed
           /\ k \in Failed <=> Failing(k)
<1>1. Hist' = [Hist EXCEPT ![k] = Committed(k)'] /\ Hist[k] = Committed(k)
  BY DEF Hist
<1>2. Committed(k)' = Committed(k) => Hist' = Hist
  BY DEF Hist
<1>3. /\ Failing(k)' => Failed' = Failed \cup {k}
      /\ ~Failing(k)' => Failed' = Failed \ {k}
      /\ (Failing(k)' <=> Failing(k)) => Failed' = Failed
      /\ k \in Failed <=> Failing(k)
  BY DEF Failed
<1> QED BY <1>1, <1>2, <1>3

\* SessionHistory's actions, on the mapped variables.
LEMMA HistoryActions ==
    ASSUME NEW k \in Keys
    PROVE  /\ UNCHANGED <<Hist, activeRuns, Failed>> => HistoryStep
           /\ /\ k \notin activeRuns /\ activeRuns' = activeRuns \cup {k}
              /\ UNCHANGED <<Hist, Failed>>
              => HistoryStep
           /\ /\ k \in activeRuns \ Failed /\ activeRuns' = activeRuns \ {k}
              /\ UNCHANGED <<Hist, Failed>>
              => HistoryStep
           /\ /\ k \in activeRuns \ Failed /\ Hist[k] = <<>>
              /\ Hist' = [Hist EXCEPT ![k] = <<System>>] /\ UNCHANGED <<activeRuns, Failed>>
              => HistoryStep
           /\ /\ k \in activeRuns /\ Failed' = Failed \cup {k}
              /\ UNCHANGED <<Hist, activeRuns>>
              => HistoryStep
           /\ /\ k \in Failed /\ Failed' = Failed \ {k} /\ UNCHANGED <<Hist, activeRuns>>
              => HistoryStep
           /\ /\ k \notin activeRuns /\ Hist' = [Hist EXCEPT ![k] = <<>>]
              /\ UNCHANGED <<activeRuns, Failed>>
              => HistoryStep
           /\ /\ k \notin activeRuns /\ Hist' = [Hist EXCEPT ![k] = RestoredHistory]
              /\ UNCHANGED <<activeRuns, Failed>>
              => HistoryStep
<1>1. UNCHANGED <<Hist, activeRuns, Failed>> => HistoryStep
  BY DEF HistoryStep
<1>2. History!Next => HistoryStep
  BY DEF HistoryStep
<1>3. (\/ History!Begin(k) \/ History!End(k) \/ History!Open(k) \/ History!Commit(k)
       \/ History!Fail(k) \/ History!Discard(k) \/ History!Wipe(k) \/ History!Restore(k))
      => HistoryStep
  BY <1>2 DEF History!Next
<1>4. /\ k \notin activeRuns /\ activeRuns' = activeRuns \cup {k} /\ UNCHANGED <<Hist, Failed>>
      => HistoryStep
  BY <1>3 DEF History!Begin, Hist, Failed
<1>5. /\ k \in activeRuns \ Failed /\ activeRuns' = activeRuns \ {k}
      /\ UNCHANGED <<Hist, Failed>>
      => HistoryStep
  BY <1>3 DEF History!End, Hist, Failed
<1>6. /\ k \in activeRuns \ Failed /\ Hist[k] = <<>>
      /\ Hist' = [Hist EXCEPT ![k] = <<System>>] /\ UNCHANGED <<activeRuns, Failed>>
      => HistoryStep
  BY <1>3 DEF History!Open, Hist, Failed
<1>7. k \in activeRuns /\ Failed' = Failed \cup {k} /\ UNCHANGED <<Hist, activeRuns>>
      => HistoryStep
  BY <1>3 DEF History!Fail, Hist, Failed
<1>8. k \in Failed /\ Failed' = Failed \ {k} /\ UNCHANGED <<Hist, activeRuns>>
      => HistoryStep
  BY <1>3 DEF History!Discard, Hist, Failed
<1>9. /\ k \notin activeRuns /\ Hist' = [Hist EXCEPT ![k] = <<>>]
      /\ UNCHANGED <<activeRuns, Failed>>
      => HistoryStep
  BY <1>3 DEF History!Wipe, Hist, Failed
<1>10. /\ k \notin activeRuns /\ Hist' = [Hist EXCEPT ![k] = RestoredHistory]
       /\ UNCHANGED <<activeRuns, Failed>>
       => HistoryStep
  BY <1>3 DEF History!Restore, Hist, Failed
<1> QED BY <1>1, <1>4, <1>5, <1>6, <1>7, <1>8, <1>9, <1>10

\* What a turn leaves behind the messages it was sent is its own.
LEMMA TailFacts ==
    ASSUME NEW m \in Seq(Message), NEW n \in Nat, NEW i,
           \A x \in n + 1 .. Len(m) : m[x] \in Own(i)
    PROVE  LET r == SubSeq(m, n + 1, Len(m)) IN
           r \in Seq(Message) /\ \A x \in 1 .. Len(r) : r[x] \in Own(i)
<1> DEFINE r == SubSeq(m, n + 1, Len(m))
<1>1. Len(m) \in Nat /\ \A x \in n + 1 .. Len(m) : m[x] \in Message
  BY LenProperties, ElementOfSeq
<1>2. CASE Len(m) < n + 1
  <2>1. r = <<>>
    BY <1>1, <1>2, SubSeqProperties
  <2> HIDE DEF r
  <2>2. r \in Seq(Message) /\ \A x \in 1 .. Len(r) : r[x] \in Own(i)
    BY <2>1, EmptyList
  <2> QED BY <2>2 DEF r
<1>3. CASE ~(Len(m) < n + 1)
  <2>1. /\ r \in Seq(Message) /\ Len(r) = Len(m) - (n + 1) + 1
        /\ \A x \in 1 .. Len(m) - (n + 1) + 1 : r[x] = m[n + 1 + x - 1]
    BY <1>1, <1>3, SubSeqProperties
  <2> HIDE DEF r
  <2>2. \A x \in 1 .. Len(r) : r[x] = m[n + 1 + x - 1] /\ n + 1 + x - 1 \in n + 1 .. Len(m)
    BY <1>1, <1>3, <2>1
  <2>3. r \in Seq(Message) /\ \A x \in 1 .. Len(r) : r[x] \in Own(i)
    BY <2>1, <2>2
  <2> QED BY <2>3 DEF r
<1> QED BY <1>2, <1>3

\* The user's message and what was said on it are a whole turn behind the history.
LEMMA TurnConcat ==
    ASSUME NEW c \in Seq(Message), NEW b \in Nat, Len(c) = b + 1, NEW i \in Inputs,
           c[b + 1] = UserMsg(i), NEW r \in Seq(Message),
           \A x \in 1 .. Len(r) : r[x] \in Own(i)
    PROVE  LET s == SubSeq(c, 1, b)
               w == <<UserMsg(i)>> \o r
               f == c \o r
           IN  /\ f = s \o w
               /\ SubSeq(f, Len(s) + 1, Len(f)) = w
               /\ History!IsTurn(w, i)
<1> DEFINE s == SubSeq(c, 1, b)
           q == <<UserMsg(i)>>
<1>1. Len(c) \in Nat /\ Len(r) \in Nat /\ UserMsg(i) \in Message
  BY LenProperties, MessageType
<1>2. /\ s \in Seq(Message) /\ Len(s) = b /\ \A x \in 1 .. b : s[x] = c[x]
  <2>1. \A x \in 1 .. b : c[x] \in Message
    BY <1>1, ElementOfSeq
  <2> QED BY <1>1, <2>1, SubSeqProperties
<1>3. c = s \o q
  <2> DEFINE d == s \o q
  <2>1. q \in Seq(Message) /\ Len(q) = 1 /\ q[1] = UserMsg(i)
    BY <1>1
  <2> HIDE DEF s, q
  <2>2. /\ d \in Seq(Message) /\ Len(d) = Len(s) + Len(q)
        /\ \A x \in 1 .. Len(s) + Len(q) : d[x] = IF x <= Len(s) THEN s[x] ELSE q[x - Len(s)]
    BY <1>2, <2>1, ConcatProperties
  <2> HIDE DEF d
  <2>3. Len(d) = Len(c)
    BY <1>1, <1>2, <2>1, <2>2
  <2>4. ASSUME NEW x \in 1 .. Len(c) PROVE d[x] = c[x]
    <3>1. CASE x <= b
      BY <1>1, <1>2, <2>1, <2>2, <3>1
    <3>2. CASE x = b + 1
      <4>1. x \in 1 .. Len(s) + Len(q) /\ ~(x <= Len(s)) /\ x - Len(s) = 1
        BY <1>2, <2>1, <3>2
      <4> QED BY <2>1, <2>2, <3>2, <4>1
    <3> QED BY <1>1, <3>1, <3>2
  <2>5. d = c
    BY <2>2, <2>3, <2>4, SeqEqual
  <2> QED BY <2>5 DEF d
<1>4. q \in Seq(Message) /\ Len(q) = 1 /\ q[1] = UserMsg(i)
  BY <1>1
<1> HIDE DEF s, q
<1> DEFINE w == q \o r
           f == c \o r
<1>5. /\ w \in Seq(Message) /\ Len(w) = 1 + Len(r)
      /\ \A x \in 1 .. 1 + Len(r) : w[x] = IF x <= 1 THEN q[x] ELSE r[x - 1]
  <2>1. /\ w \in Seq(Message) /\ Len(w) = Len(q) + Len(r)
        /\ \A x \in 1 .. Len(q) + Len(r) : w[x] = IF x <= Len(q) THEN q[x] ELSE r[x - Len(q)]
    BY <1>4, ConcatProperties
  <2> HIDE DEF w
  <2> QED BY <1>4, <2>1
<1>6. f = s \o w
  BY <1>2, <1>3, <1>4, ConcatAssociative
<1>7. f \in Seq(Message) /\ Len(f) = Len(s) + Len(w)
  BY <1>2, <1>5, <1>6, ConcatProperties
<1> HIDE DEF w
<1>8. SubSeq(f, Len(s) + 1, Len(f)) = w
  <2>1. /\ Len(s) \in Nat /\ Len(w) \in Nat /\ Len(w) >= 1
        /\ Len(s) + 1 \in Len(s) + 1 .. Len(s) + Len(w)
        /\ Len(s) + Len(w) \in Len(s) + 1 .. Len(s) + Len(w)
        /\ Len(s) + 1 - Len(s) = 1 /\ Len(s) + Len(w) - Len(s) = Len(w)
    BY <1>1, <1>2, <1>5
  <2>2. SubSeq(s \o w, Len(s) + 1, Len(s) + Len(w)) = SubSeq(w, 1, Len(w))
    BY <1>2, <1>5, <2>1, SubSeqOfConcat2
  <2>3. SubSeq(w, 1, Len(w)) = w
    BY <1>5, SubSeqFull
  <2> QED BY <1>6, <1>7, <2>2, <2>3
<1>9. History!IsTurn(w, i)
  <2>1. w # <<>> /\ 1 \in 1 .. 1 + Len(r) /\ 1 <= 1
    BY <1>1, <1>5, EmptyList
  <2>2. w[1] = UserMsg(i)
    BY <1>4, <1>5, <2>1
  <2>3. \A x \in 2 .. Len(w) : w[x] \in {Reply(i), Note(i)}
    <3> SUFFICES ASSUME NEW x \in 2 .. Len(w) PROVE w[x] \in {Reply(i), Note(i)}
      OBVIOUS
    <3>1. x \in 1 .. 1 + Len(r) /\ ~(x <= 1) /\ x - 1 \in 1 .. Len(r)
      BY <1>1, <1>5
    <3> QED BY <1>5, <3>1 DEF Own
  <2> QED BY <2>1, <2>2, <2>3 DEF History!IsTurn
<1>10. SubSeq(c, 1, b) = s /\ <<UserMsg(i)>> \o r = w
  BY DEF s, w, q
<1> QED BY <1>6, <1>8, <1>9, <1>10

\* A whole turn is committed.
LEMMA CommitStep ==
    ASSUME NEW k \in Keys, k \in activeRuns \ Failed, NEW i \in Inputs, NEW w,
           Hist' = [Hist EXCEPT ![k] = Hist[k] \o w],
           SubSeq(Hist[k] \o w, Len(Hist[k]) + 1, Len(Hist[k] \o w)) = w,
           History!IsTurn(w, i),
           UNCHANGED <<activeRuns, Failed>>
    PROVE  HistoryStep
<1>1. Hist'[k] = Hist[k] \o w
  BY DEF Hist
<1>2. /\ k \in activeRuns \ Failed
      /\ \E j \in Inputs : History!IsTurn(SubSeq(Hist'[k], Len(Hist[k]) + 1, Len(Hist'[k])), j)
      /\ Hist' = [Hist EXCEPT ![k] =
                     @ \o SubSeq(Hist'[k], Len(Hist[k]) + 1, Len(Hist'[k]))]
  BY <1>1
<1>3. History!Commit(k)
  BY <1>2 DEF History!Commit, Hist, Failed
<1>4. History!Next
  BY <1>3 DEF History!Next
<1> QED BY <1>4 DEF HistoryStep

\* The end of a turn's loop fails the session or shows nothing.
LEMMA LoopEndHistory ==
    ASSUME TypeOK, Exclusion, Mapped, Mapped', NEW t \in Threads, pc[t] = "loop",
           UNCHANGED <<key, turnBegin, conv, activeRuns>>,
           NEW o, pc' = [pc EXCEPT ![t] = "settle"], outcome' = [outcome EXCEPT ![t] = o]
    PROVE  HistoryStep
<1> DEFINE k == key[t]
<1>1. /\ k \in Keys /\ k \in activeRuns /\ pc[t] \in InTurn
      /\ \A u \in Threads : pc[u] # "idle" /\ key[u] = k => u = t
  BY DEF TypeOK, Exclusion, Claimed, TurnExclusion, InTurn
<1>2. /\ pc'[t] = "settle" /\ pc'[t] \in InTurn /\ outcome'[t] = o
      /\ \A u \in Threads : u # t => pc'[u] = pc[u] /\ outcome'[u] = outcome[u]
  BY DEF TypeOK, InTurn
<1>3. \A j \in Keys : j # k => Committed(j)' = Committed(j) /\ (Failing(j)' <=> Failing(j))
  BY <1>1, <1>2, OtherHistories
<1>4. Committed(k)' = Committed(k)
  BY <1>1, <1>2, SameHistory
<1>5. "idle" # "settle" /\ ~Failing(k) /\ (Failing(k)' <=> o = "ERROR")
  BY <1>1, <1>2 DEF Failing
<1>6. Hist' = Hist /\ (Failed' = Failed \/ Failed' = Failed \cup {k})
  BY <1>1, <1>3, <1>4, <1>5, HistoryMove
<1> QED BY <1>1, <1>6, HistoryActions

\* settle_turn commits the turn, or drops it when it failed.
LEMMA SettleHistory ==
    ASSUME TypeOK, Exclusion, Owners, Kept, OutcomeMatchesTurn, Mapped, Mapped',
           NEW t \in Threads, SettleTurn(t)
    PROVE  HistoryStep
<1> DEFINE k == key[t]
           c == conv[k]
           b == turnBegin[t]
           m == msgs[t]
           s == SubSeq(c, 1, b)
<1>1. /\ pc[t] = "settle" /\ ActiveSessionKey(t) = k /\ pc[t] \in InTurn
      /\ k \in activeRuns
      /\ \A u \in Threads : pc[u] # "idle" /\ key[u] = k => u = t
  BY ActiveIsKey DEF SettleTurn, Exclusion, Claimed, TurnExclusion, InTurn
<1>2. /\ conv' = [conv EXCEPT ![k] = Settled(t, k)]
      /\ pc' = [pc EXCEPT ![t] = IF failures[k] THEN "done" ELSE "drain"]
      /\ UNCHANGED <<key, outcome, activeRuns>>
      /\ \A u \in Threads : u # t => turnBegin'[u] = turnBegin[u]
  BY <1>1 DEF SettleTurn, LeaveBody, TypeOK
<1>3. /\ InFlight(t) /\ c \in Seq(Message) /\ k \in Keys /\ input[t] \in Inputs
      /\ b \in Nat /\ sentLen[t] \in Nat /\ m \in Seq(Message)
  BY <1>1, FlightFacts
<1>4. /\ Len(c) = b + 1 /\ sentLen[t] = b + 1 /\ c[b + 1] = UserMsg(input[t])
      /\ \A x \in (b + 1) + 1 .. Len(m) : m[x] \in Own(input[t])
  BY <1>1, <1>3 DEF InFlight, Flight, Grown
<1>5. outcome[t] \in Ended
  BY <1>1 DEF Kept, Turns
<1>6. failures[k] <=> outcome[t] = "ERROR"
  BY <1>1, <1>5 DEF OutcomeMatchesTurn, Ended
<1>7. /\ pc'[t] \notin InTurn /\ pc'[t] # "settle"
      /\ \A u \in Threads : u # t => pc'[u] = pc[u]
  BY <1>2 DEF TypeOK, InTurn
<1>8. /\ conv'[k] = Settled(t, k) /\ \A j \in Keys : j # k => conv'[j] = conv[j]
  BY <1>2, <1>3 DEF TypeOK
<1>9. \A j \in Keys : j # k => Committed(j)' = Committed(j) /\ (Failing(j)' <=> Failing(j))
  BY <1>2, <1>3, <1>7, <1>8, OtherHistories
<1>10. Committed(k) = s /\ Committed(k)' = Settled(t, k)
  <2>1. \A u \in Threads : pc'[u] \in InTurn => key'[u] # k
    BY <1>1, <1>2, <1>7 DEF InTurn
  <2> QED BY <1>1, <1>2, <1>3, <1>8, <2>1 DEF Mapped
<1>11. "idle" # "settle" /\ ~Failing(k)' /\ (Failing(k) <=> outcome[t] = "ERROR")
  BY <1>1, <1>2, <1>7 DEF Failing
<1>12. /\ Hist' = [Hist EXCEPT ![k] = Settled(t, k)] /\ Hist[k] = s
       /\ Settled(t, k) = s => Hist' = Hist
       /\ Failed' = Failed \ {k} /\ (k \in Failed <=> Failing(k))
  <2>1. /\ Hist' = [Hist EXCEPT ![k] = Committed(k)'] /\ Hist[k] = Committed(k)
        /\ Committed(k)' = Committed(k) => Hist' = Hist
        /\ Failed' = Failed \ {k} /\ (k \in Failed <=> Failing(k))
    <3> HIDE DEF s, c, b, m
    <3> QED BY <1>2, <1>3, <1>9, <1>11, HistoryMove
  <2> HIDE DEF s, c, b, m
  <2> QED BY <1>10, <2>1
<1>13. CASE failures[k]
  <2>1. b < Len(c)
    BY <1>3, <1>4
  <2>2. Settled(t, k) = s
    BY <1>13, <2>1 DEF Settled, Rollback
  <2> QED BY <1>2, <1>3, <1>6, <1>11, <1>12, <1>13, <2>2, HistoryActions
<1>14. CASE ~failures[k]
  <2> DEFINE r == SubSeq(m, (b + 1) + 1, Len(m))
  <2>1. Settled(t, k) = c \o r
    BY <1>4, <1>14 DEF Settled, KeepFrom
  <2>2. r \in Seq(Message) /\ \A x \in 1 .. Len(r) : r[x] \in Own(input[t])
    <3> HIDE DEF m, b
    <3>1. b + 1 \in Nat
      BY <1>3 DEF b
    <3>2. m \in Seq(Message) /\ \A x \in (b + 1) + 1 .. Len(m) : m[x] \in Own(input[t])
      BY <1>3, <1>4 DEF b, m
    <3> QED BY <3>1, <3>2, TailFacts
  <2> HIDE DEF r
  <2> DEFINE w == <<UserMsg(input[t])>> \o r
  <2>3. /\ c \o r = s \o w
        /\ SubSeq(s \o w, Len(s) + 1, Len(s \o w)) = w
        /\ History!IsTurn(w, input[t])
    <3>1. /\ c \in Seq(Message) /\ b \in Nat /\ Len(c) = b + 1 /\ input[t] \in Inputs
          /\ c[b + 1] = UserMsg(input[t])
      BY <1>3, <1>4
    <3> HIDE DEF c, b
    <3>2. /\ c \o r = s \o w /\ SubSeq(c \o r, Len(s) + 1, Len(c \o r)) = w
          /\ History!IsTurn(w, input[t])
      BY <2>2, <3>1, TurnConcat
    <3> HIDE DEF w, s
    <3> QED BY <3>2
  <2>4. k \notin Failed /\ Failed' = Failed
    BY <1>6, <1>11, <1>12, <1>14
  <2> HIDE DEF s, c, w
  <2>5. Hist' = [Hist EXCEPT ![k] = Hist[k] \o w] /\ Hist[k] = s
    BY <1>12, <2>1, <2>3
  <2> HIDE DEF m, b, k
  <2> QED BY <1>1, <1>2, <1>3, <2>3, <2>4, <2>5, CommitStep
<1> QED BY <1>13, <1>14

\* Every step is a step SessionHistory allows, or changes nothing it can see.
LEMMA HistoryRefines ==
    ASSUME HostWaits, TypeOK, Exclusion, Owners, Kept, OutcomeMatchesTurn,
           Mapped, Mapped', [Next]_vars
    PROVE  HistoryStep
\* A step that writes no conversation, sends no turn and ends no loop.
<1>1. ASSUME UNCHANGED conv,
             \A u \in Threads :
                /\ pc[u] \in InTurn <=> pc'[u] \in InTurn
                /\ pc[u] \in InTurn => key'[u] = key[u] /\ turnBegin'[u] = turnBegin[u]
                /\ pc[u] = "settle" /\ outcome[u] = "ERROR"
                   <=> pc'[u] = "settle" /\ outcome'[u] = "ERROR"
      PROVE  Hist' = Hist /\ Failed' = Failed
  <2>1. \A k \in Keys : Committed(k)' = Committed(k)
    BY <1>1, SameHistory
  <2>2. "settle" \in InTurn
    BY DEF InTurn
  <2>3. \A k \in Keys : Failing(k)' <=> Failing(k)
    BY <1>1, <2>2 DEF Failing
  <2> QED BY <2>1, <2>3 DEF Hist, Failed
<1>2. UNCHANGED <<Hist, activeRuns, Failed>> => HistoryStep
  BY DEF HistoryStep
<1>3. ASSUME UNCHANGED <<conv, pc, key, turnBegin, outcome, activeRuns>>
      PROVE  HistoryStep
  BY <1>1, <1>2, <1>3
\* A step of thread t from p to q, both outside a turn or both in one.
<1>4. ASSUME NEW t \in Threads, NEW q, pc[t] \in InTurn <=> q \in InTurn,
             pc[t] # "settle", q # "settle", pc' = [pc EXCEPT ![t] = q],
             \A u \in Threads : u # t => outcome'[u] = outcome[u],
             UNCHANGED <<conv, key, turnBegin, activeRuns>>
      PROVE  HistoryStep
  <2>1. pc'[t] = q /\ \A u \in Threads : u # t => pc'[u] = pc[u]
    BY <1>4 DEF TypeOK
  <2> QED BY <1>1, <1>2, <1>4, <2>1
<1>5. \A t \in Threads : pc[t] # "idle" =>
         /\ key[t] \in Keys /\ key[t] \in activeRuns /\ ActiveSessionKey(t) = key[t]
         /\ \A u \in Threads : pc[u] # "idle" /\ key[u] = key[t] => u = t
  BY ActiveIsKey DEF TypeOK, Exclusion, Claimed, TurnExclusion
<1>6. /\ "claimed" \notin InTurn /\ "bound" \notin InTurn /\ "done" \notin InTurn
      /\ "batch" \notin InTurn /\ "idle" \notin InTurn
      /\ "seeded" \notin InTurn /\ "drain" \notin InTurn
      /\ {"starting", "resetting", "loop", "settle"} = InTurn
  BY DEF InTurn
<1>11. ASSUME NEW t \in Threads, NEW k \in Keys, NEW i \in Inputs,
              TryBeginTurn(t, k, i)
       PROVE  HistoryStep
  <2>1. /\ k \notin activeRuns /\ activeRuns' = activeRuns \cup {k}
        /\ UNCHANGED <<conv, turnBegin>> /\ pc[t] = "idle"
    BY <1>11 DEF TryBeginTurn, Blocked
  <2>2. /\ pc'[t] = "claimed"
        /\ \A u \in Threads : u # t =>
              pc'[u] = pc[u] /\ key'[u] = key[u] /\ outcome'[u] = outcome[u]
    BY <1>11 DEF TryBeginTurn, TypeOK
  <2>3. Hist' = Hist /\ Failed' = Failed
    BY <1>1, <1>6, <2>1, <2>2
  <2> QED BY <2>1, <2>3, HistoryActions
<1>12. ASSUME NEW t \in Threads, SetActiveSession(t) PROVE HistoryStep
  BY <1>4, <1>6, <1>12 DEF SetActiveSession
<1>13. ASSUME NEW t \in Threads, RefuseTier(t) PROVE HistoryStep
  <2>1. \A u \in Threads : u # t => outcome'[u] = outcome[u]
    BY <1>13 DEF RefuseTier, TypeOK
  <2> QED BY <1>4, <1>6, <1>13, <2>1 DEF RefuseTier
<1>14. ASSUME NEW t \in Threads, RunBatch(t) PROVE HistoryStep
  <2>1. \A u \in Threads : u # t => outcome'[u] = outcome[u]
    BY <1>14 DEF RunBatch, TypeOK
  <2>2. /\ pc' = [pc EXCEPT ![t] = "batch"] \/ pc' = [pc EXCEPT ![t] = "done"]
        /\ pc[t] \in {"claimed", "batch"}
    BY <1>14 DEF RunBatch
  <2> QED BY <1>4, <1>6, <1>14, <2>1, <2>2 DEF RunBatch
<1>15. ASSUME NEW t \in Threads, SeedSystemPrompt(t) PROVE HistoryStep
  <2> DEFINE k == key[t]
             s == Seeded(conv[k])
  <2>1. /\ pc[t] = "bound" /\ conv' = [conv EXCEPT ![k] = s]
        /\ pc' = [pc EXCEPT ![t] = "seeded"]
        /\ UNCHANGED <<key, turnBegin, outcome, activeRuns>>
        /\ k \in Keys /\ k \in activeRuns
        /\ \A u \in Threads : pc[u] # "idle" /\ key[u] = k => u = t
    BY <1>5, <1>15 DEF SeedSystemPrompt
  <2>2. /\ pc'[t] = "seeded" /\ \A u \in Threads : u # t => pc'[u] = pc[u]
        /\ conv'[k] = s /\ \A j \in Keys : j # k => conv'[j] = conv[j]
    BY <2>1 DEF TypeOK
  <2>3. \A j \in Keys : j # k => Committed(j)' = Committed(j) /\ (Failing(j)' <=> Failing(j))
    BY <2>1, <2>2, OtherHistories
  <2>4. Committed(k) = conv[k] /\ Committed(k)' = s
    <3>1. \A u \in Threads : /\ pc[u] \in InTurn => key[u] # k
                             /\ pc'[u] \in InTurn => key'[u] # k
      BY <1>6, <2>1, <2>2
    <3> QED BY <2>1, <2>2, <3>1 DEF Mapped
  <2>5. ~Failing(k) /\ ~Failing(k)'
    BY <2>1, <2>2 DEF Failing
  <2>6. /\ Hist' = [Hist EXCEPT ![k] = s] /\ Hist[k] = conv[k]
        /\ Failed' = Failed /\ k \notin Failed
        /\ s = conv[k] => Hist' = Hist
    BY <2>1, <2>3, <2>4, <2>5, HistoryMove
  <2>7. CASE conv[k] = <<>>
    BY <2>1, <2>6, <2>7, HistoryActions DEF Seeded
  <2>8. CASE conv[k] # <<>>
    BY <1>2, <2>1, <2>6, <2>8 DEF Seeded
  <2> QED BY <2>7, <2>8
<1>16. ASSUME NEW t \in Threads, BeginTurn(t) PROVE HistoryStep
  <2> DEFINE k == key[t]
             c == conv[k]
             sent == Append(c, UserMsg(input[t]))
  <2>1. /\ pc[t] = "seeded" /\ conv' = [conv EXCEPT ![k] = sent]
        /\ pc' = [pc EXCEPT ![t] = "starting"]
        /\ turnBegin' = [turnBegin EXCEPT ![t] = Len(c)]
        /\ UNCHANGED <<key, outcome, activeRuns>>
        /\ k \in Keys /\ k \in activeRuns /\ c \in Seq(Message)
        /\ \A u \in Threads : pc[u] # "idle" /\ key[u] = k => u = t
    BY <1>5, <1>16 DEF BeginTurn, TypeOK
  <2>2. /\ pc'[t] = "starting" /\ turnBegin'[t] = Len(c)
        /\ \A u \in Threads : u # t => pc'[u] = pc[u] /\ turnBegin'[u] = turnBegin[u]
        /\ conv'[k] = sent /\ \A j \in Keys : j # k => conv'[j] = conv[j]
    BY <2>1 DEF TypeOK
  <2>3. \A j \in Keys : j # k => Committed(j)' = Committed(j) /\ (Failing(j)' <=> Failing(j))
    BY <2>1, <2>2, OtherHistories
  <2>4. SubSeq(sent, 1, Len(c)) = c
    <3>1. UserMsg(input[t]) \in Message
      BY <2>1, MessageType DEF Owners
    <3> HIDE DEF c
    <3>2. /\ sent \in Seq(Message) /\ Len(sent) = Len(c) + 1 /\ Len(c) \in Nat
          /\ \A x \in 1 .. Len(c) : sent[x] = c[x]
      BY <2>1, <3>1, AppendProperties, LenProperties
    <3> HIDE DEF sent
    <3> DEFINE p == SubSeq(sent, 1, Len(c))
    <3>3. \A x \in 1 .. Len(c) : sent[x] \in Message
      BY <2>1, <3>2, ElementOfSeq
    <3>4. p \in Seq(Message) /\ Len(p) = Len(c) /\ \A x \in 1 .. Len(c) : p[x] = sent[x]
      BY <3>2, <3>3, SubSeqProperties
    <3> HIDE DEF p
    <3>5. p = c
      BY <2>1, <3>2, <3>4, SeqEqual
    <3> QED BY <3>5 DEF p
  <2>5. Committed(k) = c /\ Committed(k)' = c
    <3>1. \A u \in Threads : pc[u] \in InTurn => key[u] # k
      BY <1>6, <2>1
    <3>2. Committed(k) = c
      BY <2>1, <3>1 DEF Mapped
    <3>3. Committed(k)' = SubSeq(sent, 1, Len(c))
      BY <1>6, <2>1, <2>2 DEF Mapped
    <3> QED BY <2>4, <3>2, <3>3
  <2>6. ~Failing(k) /\ ~Failing(k)'
    BY <2>1, <2>2 DEF Failing
  <2> QED BY <1>2, <2>1, <2>3, <2>5, <2>6, HistoryMove
<1>17. ASSUME NEW t \in Threads, ResetFlags(t) \/ ResetExternal(t) PROVE HistoryStep
  <2>1. /\ pc' = [pc EXCEPT ![t] = "resetting"] \/ pc' = [pc EXCEPT ![t] = "loop"]
        /\ pc[t] \in {"starting", "resetting"}
        /\ UNCHANGED <<conv, key, turnBegin, outcome, activeRuns>>
    BY <1>17 DEF ResetFlags, ResetExternal
  <2> QED BY <1>4, <1>6, <2>1
<1>18. ASSUME NEW t \in Threads, LoopStep(t) \/ StopInterrupted(t) \/ CapIterations(t)
       PROVE  HistoryStep
  <2>1. /\ pc[t] = "loop" /\ UNCHANGED <<key, turnBegin, conv, activeRuns>>
        /\ UNCHANGED <<pc, outcome>> \/ \E o : EndLoop(t, o)
    BY <1>18, LoopStepFacts DEF Iteration, StopInterrupted, CapIterations
  <2>2. ASSUME NEW o, EndLoop(t, o) PROVE HistoryStep
    BY <2>1, <2>2, LoopEndHistory DEF EndLoop
  <2> QED BY <1>3, <2>1, <2>2
<1>19. ASSUME NEW t \in Threads, Throw(t) PROVE HistoryStep
  <2> DEFINE k == key[t]
             c == conv[k]
             s == SubSeq(c, 1, turnBegin[t])
  <2>1. /\ pc[t] = "loop" /\ pc' = [pc EXCEPT ![t] = "done"]
        /\ outcome' = [outcome EXCEPT ![t] = "thrown"]
        /\ turnBegin' = [turnBegin EXCEPT ![t] = 0]
        /\ UNCHANGED <<key, activeRuns, conv>>
        /\ k \in Keys /\ k \in activeRuns
        /\ \A u \in Threads : pc[u] # "idle" /\ key[u] = k => u = t
    BY <1>5, <1>19 DEF Throw, LeaveBody
  <2>2. /\ pc'[t] = "done"
        /\ \A u \in Threads : u # t =>
              /\ pc'[u] = pc[u] /\ outcome'[u] = outcome[u]
              /\ turnBegin'[u] = turnBegin[u]
    BY <2>1 DEF TypeOK
  <2>3. \A j \in Keys : j # k => Committed(j)' = Committed(j) /\ (Failing(j)' <=> Failing(j))
    BY <2>1, <2>2, OtherHistories
  <2>4. Committed(k) = s /\ Committed(k)' = c
    <3>1. \A u \in Threads : pc'[u] \in InTurn => key'[u] # k
      BY <1>6, <2>1, <2>2
    <3> QED BY <1>6, <2>1, <3>1 DEF Mapped
  <2>5. ~Failing(k) /\ ~Failing(k)'
    BY <2>1, <2>2 DEF Failing
  <2>6. /\ InFlight(t) /\ input[t] \in Inputs /\ c \in Seq(Message) /\ turnBegin[t] \in Nat
    BY <1>6, <2>1, FlightFacts
  <2>7. Len(c) = turnBegin[t] + 1 /\ c[turnBegin[t] + 1] = UserMsg(input[t])
    BY <2>6 DEF InFlight, Flight
  <2>8. PICK w : /\ c = s \o w
                 /\ SubSeq(s \o w, Len(s) + 1, Len(s \o w)) = w
                 /\ History!IsTurn(w, input[t])
    <3> HIDE DEF c
    <3> DEFINE r == <<>>
    <3>1. r \in Seq(Message) /\ Len(r) = 0 /\ c \o r = c
      BY <2>6, EmptyList, ConcatEmptySeq
    <3> HIDE DEF r
    <3>2. \A x \in 1 .. Len(r) : r[x] \in Own(input[t])
      BY <3>1
    <3> DEFINE w == <<UserMsg(input[t])>> \o r
    <3>3. /\ c \o r = s \o w /\ SubSeq(c \o r, Len(s) + 1, Len(c \o r)) = w
          /\ History!IsTurn(w, input[t])
      BY <2>6, <2>7, <3>1, <3>2, TurnConcat
    <3> HIDE DEF w, s
    <3> QED BY <3>1, <3>3
  <2>9. /\ Hist' = [Hist EXCEPT ![k] = c] /\ Hist[k] = s
        /\ Failed' = Failed /\ k \notin Failed
    BY <2>1, <2>3, <2>4, <2>5, HistoryMove
  <2> HIDE DEF c, s
  <2>10. Hist' = [Hist EXCEPT ![k] = Hist[k] \o w] /\ Hist[k] = s
    BY <2>8, <2>9
  <2> QED BY <2>1, <2>6, <2>8, <2>9, <2>10, CommitStep
<1>20. ASSUME NEW t \in Threads, SettleTurn(t) PROVE HistoryStep
  BY <1>20, SettleHistory
<1>21. ASSUME NEW t \in Threads, Drain(t) PROVE HistoryStep
  <2>1. /\ pc' = [pc EXCEPT ![t] = "done"] \/ pc' = [pc EXCEPT ![t] = "seeded"]
        /\ pc[t] = "drain" /\ UNCHANGED <<conv, key, turnBegin, outcome, activeRuns>>
    BY <1>21 DEF Drain
  <2> QED BY <1>4, <1>6, <2>1
<1>22. ASSUME NEW t \in Threads, EndTurn(t) PROVE HistoryStep
  <2>1. /\ pc[t] = "done" /\ UNCHANGED conv /\ activeRuns' = activeRuns \ {key[t]}
        /\ key[t] \in Keys /\ key[t] \in activeRuns
        /\ \A u \in Threads : pc[u] # "idle" /\ key[u] = key[t] => u = t
    BY <1>5, <1>22 DEF EndTurn
  <2>2. /\ pc'[t] = "idle"
        /\ \A u \in Threads : u # t =>
              /\ pc'[u] = pc[u] /\ key'[u] = key[u] /\ outcome'[u] = outcome[u]
              /\ turnBegin'[u] = turnBegin[u]
    BY <1>22 DEF EndTurn, TypeOK
  <2>3. Hist' = Hist /\ Failed' = Failed
    BY <1>1, <1>6, <2>1, <2>2
  <2>4. key[t] \notin Failed
    BY <2>1 DEF Failed, Failing
  <2> QED BY <2>1, <2>3, <2>4, HistoryActions
\* A step that replaces the conversation of an idle session.
<1>23. ASSUME NEW k \in Keys, k \notin activeRuns, NEW s, conv' = [conv EXCEPT ![k] = s],
              UNCHANGED <<pc, key, turnBegin, outcome, activeRuns>>
       PROVE  Hist' = [Hist EXCEPT ![k] = s] /\ Failed' = Failed
  <2>1. conv'[k] = s /\ \A j \in Keys : j # k => conv'[j] = conv[j]
    BY <1>23 DEF TypeOK
  <2>2. \A u \in Threads : pc[u] \in InTurn => key[u] # k
    BY <1>5, <1>6, <1>23
  <2>3. Committed(k)' = s
    BY <1>23, <2>1, <2>2 DEF Mapped
  <2>4. \A j \in Keys : j # k => Committed(j)' = Committed(j)
    BY <1>23, <2>1, SameHistory
  <2>5. \A j \in Keys : Failing(j)' <=> Failing(j)
    BY <1>23 DEF Failing
  <2> QED BY <2>3, <2>4, <2>5, HistoryMove
<1>24. ASSUME NEW k \in Keys, ClearConversation(k) \/ DropSession(k) PROVE HistoryStep
  <2>1. /\ k \notin activeRuns /\ conv' = [conv EXCEPT ![k] = <<>>]
        /\ UNCHANGED <<pc, key, turnBegin, outcome, activeRuns>>
    BY <1>24 DEF ClearConversation, DropSession, MayManage
  <2> QED BY <1>23, <2>1, HistoryActions
<1>25. CASE RestoreSwap
  <2>1. /\ restoring \in Keys /\ restoring \notin activeRuns
        /\ conv' = [conv EXCEPT ![restoring] = RestoredHistory]
        /\ UNCHANGED <<pc, key, turnBegin, outcome, activeRuns>>
    BY <1>25 DEF RestoreSwap, Kept, Rested, TypeOK, KeyOrNone
  <2> QED BY <1>23, <2>1, HistoryActions
<1>26. ASSUME NEW p \in Interrupters,
              InterruptFanOut(p) \/ InterruptExchange(p) \/ InterruptLatch(p)
       PROVE  HistoryStep
  BY <1>3, <1>26 DEF InterruptFanOut, InterruptExchange, InterruptLatch
<1>27. ASSUME NEW k \in Keys, InterruptSession(k) \/ RestoreCheck(k) PROVE HistoryStep
  BY <1>3, <1>27 DEF InterruptSession, RestoreCheck
<1>28. ASSUME NEW i \in Inputs, QueueCheck(i) PROVE HistoryStep
  BY <1>3, <1>28 DEF QueueCheck
<1>29. ASSUME NEW t \in Threads, CancelCurrentRun(t) PROVE HistoryStep
  BY <1>3, <1>29 DEF CancelCurrentRun
<1>30. CASE QueuePush \/ ClearQueue \/ UNCHANGED vars
  BY <1>3, <1>30 DEF QueuePush, ClearQueue
<1> QED
  BY <1>11, <1>12, <1>13, <1>14, <1>15, <1>16, <1>17, <1>18, <1>19, <1>20, <1>21,
     <1>22, <1>24, <1>25, <1>26, <1>27, <1>28, <1>29, <1>30
     DEF Next, RunStep, LoopStep, InterruptStep

\* run_drain_loop, settle_turn and the session_* calls keep SessionHistory's
\* promise, if the host manages only idle sessions: a stored conversation grows
\* by whole turns, a failed turn leaves no trace, and only an idle session is
\* wiped or restored.
THEOREM HistoryIsKept ==
    ASSUME HostWaits
    PROVE  Spec => HistorySpec
<1>1. Init => History!Init
  <2> SUFFICES ASSUME Init PROVE History!Init
    OBVIOUS
  <2>1. \A t \in Threads : pc[t] \notin InTurn /\ pc[t] # "settle"
    BY DEF Init, InTurn
  <2>2. \A k \in Keys : Committed(k) = <<>> /\ ~Failing(k)
    BY <2>1 DEF Init, Committed, Settling, Failing
  <2> QED BY <2>2 DEF Init, History!Init
<1>2. TypeOK /\ Exclusion /\ Waiting /\ Owners /\ Kept /\ OutcomeMatchesTurn
         /\ Mapped /\ Mapped' /\ [Next]_vars => HistoryStep
  BY HistoryRefines
<1> QED
  BY <1>1, <1>2, MappedFacts, TypeCorrect, ExclusionInvariant, OwnersInvariant,
     KeptInvariant, OutcomeIsTheTurns, PTL
     DEF Spec, HistorySpec, History!Spec, HistoryStep, Hist, Failed

(***************************************************************************)
(* What a settled turn leaves.                                             *)
(***************************************************************************)
\* Only settle_turn takes a turn on to the queue.
LEMMA SettlesItself ==
    ASSUME TypeOK, [Next]_vars, NEW t \in Threads, pc[t] = "settle", pc'[t] = "drain"
    PROVE  SettleTurn(t)
<1>1. pc' # pc
  OBVIOUS
<1>2. ASSUME NEW u \in Threads, NEW q, pc' = [pc EXCEPT ![u] = q], q # "drain" PROVE FALSE
  BY <1>2 DEF TypeOK
<1>3. ASSUME NEW u \in Threads, LoopStep(u) \/ StopInterrupted(u) \/ CapIterations(u)
      PROVE  FALSE
  <2>1. UNCHANGED pc \/ pc' = [pc EXCEPT ![u] = "settle"]
    BY <1>3, LoopStepFacts DEF StopInterrupted, CapIterations, EndLoop
  <2> QED BY <1>1, <1>2, <2>1
<1>4. ASSUME NEW u \in Threads, \/ SetActiveSession(u) \/ RefuseTier(u) \/ RunBatch(u)
                                \/ SeedSystemPrompt(u) \/ BeginTurn(u) \/ ResetFlags(u)
                                \/ ResetExternal(u) \/ Throw(u) \/ Drain(u) \/ EndTurn(u)
      PROVE  FALSE
  <2>1. \E q \in {"bound", "done", "batch", "seeded", "starting", "resetting", "loop",
                  "idle"} :
           pc' = [pc EXCEPT ![u] = q]
    BY <1>4 DEF SetActiveSession, RefuseTier, RunBatch, SeedSystemPrompt, BeginTurn,
       ResetFlags, ResetExternal, Throw, Drain, EndTurn
  <2> QED BY <1>2, <2>1
<1>5. ASSUME NEW u \in Threads, SettleTurn(u) PROVE SettleTurn(t)
  BY <1>5 DEF SettleTurn, TypeOK
<1>6. ASSUME NEW u \in Threads, NEW j \in Keys, NEW i \in Inputs, TryBeginTurn(u, j, i)
      PROVE  FALSE
  BY <1>2, <1>6 DEF TryBeginTurn
<1>7. ASSUME NEW p \in Interrupters, InterruptFanOut(p) \/ InterruptStep(p) PROVE FALSE
  BY <1>1, <1>7 DEF InterruptStep, InterruptFanOut, InterruptExchange, InterruptLatch
<1>8. ASSUME NEW j \in Keys, \/ InterruptSession(j) \/ ClearConversation(j)
                             \/ DropSession(j) \/ RestoreCheck(j)
      PROVE  FALSE
  BY <1>1, <1>8 DEF InterruptSession, ClearConversation, DropSession, RestoreCheck
<1>9. ASSUME NEW i \in Inputs, QueueCheck(i) PROVE FALSE
  BY <1>1, <1>9 DEF QueueCheck
<1>10. ASSUME NEW u \in Threads, CancelCurrentRun(u) PROVE FALSE
  BY <1>1, <1>10 DEF CancelCurrentRun
<1>11. ~(QueuePush \/ ClearQueue \/ RestoreSwap \/ UNCHANGED vars)
  BY <1>1 DEF QueuePush, ClearQueue, RestoreSwap
<1> QED
  BY <1>3, <1>4, <1>5, <1>6, <1>7, <1>8, <1>9, <1>10, <1>11
     DEF Next, RunStep, LoopStep

\* settle_turn stores the context it sees, or own messages behind the old ones.
LEMMA StoredStep ==
    ASSUME TypeOK, Exclusion, Owners, Kept, [Next]_vars,
           NEW t \in Threads, pc[t] = "settle", pc'[t] = "drain"
    PROVE  IF Compacted(t)
           THEN AddsOnlyOf(input[t], conv[key[t]], conv'[key[t]])
           ELSE conv'[key[t]] = msgs[t]
<1> DEFINE k == key[t]
           c == conv[k]
           n == sentLen[t]
           m == msgs[t]
           r == SubSeq(m, n + 1, Len(m))
<1>1. SettleTurn(t)
  BY SettlesItself
<1>2. /\ InFlight(t) /\ c \in Seq(Message) /\ k \in Keys /\ input[t] \in Inputs
      /\ n \in Nat /\ m \in Seq(Message) /\ Len(m) \in Nat /\ Len(c) \in Nat
      /\ ActiveSessionKey(t) = k
  BY FlightFacts, ActiveIsKey, LenProperties DEF InTurn, Exclusion
<1>3. ~failures[k]
  BY <1>1, <1>2 DEF SettleTurn, TypeOK
<1>4. conv'[k] = c \o r
  BY <1>1, <1>2, <1>3 DEF SettleTurn, Settled, KeepFrom, TypeOK
<1>5. /\ Len(c) = n /\ \A x \in n + 1 .. Len(m) : m[x] \in Own(input[t])
      /\ ~Compacted(t) => n <= Len(m) /\ \A x \in 1 .. n : m[x] = c[x]
  BY <1>2 DEF InFlight, Flight, Grown, Compacted
<1> HIDE DEF c, m, n
<1>6. r \in Seq(Message) /\ \A x \in 1 .. Len(r) : r[x] \in Own(input[t])
  BY <1>2, <1>5, TailFacts
<1>7. CASE Compacted(t)
  <2> HIDE DEF r
  <2> DEFINE d == c \o r
  <2>1. /\ d \in Seq(Message) /\ Len(d) = Len(c) + Len(r) /\ Len(r) \in Nat
        /\ \A x \in 1 .. Len(c) + Len(r) : d[x] = IF x <= Len(c) THEN c[x] ELSE r[x - Len(c)]
    BY <1>2, <1>6, ConcatProperties, LenProperties
  <2> HIDE DEF d
  <2>2. Len(c) <= Len(d)
    BY <1>2, <2>1
  <2>3. SubSeq(d, 1, Len(c)) = c
    <3> DEFINE p == SubSeq(d, 1, Len(c))
    <3>1. \A x \in 1 .. Len(c) : d[x] = c[x] /\ d[x] \in Message
      BY <1>2, <2>1, ElementOfSeq
    <3>2. p \in Seq(Message) /\ Len(p) = Len(c) /\ \A x \in 1 .. Len(c) : p[x] = d[x]
      BY <1>2, <3>1, SubSeqProperties
    <3> HIDE DEF p
    <3>3. p = c
      BY <1>2, <3>1, <3>2, SeqEqual
    <3> QED BY <3>3 DEF p
  <2>4. ASSUME NEW x \in Len(c) + 1 .. Len(d) PROVE d[x].of = input[t]
    <3>1. x \in 1 .. Len(c) + Len(r) /\ ~(x <= Len(c)) /\ x - Len(c) \in 1 .. Len(r)
      BY <1>2, <2>1
    <3> QED BY <1>2, <1>6, <2>1, <3>1, OwnFacts
  <2>5. AddsOnlyOf(input[t], c, d)
    BY <2>2, <2>3, <2>4 DEF AddsOnlyOf
  <2> QED BY <1>4, <1>7, <2>5 DEF c, d
<1>8. CASE ~Compacted(t)
  <2>1. c = SubSeq(m, 1, n)
    <3> DEFINE p == SubSeq(m, 1, n)
    <3>1. \A x \in 1 .. n : m[x] \in Message
      BY <1>2, <1>5, <1>8, ElementOfSeq
    <3>2. p \in Seq(Message) /\ Len(p) = n /\ \A x \in 1 .. n : p[x] = m[x]
      BY <1>2, <3>1, SubSeqProperties
    <3> HIDE DEF p
    <3>3. p = c
      BY <1>2, <1>5, <1>8, <3>2, SeqEqual
    <3> QED BY <3>3 DEF p
  <2>2. m = SubSeq(m, 1, Len(m))
    BY <1>2, SubSeqFull
  <2>3. SubSeq(m, 1, n) \o r = SubSeq(m, 1, Len(m))
    <3>1. 1 \in 1 .. Len(m) + 1 /\ n \in 1 - 1 .. Len(m) /\ Len(m) \in n .. Len(m)
      BY <1>2, <1>5, <1>8
    <3> QED BY <1>2, <3>1, ConcatAdjacentSubSeq
  <2>4. conv'[k] = m
    BY <1>4, <2>1, <2>2, <2>3
  <2> QED BY <1>8, <2>4 DEF m
<1> QED BY <1>7, <1>8

\* run_drain_loop and settle_turn: whatever the other threads do, a turn that did
\* not fail leaves the history as its run saw it, or, when check_and_compact cut
\* its context down, the old history with nothing but its own messages behind it.
THEOREM TurnIsStored ==
    ASSUME HostWaits
    PROVE  Spec => TurnKept
<1>1. TypeOK /\ Exclusion /\ Waiting /\ Owners /\ Kept /\ [Next]_vars
      => [\A t \in Threads :
             pc[t] = "settle" /\ pc'[t] = "drain" =>
                 IF Compacted(t)
                 THEN AddsOnlyOf(input[t], conv[key[t]], conv'[key[t]])
                 ELSE conv'[key[t]] = msgs[t]]_vars
  BY StoredStep
<1> QED
  BY <1>1, TypeCorrect, ExclusionInvariant, OwnersInvariant, KeptInvariant, PTL
     DEF Spec, TurnKept
=============================================================================
