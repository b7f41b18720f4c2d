---------------------------- MODULE SessionTurns ----------------------------
(***************************************************************************)
(* Turns on one engine handle: the run registry (one claim per session     *)
(* key), the thread-local session binding, the interrupt flag, the per-run *)
(* cancel token and the external-transport latch, the mid-generation user  *)
(* message queue, and the stored conversations a turn reads and settles.   *)
(*                                                                         *)
(* Source: src/core/engine.cpp, src/facade/entropic.cpp,                   *)
(* src/facade/engine_handle.h, src/types/run_scope.cpp.                    *)
(*                                                                         *)
(* A message is [role, of]: of names the user input whose turn produced    *)
(* it.  What a turn does inside its agentic loop (tools, delegation,       *)
(* budgets) is module AgentLoop's; here an iteration appends what was said *)
(* in it, by the model or by the engine, and ends the turn or not.         *)
(***************************************************************************)
EXTENDS Naturals, Sequences, FiniteSets

CONSTANTS
    Threads,       \* host threads that call the run entry points
    Interrupters,  \* host threads that call entropic_interrupt
    Keys,          \* session keys
    DefaultKey,    \* the key "" of the unkeyed entry points
    Inputs,        \* bound: the supply of user messages, each used once
    MaxIterations, \* LoopConfig::max_iterations
    CompactAt,     \* messages in a context that reach the compaction threshold
    QueueCap,      \* LoopConfig::message_queue_capacity
    HasPrompt,     \* does the handle have a system prompt?
    EngineNotes,   \* does the engine write into runs (tools, budget)?
    ApiOps,        \* the concurrent API calls this host makes
    RestoreKeys,   \* bound: the sessions whose history the host restores
    HostWaits,     \* does the host manage a session only while it is idle?
    NoInput        \* the "of" of messages no input produced

AllApiOps == {"interrupt", "interrupt_session", "cancel", "queue",
              "clear", "drop", "restore", "batch"}

NoKey == "no key"

ASSUME ConstantsAssumption ==
    /\ DefaultKey \in Keys
    /\ NoKey \notin Keys
    /\ NoInput \notin Inputs
    /\ MaxIterations \in Nat \ {0}
    /\ CompactAt \in Nat \ {0}
    /\ QueueCap \in Nat
    /\ HasPrompt \in BOOLEAN
    /\ EngineNotes \in BOOLEAN
    /\ ApiOps \subseteq AllApiOps
    /\ RestoreKeys \subseteq Keys
    /\ HostWaits \in BOOLEAN

VARIABLES
    pc,            \* where each host thread is in its run entry point
    key,           \* the key its HandleTurnGuard claims and releases
    bound,         \* t_active_session_key, or NoKey when not bound
    input,         \* the user message of the turn being run
    turnBegin,     \* settle_turn's turn_begin
    sentLen,       \* settle_turn's sent_len
    msgs,          \* LoopContext::messages of the run
    iterations,    \* LoopMetrics::iterations
    outcome,       \* how the run's loop ended
    activeRuns,    \* active_runs_: keys with a run in flight
    token,         \* RunState::interrupt of the run on a key
    concurrent,    \* concurrent_sessions_
    interruptFlag, \* interrupt_flag_, handle-wide
    extLatch,      \* are the external MCP transports latched shut?
    ipc,           \* where each interrupter is in interrupt()
    activeKey,     \* active_session_key_, handle-wide
    conv,          \* conversations_
    failures,      \* turn_failures_: did a session's last turn end in ERROR?
    queue,         \* user_message_queue_
    posting,       \* message between the is_running check and the enqueue
    restoring,     \* key between set_session_messages' check and its swap
    dangling,      \* was a conversation erased under a turn's reference?
    used,          \* history: inputs already submitted
    owner,         \* history: the session an input was run on
    asked,         \* history: was the turn asked to stop, and where was it?
    accepted,      \* history: messages the queue accepted and kept
    consumed       \* history: messages popped from the queue

runVars == <<pc, key, bound, input, turnBegin, sentLen, msgs, iterations,
             outcome>>
registryVars == <<activeRuns, token, concurrent>>
interruptVars == <<interruptFlag, extLatch, ipc>>
sessionVars == <<activeKey, conv, failures, restoring, dangling>>
queueVars == <<queue, posting, accepted, consumed>>
ghostVars == <<used, owner, asked>>
vars == <<runVars, registryVars, interruptVars, sessionVars, queueVars,
          ghostVars>>

KeyOrNone == Keys \cup {NoKey}
Roles == {"system", "user", "assistant", "engine", "summary", "restored"}
Message == [role : Roles, of : Inputs \cup {NoInput}]

System == [role |-> "system", of |-> NoInput]
Summary == [role |-> "summary", of |-> NoInput]
UserMsg(i) == [role |-> "user", of |-> i]
Reply(i) == [role |-> "assistant", of |-> i]
\* What the engine writes into the run as a user: tool results, rejections,
\* corrections, the budget nudge.
Note(i) == [role |-> "engine", of |-> i]
RestoredHistory == <<[role |-> "restored", of |-> NoInput]>>

\* The program counters at which a thread's turn holds a reference to its
\* conversation: from the push of the user message to the end of settle_turn.
InTurn == {"starting", "resetting", "loop", "settle"}
Running == InTurn \cup {"claimed", "bound", "seeded", "drain", "batch", "done"}

-----------------------------------------------------------------------------
(* Lookups.                                                                *)

\* active_session_key: the thread's binding, else the handle's last.
ActiveHandleKey(t) == activeKey
ActiveSessionKey(t) == IF bound[t] # NoKey THEN bound[t] ELSE activeKey

\* run_interrupted / generation_cancelled on thread t.
RunInterrupted(t) == interruptFlag \/ token[key[t]]

\* try_begin_turn's refusal.
BlockedByHandleOnly(k) == ~concurrent /\ activeRuns # {}
Blocked(k) == k \in activeRuns \/ (~concurrent /\ activeRuns # {})

\* interrupt()'s loop over active_runs_: which tokens end up set.
NoFanOut(k) == token[k]
FannedOut(k) == k \in activeRuns \/ token[k]

\* What reset_interrupt leaves in interrupt_flag_.
StaleFlag == interruptFlag
FlagAfterReset == FALSE

\* accumulate_run_metrics: turn_failures_[k] after a loop that ended in o.
StickyFailure(k, o) == failures[k] \/ o = "ERROR"
TurnFailure(k, o) == o = "ERROR"

\* should_stop on the iteration count.
AtCapLate(t) == iterations[t] > MaxIterations
AtCap(t) == iterations[t] >= MaxIterations

\* A host that waits manages a session only with no run on it in flight, and
\* starts no run on a session it is restoring.
MayManage(k) == HostWaits => k \notin activeRuns
MayRun(k) == HostWaits => restoring # k

-----------------------------------------------------------------------------
(* CompactionManager::compact over a run's message list: the system        *)
(* message, the summary, the messages marked source = "user" (nothing in   *)
(* the engine sets that mark on a user message) and the last reply.        *)

Assistants(s) == {n \in 1..Len(s) : s[n].role = "assistant"}

IsLastAssistant(s, n) ==
    n \in Assistants(s) /\ \A m \in Assistants(s) : m <= n

LastAssistant(s) ==
    IF \E n \in 1..Len(s) : IsLastAssistant(s, n)
    THEN <<s[CHOOSE n \in 1..Len(s) : IsLastAssistant(s, n)]>>
    ELSE <<>>

Compact(s) ==
    (IF s # <<>> /\ s[1].role = "system" THEN <<s[1]>> ELSE <<>>)
        \o <<Summary>> \o LastAssistant(s)

\* check_and_compact: the context an iteration generates from.
CheckAndCompact(s) == IF Len(s) >= CompactAt THEN Compact(s) ELSE s

-----------------------------------------------------------------------------
Init ==
    /\ pc = [t \in Threads |-> "idle"]
    /\ key = [t \in Threads |-> DefaultKey]
    /\ bound = [t \in Threads |-> NoKey]
    /\ input = [t \in Threads |-> NoInput]
    /\ turnBegin = [t \in Threads |-> 0]
    /\ sentLen = [t \in Threads |-> 0]
    /\ msgs = [t \in Threads |-> <<>>]
    /\ iterations = [t \in Threads |-> 0]
    /\ outcome = [t \in Threads |-> "none"]
    /\ activeRuns = {}
    /\ token = [k \in Keys |-> FALSE]
    /\ concurrent \in BOOLEAN
    /\ interruptFlag = FALSE
    /\ extLatch = FALSE
    /\ ipc = [p \in Interrupters |-> "idle"]
    /\ activeKey = DefaultKey
    /\ conv = [k \in Keys |-> <<>>]
    /\ failures = [k \in Keys |-> FALSE]
    /\ queue = <<>>
    /\ posting = NoInput
    /\ restoring = NoKey
    /\ dangling = FALSE
    /\ used = {}
    /\ owner = [i \in Inputs |-> NoKey]
    /\ asked = [t \in Threads |-> "no"]
    /\ accepted = <<>>
    /\ consumed = <<>>

-----------------------------------------------------------------------------
(* A run entry point, step by step on its host thread.                     *)

\* HandleTurnGuard::claim -> try_begin_turn: registers a fresh RunState and
\* binds the session to the thread.  A blocked claim returns ALREADY_RUNNING
\* and changes nothing.
TryBeginTurn(t, k, i) ==
    /\ pc[t] = "idle"
    /\ i \notin used
    /\ ~Blocked(k)
    /\ MayRun(k)
    /\ activeRuns' = activeRuns \cup {k}
    /\ token' = [token EXCEPT ![k] = FALSE]
    /\ key' = [key EXCEPT ![t] = k]
    /\ bound' = [bound EXCEPT ![t] = k]
    /\ input' = [input EXCEPT ![t] = i]
    /\ outcome' = [outcome EXCEPT ![t] = "none"]
    /\ used' = used \cup {i}
    /\ owner' = [owner EXCEPT ![i] = k]
    /\ asked' = [asked EXCEPT ![t] = "no"]
    /\ pc' = [pc EXCEPT ![t] = "claimed"]
    /\ UNCHANGED <<turnBegin, sentLen, msgs, iterations, concurrent,
                   interruptVars, sessionVars, queueVars>>

\* The keyed entry points publish the session (set_active_session); the
\* unkeyed ones run on "" and publish nothing.
SetActiveSession(t) ==
    /\ pc[t] = "claimed"
    /\ \/ activeKey' = key[t] /\ bound' = [bound EXCEPT ![t] = key[t]]
       \/ key[t] = DefaultKey /\ UNCHANGED <<activeKey, bound>>
    /\ pc' = [pc EXCEPT ![t] = "bound"]
    /\ UNCHANGED <<key, input, turnBegin, sentLen, msgs, iterations, outcome,
                   registryVars, interruptVars, conv, failures, restoring,
                   dangling, queueVars, ghostVars>>

\* entropic_run_as with an unknown tier returns after the claim.
RefuseTier(t) ==
    /\ pc[t] = "claimed"
    /\ pc' = [pc EXCEPT ![t] = "done"]
    /\ outcome' = [outcome EXCEPT ![t] = "refused"]
    /\ UNCHANGED <<key, bound, input, turnBegin, sentLen, msgs, iterations,
                   registryVars, interruptVars, sessionVars, queueVars,
                   ghostVars>>

\* entropic_run_batch claims "" and decodes its prompts; no conversation, no
\* reset_interrupt.
RunBatch(t) ==
    /\ "batch" \in ApiOps
    /\ \/ pc[t] = "claimed" /\ key[t] = DefaultKey
          /\ pc' = [pc EXCEPT ![t] = "batch"]
          /\ UNCHANGED outcome
       \/ pc[t] = "batch"
          /\ pc' = [pc EXCEPT ![t] = "done"]
          /\ outcome' = [outcome EXCEPT ![t] = "batch"]
    /\ UNCHANGED <<key, bound, input, turnBegin, sentLen, msgs, iterations,
                   registryVars, interruptVars, sessionVars, queueVars,
                   ghostVars>>

\* run_turn: the system prompt, if there is one, goes first into an empty
\* conversation.
SeededNever(s) == s
Seeded(s) == IF s = <<>> /\ HasPrompt THEN <<System>> ELSE s

SeedSystemPrompt(t) ==
    /\ pc[t] = "bound"
    /\ conv' = [conv EXCEPT ![ActiveSessionKey(t)] = Seeded(@)]
    /\ pc' = [pc EXCEPT ![t] = "seeded"]
    /\ UNCHANGED <<key, bound, input, turnBegin, sentLen, msgs, iterations,
                   outcome, registryVars, interruptVars, activeKey, failures,
                   restoring, dangling, queueVars, ghostVars>>

\* run_drain_loop's head: push the user message and hand run() a copy.
BeginTurn(t) ==
    LET k == ActiveSessionKey(t)
        sent == Append(conv[k], UserMsg(input[t]))
    IN  /\ pc[t] = "seeded"
        /\ turnBegin' = [turnBegin EXCEPT ![t] = Len(conv[k])]
        /\ sentLen' = [sentLen EXCEPT ![t] = Len(sent)]
        /\ conv' = [conv EXCEPT ![k] = sent]
        /\ msgs' = [msgs EXCEPT ![t] = sent]
        /\ iterations' = [iterations EXCEPT ![t] = 0]
        /\ asked' = [asked EXCEPT ![t] = "no"]
        /\ pc' = [pc EXCEPT ![t] = "starting"]
        /\ UNCHANGED <<key, bound, input, outcome, registryVars,
                       interruptVars, activeKey, failures, restoring,
                       dangling, queueVars, used, owner>>

\* reset_interrupt, first half: the handle flag and this run's own token.
ResetFlags(t) ==
    /\ pc[t] = "starting"
    /\ interruptFlag' = FlagAfterReset
    /\ token' = [token EXCEPT ![key[t]] = FALSE]
    /\ pc' = [pc EXCEPT ![t] = "resetting"]
    /\ UNCHANGED <<key, bound, input, turnBegin, sentLen, msgs, iterations,
                   outcome, activeRuns, concurrent, extLatch, ipc,
                   sessionVars, queueVars, ghostVars>>

\* reset_interrupt, second half: external_reset_cb_ reopens the transports.
ResetExternal(t) ==
    /\ pc[t] = "resetting"
    /\ extLatch' = FALSE
    /\ pc' = [pc EXCEPT ![t] = "loop"]
    /\ UNCHANGED <<key, bound, input, turnBegin, sentLen, msgs, iterations,
                   outcome, registryVars, interruptFlag, ipc, sessionVars,
                   queueVars, ghostVars>>

\* loop() returned in state o; accumulate_run_metrics records the failure.
EndLoop(t, o) ==
    /\ outcome' = [outcome EXCEPT ![t] = o]
    /\ failures' = [failures EXCEPT ![ActiveSessionKey(t)] =
                        TurnFailure(ActiveSessionKey(t), o)]
    /\ pc' = [pc EXCEPT ![t] = "settle"]

\* The part of execute_iteration every way through it has: compaction, and
\* what is said in this iteration.
Iteration(t, said) ==
    /\ pc[t] = "loop"
    /\ ~AtCap(t)
    /\ iterations' = [iterations EXCEPT ![t] = @ + 1]
    /\ msgs' = [msgs EXCEPT ![t] = CheckAndCompact(@) \o said]
    /\ UNCHANGED <<key, bound, input, turnBegin, sentLen, registryVars,
                   interruptVars, activeKey, conv, restoring, dangling,
                   queueVars, ghostVars>>

\* process_generation_result: the model's message, and perhaps one of the
\* engine's behind it, after a final answer as well (charge_thinking_budget).
Answers(i) ==
    {<<Reply(i)>>} \cup (IF EngineNotes THEN {<<Reply(i), Note(i)>>} ELSE {})

\* The iteration's verdict: go on, or COMPLETE or ERROR.
Iterate(t) ==
    /\ ~RunInterrupted(t)
    /\ \E said \in Answers(input[t]) : Iteration(t, said)
    /\ \/ UNCHANGED <<pc, outcome, failures>>
       \/ \E o \in {"COMPLETE", "ERROR"} : EndLoop(t, o)

\* A PRE_GENERATE hook cancels: COMPLETE, and nothing was said.
CancelGenerate(t) ==
    /\ ~RunInterrupted(t)
    /\ Iteration(t, <<>>)
    /\ EndLoop(t, "COMPLETE")

\* hard_cut_budget, after an iteration that was nudged: the reply, and a
\* synthetic one behind it.
HardCut(t) ==
    /\ EngineNotes
    /\ iterations[t] > 0
    /\ ~RunInterrupted(t)
    /\ Iteration(t, <<Reply(input[t]), Reply(input[t])>>)
    /\ EndLoop(t, "COMPLETE")

\* should_stop's limit on duplicate tool calls: the loop ends with iterations
\* left and a state that is not terminal.
StopStuck(t) ==
    /\ EngineNotes
    /\ ~RunInterrupted(t)
    /\ iterations[t] + 1 < MaxIterations
    /\ Iteration(t, <<Reply(input[t]), Note(input[t])>>)
    /\ EndLoop(t, "EXECUTING")

\* The interrupt is seen at the top of loop() ...
StopInterrupted(t) ==
    /\ pc[t] = "loop"
    /\ ~AtCap(t)
    /\ RunInterrupted(t)
    /\ iterations' = [iterations EXCEPT ![t] = @ + 1]
    /\ EndLoop(t, "INTERRUPTED")
    /\ UNCHANGED <<key, bound, input, turnBegin, sentLen, msgs, registryVars,
                   interruptVars, activeKey, conv, restoring, dangling,
                   queueVars, ghostVars>>

\* ... or by the decode, which then returns its partial content with
\* finish_reason "interrupted", or between its tool calls.
StopGenerating(t) ==
    /\ RunInterrupted(t)
    /\ \E said \in Answers(input[t]) : Iteration(t, said)
    /\ EndLoop(t, "INTERRUPTED")

\* force_iteration_cap_completion: a synthetic reply and COMPLETE.
CapIterations(t) ==
    /\ pc[t] = "loop"
    /\ AtCap(t)
    /\ msgs' = [msgs EXCEPT ![t] = Append(@, Reply(input[t]))]
    /\ EndLoop(t, "COMPLETE")
    /\ UNCHANGED <<key, bound, input, turnBegin, sentLen, iterations,
                   registryVars, interruptVars, activeKey, conv, restoring,
                   dangling, queueVars, ghostVars>>

\* The locals of run_drain_loop's body end with it.
LeaveBody(t) ==
    /\ turnBegin' = [turnBegin EXCEPT ![t] = 0]
    /\ sentLen' = [sentLen EXCEPT ![t] = 0]
    /\ msgs' = [msgs EXCEPT ![t] = <<>>]
    /\ iterations' = [iterations EXCEPT ![t] = 0]

\* An exception leaves run(): neither settle_turn nor turn_failures_ is
\* reached, and the entry point returns GENERATE_FAILED.
Throw(t) ==
    /\ pc[t] = "loop"
    /\ outcome' = [outcome EXCEPT ![t] = "thrown"]
    /\ pc' = [pc EXCEPT ![t] = "done"]
    /\ LeaveBody(t)
    /\ UNCHANGED <<key, bound, input, registryVars, interruptVars,
                   sessionVars, queueVars, ghostVars>>

\* settle_turn's effect on conversation k: a failed turn is rolled back to
\* turn_begin; any other turn's messages past sent_len are appended.
Rollback(t, k) ==
    SubSeq(conv[k], 1, IF turnBegin[t] < Len(conv[k]) THEN turnBegin[t]
                       ELSE Len(conv[k]))
KeepFrom(t, k, n) == conv[k] \o SubSeq(msgs[t], n, Len(msgs[t]))
SettledOffByOne(t, k) ==
    IF failures[k] THEN Rollback(t, k) ELSE KeepFrom(t, k, sentLen[t] + 2)
SettledWithoutRollback(t, k) == KeepFrom(t, k, sentLen[t] + 1)
Settled(t, k) ==
    IF failures[k] THEN Rollback(t, k) ELSE KeepFrom(t, k, sentLen[t] + 1)

SettleTurn(t) ==
    LET k == ActiveSessionKey(t)
    IN  /\ pc[t] = "settle"
        /\ conv' = [conv EXCEPT ![k] = Settled(t, k)]
        /\ pc' = [pc EXCEPT ![t] = IF failures[k] THEN "done" ELSE "drain"]
        /\ LeaveBody(t)
        /\ UNCHANGED <<key, bound, input, outcome, registryVars,
                       interruptVars, activeKey, failures, restoring,
                       dangling, queueVars, ghostVars>>

\* pop_queued_user_message: the head of the queue becomes the next turn.
QueueAfterPop == Tail(queue)

Drain(t) ==
    /\ pc[t] = "drain"
    /\ IF queue = <<>>
       THEN /\ pc' = [pc EXCEPT ![t] = "done"]
            /\ UNCHANGED <<input, owner, queue, consumed>>
       ELSE /\ input' = [input EXCEPT ![t] = Head(queue)]
            /\ owner' = [owner EXCEPT ![Head(queue)] = key[t]]
            /\ queue' = QueueAfterPop
            /\ consumed' = Append(consumed, Head(queue))
            /\ pc' = [pc EXCEPT ![t] = "seeded"]
    /\ UNCHANGED <<key, bound, turnBegin, sentLen, msgs, iterations, outcome,
                   registryVars, interruptVars, sessionVars, posting,
                   accepted, used, asked>>

\* ~HandleTurnGuard -> end_turn(key): the claim, its RunState and the binding
\* go together, and the call's locals with them.
EndTurn(t) ==
    /\ pc[t] = "done"
    /\ activeRuns' = activeRuns \ {key[t]}
    /\ token' = [token EXCEPT ![key[t]] = FALSE]
    /\ bound' = [bound EXCEPT ![t] = NoKey]
    /\ key' = [key EXCEPT ![t] = DefaultKey]
    /\ input' = [input EXCEPT ![t] = NoInput]
    /\ outcome' = [outcome EXCEPT ![t] = "none"]
    /\ asked' = [asked EXCEPT ![t] = "no"]
    /\ pc' = [pc EXCEPT ![t] = "idle"]
    /\ UNCHANGED <<turnBegin, sentLen, msgs, iterations, concurrent,
                   interruptVars, sessionVars, queueVars, used, owner>>

-----------------------------------------------------------------------------
(* Interrupts, from other host threads.                                    *)

\* History of requests.  A turn past its reset owes the host a stop once its
\* token is set; any other request may stop a turn but need not.
Owes(t) == pc[t] \in {"resetting", "loop"}
Noted(t) == IF asked[t] = "no" /\ pc[t] # "idle" THEN "noted" ELSE asked[t]
AskRuns(T) == asked' = [t \in Threads |->
                           IF t \in T /\ Owes(t) THEN "owed"
                           ELSE IF t \in T THEN Noted(t) ELSE asked[t]]

\* interrupt(), step 1: under runs_mutex_, flag every run in flight.
InterruptFanOut(p) ==
    /\ "interrupt" \in ApiOps
    /\ ipc[p] = "idle"
    /\ token' = [k \in Keys |-> FannedOut(k)]
    /\ AskRuns(Threads)
    /\ ipc' = [ipc EXCEPT ![p] = "fanned"]
    /\ UNCHANGED <<runVars, activeRuns, concurrent, interruptFlag, extLatch,
                   sessionVars, queueVars, used, owner>>

\* interrupt(), step 2: interrupt_flag_.exchange(true).
InterruptExchange(p) ==
    /\ ipc[p] = "fanned"
    /\ interruptFlag' = TRUE
    /\ asked' = [t \in Threads |-> Noted(t)]
    /\ ipc' = [ipc EXCEPT ![p] = IF interruptFlag THEN "idle" ELSE "latch"]
    /\ UNCHANGED <<runVars, registryVars, extLatch, sessionVars, queueVars,
                   used, owner>>

\* interrupt(), step 3: external_interrupt_cb_, on the 0 -> 1 edge only.
InterruptLatch(p) ==
    /\ ipc[p] = "latch"
    /\ extLatch' = TRUE
    /\ ipc' = [ipc EXCEPT ![p] = "idle"]
    /\ UNCHANGED <<runVars, registryVars, interruptFlag, sessionVars,
                   queueVars, ghostVars>>

\* entropic_interrupt_session on a session with a run in flight.
InterruptSession(k) ==
    /\ "interrupt_session" \in ApiOps
    /\ k \in activeRuns
    /\ token' = [token EXCEPT ![k] = TRUE]
    /\ AskRuns({t \in Threads : key[t] = k})
    /\ UNCHANGED <<runVars, activeRuns, concurrent, interruptVars,
                   sessionVars, queueVars, used, owner>>

\* A streaming consumer's cancel flag, seen by on_stream_chunk on the run's
\* own thread: cancel_current_run.
CancelCurrentRun(t) ==
    /\ "cancel" \in ApiOps
    /\ pc[t] = "loop"
    /\ token' = [token EXCEPT ![key[t]] = TRUE]
    /\ AskRuns({t})
    /\ UNCHANGED <<runVars, activeRuns, concurrent, interruptVars,
                   sessionVars, queueVars, used, owner>>

-----------------------------------------------------------------------------
(* The user message queue, from other host threads.                        *)

\* entropic_queue_user_message: is_running() is read first ...
QueueCheck(i) ==
    /\ "queue" \in ApiOps
    /\ posting = NoInput
    /\ i \notin used
    /\ activeRuns # {}
    /\ posting' = i
    /\ used' = used \cup {i}
    /\ UNCHANGED <<runVars, registryVars, interruptVars, sessionVars, queue,
                   accepted, consumed, owner, asked>>

\* ... and queue_user_message pushes, or refuses when the queue is full.
QueuePushedFront == <<posting>> \o queue
QueueAfterPush == Append(queue, posting)

QueuePush ==
    /\ posting # NoInput
    /\ posting' = NoInput
    /\ IF Len(queue) >= QueueCap
       THEN UNCHANGED <<queue, accepted>>
       ELSE /\ queue' = QueueAfterPush
            /\ accepted' = Append(accepted, posting)
    /\ UNCHANGED <<runVars, registryVars, interruptVars, sessionVars,
                   consumed, ghostVars>>

\* entropic_clear_user_message_queue.
ClearQueue ==
    /\ "queue" \in ApiOps
    /\ queue # <<>>
    /\ queue' = <<>>
    /\ accepted' = consumed
    /\ UNCHANGED <<runVars, registryVars, interruptVars, sessionVars, posting,
                   consumed, ghostVars>>

-----------------------------------------------------------------------------
(* Session management, under api_mutex (which no run entry point takes).   *)

\* entropic_session_context_clear(k); entropic_context_clear is the same on
\* the handle's active session.
ClearConversation(k) ==
    /\ "clear" \in ApiOps
    /\ restoring = NoKey
    /\ MayManage(k)
    /\ conv' = [conv EXCEPT ![k] = <<>>]
    /\ UNCHANGED <<runVars, registryVars, interruptVars, activeKey, failures,
                   restoring, dangling, queueVars, ghostVars>>

\* entropic_session_drop: the default session is cleared, any other entry is
\* erased, whoever holds a reference to it.
DropSession(k) ==
    /\ "drop" \in ApiOps
    /\ restoring = NoKey
    /\ MayManage(k)
    /\ conv' = [conv EXCEPT ![k] = <<>>]
    /\ dangling' = (dangling \/ /\ k # DefaultKey
                                /\ \E t \in Threads :
                                      pc[t] \in InTurn /\ key[t] = k)
    /\ UNCHANGED <<runVars, registryVars, interruptVars, activeKey, failures,
                   restoring, queueVars, ghostVars>>

\* set_session_messages: refuses a key with a run in flight, then unlocks ...
RestoreCheck(k) ==
    /\ "restore" \in ApiOps
    /\ k \in RestoreKeys
    /\ restoring = NoKey
    /\ k \notin activeRuns
    /\ restoring' = k
    /\ UNCHANGED <<runVars, registryVars, interruptVars, activeKey, conv,
                   failures, dangling, queueVars, ghostVars>>

\* ... and replaces the conversation under conversations_mutex_.
RestoreSwap ==
    /\ restoring # NoKey
    /\ conv' = [conv EXCEPT ![restoring] = RestoredHistory]
    /\ restoring' = NoKey
    /\ UNCHANGED <<runVars, registryVars, interruptVars, activeKey, failures,
                   dangling, queueVars, ghostVars>>

-----------------------------------------------------------------------------
RunStep(t) ==
    \/ SetActiveSession(t) \/ RefuseTier(t) \/ RunBatch(t)
    \/ SeedSystemPrompt(t) \/ BeginTurn(t) \/ ResetFlags(t)
    \/ ResetExternal(t) \/ Iterate(t) \/ CancelGenerate(t) \/ HardCut(t)
    \/ StopStuck(t) \/ StopInterrupted(t) \/ StopGenerating(t)
    \/ CapIterations(t) \/ Throw(t) \/ SettleTurn(t) \/ Drain(t)
    \/ EndTurn(t)

InterruptStep(p) == InterruptExchange(p) \/ InterruptLatch(p)

Next ==
    \/ \E t \in Threads, k \in Keys, i \in Inputs : TryBeginTurn(t, k, i)
    \/ \E t \in Threads : RunStep(t) \/ CancelCurrentRun(t)
    \/ \E p \in Interrupters : InterruptFanOut(p) \/ InterruptStep(p)
    \/ \E k \in Keys : \/ InterruptSession(k) \/ ClearConversation(k)
                       \/ DropSession(k) \/ RestoreCheck(k)
    \/ \E i \in Inputs : QueueCheck(i)
    \/ QueuePush \/ ClearQueue \/ RestoreSwap

Spec == Init /\ [][Next]_vars

-----------------------------------------------------------------------------
(* Properties.                                                             *)

\* Every variable keeps its type; the bounds are the code's own: a loop never
\* counts past max_iterations and the queue never past its capacity.
TypeOK ==
    /\ pc \in [Threads -> Running \cup {"idle"}]
    /\ key \in [Threads -> Keys]
    /\ bound \in [Threads -> KeyOrNone]
    /\ input \in [Threads -> Inputs \cup {NoInput}]
    /\ turnBegin \in [Threads -> Nat]
    /\ sentLen \in [Threads -> Nat]
    /\ msgs \in [Threads -> Seq(Message)]
    /\ iterations \in [Threads -> 0..MaxIterations]
    /\ outcome \in [Threads -> {"none", "COMPLETE", "INTERRUPTED", "ERROR",
                                "EXECUTING", "thrown", "refused", "batch"}]
    /\ activeRuns \in SUBSET Keys
    /\ token \in [Keys -> BOOLEAN]
    /\ concurrent \in BOOLEAN
    /\ interruptFlag \in BOOLEAN
    /\ extLatch \in BOOLEAN
    /\ ipc \in [Interrupters -> {"idle", "fanned", "latch"}]
    /\ activeKey \in Keys
    /\ conv \in [Keys -> Seq(Message)]
    /\ failures \in [Keys -> BOOLEAN]
    /\ queue \in Seq(Inputs) /\ Len(queue) <= QueueCap
    /\ posting \in Inputs \cup {NoInput}
    /\ restoring \in KeyOrNone
    /\ dangling \in BOOLEAN
    /\ used \in SUBSET Inputs
    /\ owner \in [Inputs -> KeyOrNone]
    /\ asked \in [Threads -> {"no", "noted", "owed"}]
    /\ accepted \in Seq(Inputs)
    /\ consumed \in Seq(Inputs)

\* Two host threads never have a turn in flight on the same session, and with
\* concurrent_sessions off never two turns at all (REQ-LOOP-009).
TurnExclusion ==
    \A t, u \in Threads :
        t # u /\ pc[t] # "idle" /\ pc[u] # "idle"
            => concurrent /\ key[t] # key[u]

\* A run ends INTERRUPTED only if somebody asked for that during this turn:
\* no flag, token or latch left over from an earlier turn, or aimed at
\* another session, stops it (reset_interrupt, gh#150 and gh#158).
InterruptHasCause ==
    \A t \in Threads :
        pc[t] = "settle" /\ outcome[t] = "INTERRUPTED" => asked[t] # "no"

\* A run whose token was set while its loop was running starts no further
\* iteration, whatever other sessions start, end or reset meanwhile.
StopWhenAsked ==
    [][\A t \in Threads :
          asked[t] = "owed" /\ iterations'[t] = iterations[t] + 1
              => outcome'[t] = "INTERRUPTED"]_vars

\* What turn_outcome and settle_turn read in turn_failures_ is how this very
\* turn ended, not what an earlier turn or another session left there.
OutcomeMatchesTurn ==
    \A t \in Threads :
        /\ pc[t] \in {"settle", "drain", "done"}
        /\ outcome[t] \in {"COMPLETE", "INTERRUPTED", "ERROR", "EXECUTING"}
        => (failures[ActiveSessionKey(t)] <=> outcome[t] = "ERROR")

\* Every message of a conversation belongs to a turn run on that session.
SessionIsolation ==
    \A k \in Keys : \A n \in 1..Len(conv[k]) :
        conv[k][n].of # NoInput => owner[conv[k][n].of] = k

\* Every prompt starts with the system prompt, if the handle has one, or with
\* the restored history.
SystemPromptFirst ==
    \A t \in Threads :
        HasPrompt /\ pc[t] = "starting" => msgs[t][1].role \in {"system", "restored"}

\* The queue neither loses, repeats nor reorders a message it accepted.
QueueConserved == accepted = consumed \o queue

\* What a turn leaves behind, unless it failed: the whole history as the run
\* saw it, its own messages in order after everything before it, whoever else
\* ran, queued or interrupted meanwhile (entropic_context_get returns "the full
\* message history").  A run whose context was compacted may store less, but
\* only messages of its own, behind everything that was stored before.
Compacted(t) == \E n \in 1..Len(msgs[t]) : msgs[t][n] = Summary

AddsOnlyOf(i, old, new) ==
    /\ Len(old) <= Len(new) /\ SubSeq(new, 1, Len(old)) = old
    /\ \A n \in Len(old) + 1..Len(new) : new[n].of = i

TurnKept ==
    [][\A t \in Threads :
          pc[t] = "settle" /\ pc'[t] = "drain" =>
              IF Compacted(t)
              THEN AddsOnlyOf(input[t], conv[key[t]], conv'[key[t]])
              ELSE conv'[key[t]] = msgs[t]]_vars

\* The last reply of a completed turn is among what is stored, compacted or
\* not.  The code does not keep it; see the README's known disagreements.
ReplyKept ==
    [][\A t \in Threads :
          /\ pc[t] = "settle" /\ pc'[t] = "drain"
          /\ Reply(input[t]) \in {msgs[t][n] : n \in 1..Len(msgs[t])}
          => Reply(input[t]) \in {conv'[key[t]][n] : n \in 1..Len(conv'[key[t]])}]_vars

\* A queued message is taken up only when the turn before it reached COMPLETE
\* (entropic_queue_user_message: "drain triggers only at top-level COMPLETE").
\* The code does not keep it; see the README's known disagreements.
DrainOnlyAtComplete ==
    [][\A t \in Threads :
          pc[t] = "drain" /\ pc'[t] = "seeded" => outcome[t] = "COMPLETE"]_vars

\* session_context_set never replaces the conversation of a running turn.
\* The code does not keep it; see the README's known disagreements.
RestoreOnlyIdle ==
    [][\A k \in Keys :
          restoring = k /\ restoring' = NoKey => k \notin activeRuns]_vars

\* With no interrupt() or reset in progress, a run that is not interrupted
\* finds the external transports open: reset_interrupt "releases what
\* interrupt() suppressed".
\* The code does not keep it; see the README's known disagreements.
TransportsOpen ==
    (/\ \A p \in Interrupters : ipc[p] = "idle"
     /\ \A t \in Threads : pc[t] # "resetting")
    => \A t \in Threads :
          pc[t] = "loop" /\ ~RunInterrupted(t) => ~extLatch

\* The reference a turn holds to its conversation stays valid until the turn
\* is settled (active_conversation: "this reference is always valid").
\* The code does not keep it; see the README's known disagreements.
ReferenceValid == ~dangling

-----------------------------------------------------------------------------
(* The refinement mapping to SessionHistory: a conversation without the    *)
(* turn in flight on it.                                                   *)

Settling(k) == {t \in Threads : pc[t] \in InTurn /\ key[t] = k}

Committed(k) ==
    IF Settling(k) = {} THEN conv[k]
    ELSE SubSeq(conv[k], 1, turnBegin[CHOOSE t \in Settling(k) : TRUE])

\* A turn that ended in ERROR and is not yet settled.
Failing(k) ==
    \E t \in Threads : pc[t] = "settle" /\ key[t] = k /\ outcome[t] = "ERROR"

History == INSTANCE SessionHistory
    WITH hist <- [k \in Keys |-> Committed(k)],
         busy <- activeRuns,
         failed <- {k \in Keys : Failing(k)}

\* Stored conversations behave as SessionHistory promises: whole turns only,
\* a failed turn leaves no trace, sessions are wiped or restored when idle
\* (run_drain_loop, settle_turn, the session_* calls).
HistorySpec == History!Spec
=============================================================================
