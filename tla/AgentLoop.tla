----------------------------- MODULE AgentLoop -----------------------------
(***************************************************************************)
(* The agentic loop of one run and the child loops it delegates to.  A     *)
(* delegation runs synchronously inside its parent's iteration, so a run   *)
(* is a stack of loop contexts of which the topmost moves.                 *)
(*                                                                         *)
(* Source: src/core/engine.cpp (loop, decision, directives, delegation     *)
(* dispatch), src/core/delegation.cpp (child contexts and results),        *)
(* src/mcp/tool_executor.cpp (the tool batch).                             *)
(*                                                                         *)
(* What the model writes is nondeterministic: it answers or calls tools,   *)
(* and every tool call may be denied, fail or succeed.  Message text is    *)
(* left out.                                                               *)
(***************************************************************************)
EXTENDS Naturals, Sequences, FiniteSets

CONSTANTS
    Tiers,           \* identities a loop can be locked to
    Roots,           \* tiers the router gives a run
    Explicit,        \* tiers with explicit_completion
    Relay,           \* tiers with relay_single_delegate
    AutoChained,     \* tiers with an auto_chain target
    ChainTarget,     \* that target
    Tools,           \* the tools the model may call
    Turns,           \* bound: the max_turns a call may ask for, 0 for none
    MaxIterations,   \* LoopConfig::max_iterations
    MaxCalls,        \* LoopConfig::max_tool_calls_per_turn
    MaxEmptyTurns,   \* max_consecutive_empty_turns
    MaxFailed,       \* max_consecutive_failed_delegations
    HardBlock,       \* effective_hard_block_threshold()
    MaxStages,       \* bound: stages in a pipeline
    Budgeted,        \* is budget_mode on?
    NoTier           \* the empty tier name

MaxDepth == 2        \* AgentEngine::MAX_DELEGATION_DEPTH
MaxDuplicates == 3   \* should_stop's limit on consecutive duplicates
LateBound == 1       \* bound: late counts to one past it

ASSUME LoopAssumption ==
    /\ Roots \subseteq Tiers
    /\ Explicit \subseteq Tiers /\ Relay \subseteq Tiers
    /\ AutoChained \subseteq Tiers /\ ChainTarget \in Tiers
    /\ NoTier \notin Tiers
    /\ Tools \subseteq {"plain", "complete", "delegate", "resume", "pipeline"}
    /\ Turns \subseteq Nat
    /\ MaxIterations \in Nat \ {0}
    /\ MaxCalls \in Nat \ {0}
    /\ {MaxEmptyTurns, MaxFailed, HardBlock, MaxStages} \subseteq Nat
    /\ Budgeted \in BOOLEAN

VARIABLES
    stack,       \* the loop contexts of the run, root first; <<>> between runs
    interrupted, \* run_interrupted() on the run's thread
    asked,       \* history: this run was asked to stop
    late         \* history: generations ended since then

vars == <<stack, interrupted, asked, late>>

Terminal == {"COMPLETE", "ERROR", "INTERRUPTED"}
States == Terminal \cup {"PLANNING", "EXECUTING", "WAITING_TOOL", "DELEGATING"}

\* A delegation waiting for dispatch: target is what the directive named, of
\* is the tier storage recorded for a resumed one.
NoPending == [kind |-> "none", target |-> NoTier, of |-> NoTier, turns |-> 0,
              stages |-> <<>>]

NewContext(tier, anc, limit) ==
    [tier |-> tier,             \* locked_tier
     ancestors |-> anc,         \* delegation_ancestor_tiers
     limit |-> limit,           \* resolve_max_iterations
     at |-> "top",              \* control point in loop()
     state |-> "PLANNING",
     iterations |-> 0,
     emptyTurns |-> 0,          \* metadata zero_tool_call_retries
     duplicates |-> 0,          \* consecutive_duplicate_attempts
     seen |-> {},               \* recent_tool_calls
     lastTool |-> "none",       \* last_tool_name
     sameTool |-> 0,            \* consecutive_same_tool_calls
     nudged |-> FALSE,          \* budget_completion_nudged
     calls |-> <<>>,            \* the rest of the tool batch
     progress |-> FALSE,        \* made_progress
     pending |-> NoPending,     \* pending_delegation / pending_pipeline
     failedTarget |-> NoTier,   \* last_failed_delegation_target
     failed |-> 0,              \* consecutive_failed_delegations
     cut |-> FALSE,             \* metadata terminal_reason is set
     gap |-> FALSE,             \* metadata coverage_gap
     via |-> "none"]            \* history: what made the state COMPLETE

Depth == Len(stack) - 1
Top == stack[Len(stack)]
SetTop(c) == [stack EXCEPT ![Len(stack)] = c]
At(p) == stack # <<>> /\ Top.at = p

Complete(c, via) == [c EXCEPT !.state = "COMPLETE", !.via = via]

-----------------------------------------------------------------------------
(* The head of loop().                                                     *)

AtLimitLate(c) == c.iterations > c.limit \/ c.duplicates >= MaxDuplicates
AtLimit(c) == c.iterations >= c.limit \/ c.duplicates >= MaxDuplicates
ShouldStop(c) == c.state \in Terminal \/ AtLimit(c)

\* run(): a fresh context, reset_interrupt, PLANNING.
BeginRun(tier) ==
    /\ stack = <<>>
    /\ stack' = <<NewContext(tier, {}, MaxIterations)>>
    /\ interrupted' = FALSE
    /\ asked' = FALSE
    /\ late' = 0

\* The loop ends; at the iteration cap without a terminal state the engine
\* forces a synthetic completion (finish_with_carried_output).
EndLoop ==
    /\ At("top")
    /\ ShouldStop(Top)
    /\ stack' = SetTop(IF Top.iterations >= Top.limit /\ Top.state \notin Terminal
                       THEN [Complete(Top, "cap") EXCEPT !.at = "end", !.cut = TRUE]
                       ELSE [Top EXCEPT !.at = "end"])
    /\ UNCHANGED <<interrupted, asked, late>>

StopInterrupted ==
    /\ At("top")
    /\ ~ShouldStop(Top)
    /\ interrupted
    /\ stack' = SetTop([Top EXCEPT !.iterations = @ + 1, !.at = "end",
                                   !.state = "INTERRUPTED"])
    /\ UNCHANGED <<interrupted, asked, late>>

\* execute_iteration up to the generation; a PRE_GENERATE hook may cancel it.
StartIteration ==
    /\ At("top")
    /\ ~ShouldStop(Top)
    /\ ~interrupted
    /\ LET c == [Top EXCEPT !.iterations = @ + 1, !.state = "EXECUTING"]
       IN  \/ stack' = SetTop([c EXCEPT !.at = "generate"])
           \/ stack' = SetTop(Complete(c, "hook"))
    /\ UNCHANGED <<interrupted, asked, late>>

-----------------------------------------------------------------------------
(* The generation and what follows from it.                                *)

\* sort_tool_calls moves the delegate calls behind the others and
\* truncate_to_limit cuts the list: any batch so ordered may be left.
DelegateLast(b) ==
    \A m, n \in DOMAIN b : m < n /\ b[m] = "delegate" => b[n] = "delegate"
Batches == {b \in UNION {[1..n -> Tools] : n \in 1..MaxCalls} : DelegateLast(b)}

LateGeneration == late' = IF asked /\ late <= LateBound THEN late + 1 ELSE late

GenerateToolCalls ==
    /\ At("generate")
    /\ \E b \in Batches :
          stack' = SetTop([Top EXCEPT !.calls = b, !.at = "tools",
                                      !.state = "WAITING_TOOL"])
    /\ LateGeneration
    /\ UNCHANGED <<interrupted, asked>>

\* charge_thinking_budget, on to the dispatch: progress closes the window; a
\* spent budget nudges once and then cuts the turn.
Charged(c, progress) ==
    LET d == [c EXCEPT !.at = "dispatch"]
    IN  CASE ~Budgeted -> {d}
          [] Budgeted /\ progress -> {[d EXCEPT !.nudged = FALSE]}
          [] OTHER -> {d, IF d.nudged
                          THEN [Complete(d, "budget") EXCEPT !.cut = TRUE]
                          ELSE [d EXCEPT !.nudged = TRUE]}

\* record_explicit_completion_failure.
EmptyTurn(c) ==
    IF c.emptyTurns >= MaxEmptyTurns THEN [c EXCEPT !.state = "ERROR"]
    ELSE [c EXCEPT !.emptyTurns = @ + 1, !.state = "EXECUTING"]

\* tier_requires_explicit_completion.
RelaxedExplicit(tier) == FALSE
NeedsExplicit(tier) == tier \in Explicit

\* evaluate_no_tool_decision for an answer with no tool call; full tells
\* whether is_response_complete accepts it.
NoToolDecision(c, finish, full) ==
    CASE finish = "interrupted" -> [c EXCEPT !.state = "INTERRUPTED"]
      [] finish = "context_overflow" -> [c EXCEPT !.state = "ERROR"]
      [] finish = "length" -> c
      [] finish = "stop" /\ full /\ c.tier \in AutoChained ->
            IF Depth > 0 THEN Complete(c, "chain")
            ELSE [c EXCEPT !.tier = ChainTarget]
      [] OTHER -> IF NeedsExplicit(c.tier) THEN EmptyTurn(c)
                  ELSE IF full THEN Complete(c, "text") ELSE c

GenerateText ==
    /\ At("generate")
    /\ \E finish \in {"stop", "length", "error", "context_overflow"}
                        \cup (IF interrupted THEN {"interrupted"} ELSE {}),
          full \in BOOLEAN :
          \E c \in Charged(NoToolDecision(Top, finish, full), FALSE) :
             stack' = SetTop(c)
    /\ LateGeneration
    /\ UNCHANGED <<interrupted, asked>>

-----------------------------------------------------------------------------
(* The tool batch.                                                         *)

StopBatch(c) ==
    \/ c.state = "COMPLETE"
    \/ c.pending # NoPending
    \/ c.duplicates >= MaxDuplicates

\* check_anti_spiral_hard_block: the run of one tool this call would make.
Projected(c, t) == IF t = c.lastTool THEN c.sameTool + 1 ELSE 1
Spiral(c, t) == Projected(c, t) >= HardBlock

\* skip_duplicate_check: delegate and pipeline may repeat, so what they
\* returned is not worth remembering.
MayRepeat(t) == t \in {"delegate", "pipeline"}

\* An executed call: update_anti_spiral_tracking, record_tool_call.
Executed(c, t) ==
    [c EXCEPT !.duplicates = 0, !.lastTool = t, !.sameTool = Projected(c, t)]
Succeeded(c, t) ==
    [Executed(c, t) EXCEPT !.progress = TRUE,
                           !.seen = IF MayRepeat(t) THEN @ ELSE @ \cup {t}]

\* The pending action a delegate, resume_delegation or pipeline call queues.
\* A resume by id names any target or none; by target the two agree.
Pendings(t) ==
    CASE t = "delegate" ->
           [kind : {"delegate"}, target : Tiers, of : {NoTier},
            turns : Turns, stages : {<<>>}]
      [] t = "resume" ->
           [kind : {"resume"}, target : Tiers \cup {NoTier}, of : Tiers,
            turns : Turns, stages : {<<>>}]
      [] t = "pipeline" ->
           [kind : {"pipeline"}, target : {NoTier}, of : {NoTier}, turns : {0},
            stages : UNION {[1..n -> Tiers] : n \in 2..MaxStages}]
      [] OTHER -> {}

\* process_single_call on the head of the batch.  A hook, the schema, the
\* key set, the tier's tool list or a failure count may deny it; the spiral
\* block must.
DenyCall ==
    /\ At("tools") /\ Top.calls # <<>> /\ ~StopBatch(Top)
    /\ stack' = SetTop([Top EXCEPT !.calls = Tail(@)])
    /\ UNCHANGED <<interrupted, asked, late>>

RunCall ==
    /\ At("tools") /\ Top.calls # <<>> /\ ~StopBatch(Top)
    /\ LET t == Head(Top.calls)
           c == [Top EXCEPT !.calls = Tail(@)]
       IN  /\ ~Spiral(c, t)
           /\ \/ t \in c.seen
                 /\ stack' = SetTop([c EXCEPT !.duplicates = @ + 1])
              \/ stack' = SetTop([c EXCEPT !.duplicates = 0])
              \/ stack' = SetTop(Executed(c, t))
              \/ stack' = SetTop(Succeeded(c, t))
              \/ t = "complete"
                 /\ \E gap \in BOOLEAN :
                       stack' = SetTop([Complete(Succeeded(c, t), "complete")
                                           EXCEPT !.gap = gap])
              \/ \E p \in Pendings(t) :
                    stack' = SetTop([Succeeded(c, t) EXCEPT !.pending = p])
    /\ UNCHANGED <<interrupted, asked, late>>

\* process_tool_results: back to EXECUTING unless a call ended the run.
AlwaysExecuting(c) == "EXECUTING"
StateAfterTools(c) == IF c.state \in Terminal THEN c.state ELSE "EXECUTING"

FinishTools ==
    /\ At("tools") /\ (Top.calls = <<>> \/ StopBatch(Top))
    /\ \E c \in Charged([Top EXCEPT
                           !.calls = <<>>, !.progress = FALSE,
                           !.state = StateAfterTools(Top),
                           !.emptyTurns = IF Top.progress THEN 0 ELSE @],
                        Top.progress) :
          stack' = SetTop(c)
    /\ UNCHANGED <<interrupted, asked, late>>

-----------------------------------------------------------------------------
(* dispatch_pending_or_halt and the guards of a delegation.                *)

\* An iteration that dispatches is not charged to the parent.
AlwaysRefunded(c) == c.iterations - 1
IterationsAfter(c) ==
    IF c.pending.kind = "none" THEN c.iterations ELSE c.iterations - 1

DelegationCycle(c, target) == target = c.tier \/ target \in c.ancestors
RepeatBlocked(c, target) == target = c.failedTarget /\ c.failed >= MaxFailed

\* reject_delegation_if_guarded and reject_pipeline_if_guarded, but for the
\* isolation check, which depends on the tools a server declares.
Guarded(c) ==
    \/ Depth >= MaxDepth
    \/ /\ c.pending.kind # "pipeline"
       /\ \/ DelegationCycle(c, c.pending.target)
          \/ RepeatBlocked(c, c.pending.target)

BackToLoop(c) == [c EXCEPT !.at = "top", !.pending = NoPending]

\* Nothing is dispatched: the interrupt or a terminal state halts the loop, or
\* no call queued a delegation.
Halt ==
    /\ At("dispatch")
    /\ \/ interrupted \/ Top.state \in Terminal \/ Top.pending.kind = "none"
    /\ stack' = SetTop([Top EXCEPT
                    !.at = "top",
                    !.state = IF interrupted /\ @ \notin Terminal
                              THEN "INTERRUPTED" ELSE @,
                    !.iterations = IF interrupted \/ Top.state \in Terminal
                                   THEN @ ELSE IterationsAfter(Top)])
    /\ UNCHANGED <<interrupted, asked, late>>

Dispatching ==
    /\ At("dispatch")
    /\ ~interrupted /\ Top.state \notin Terminal
    /\ Top.pending.kind # "none"

\* The pending delegation or pipeline is refused by a guard or because an
\* isolated target could reach unsafe tools.
RejectPending ==
    /\ Dispatching
    /\ stack' = SetTop([BackToLoop(Top) EXCEPT !.iterations = IterationsAfter(Top)])
    /\ UNCHANGED <<interrupted, asked, late>>

AcceptPending ==
    /\ Dispatching
    /\ ~Guarded(Top)
    /\ stack' = SetTop([Top EXCEPT !.iterations = IterationsAfter(Top),
                                   !.state = "DELEGATING",
                                   !.at = IF Top.pending.kind = "pipeline"
                                          THEN "pipeline" ELSE "delegate"])
    /\ UNCHANGED <<interrupted, asked, late>>

-----------------------------------------------------------------------------
(* execute_pending_delegation past the guards.                             *)

\* The tier that runs: resolve_resume_delegation replaces the named target
\* by the stored one.
RunTarget(p) == IF p.kind = "resume" THEN p.of ELSE p.target

\* min(operator limit, delegated_max_turns).
Limit(turns) == IF turns \in 1..MaxIterations THEN turns ELSE MaxIterations

\* build_child_context.
ParentForgotten(c) == c.ancestors
ChildAncestors(c) == c.ancestors \cup {c.tier}

\* build_resumed_child_context: the chain gets the target, not the parent.
ResumedAncestors(c) == c.ancestors \cup {c.pending.of}

\* run_loop with inherit_interrupt: the child sees the parent's flag.
ResetAtChildStart == FALSE
InterruptAtChildStart == interrupted

Push(child) ==
    /\ stack' = Append(SetTop([Top EXCEPT !.at = "child",
                                 !.pending.target = RunTarget(Top.pending)]),
                       child)
    /\ interrupted' = InterruptAtChildStart
    /\ UNCHANGED <<asked, late>>

\* The resume finds nothing in storage, or an ON_DELEGATE hook cancels.
BlockDelegation ==
    /\ At("delegate")
    /\ stack' = SetTop([BackToLoop(Top) EXCEPT !.state = "EXECUTING"])
    /\ UNCHANGED <<interrupted, asked, late>>

\* A resumed delegation whose stored messages are empty starts afresh.
StartChild ==
    /\ At("delegate")
    /\ LET p == Top.pending
       IN  \/ Push(NewContext(RunTarget(p), ChildAncestors(Top), Limit(p.turns)))
           \/ /\ p.kind = "resume"
              /\ Push(NewContext(RunTarget(p), ResumedAncestors(Top), Limit(p.turns)))

\* The failure streak execute_pending_delegation keeps; it saturates at the
\* value at which it blocks.
Streak(c, target, success) ==
    CASE success -> [c EXCEPT !.failedTarget = NoTier, !.failed = 0]
      [] ~success /\ target = c.failedTarget ->
            [c EXCEPT !.failed = IF @ < MaxFailed THEN @ + 1 ELSE @]
      [] OTHER -> [c EXCEPT !.failedTarget = target, !.failed = 1]

\* finalize_delegation_result.
Finalized(c, success, cut, gap) ==
    IF c.tier \in Relay /\ ~gap /\ (success \/ cut) THEN Complete(c, "relay")
    ELSE IF c.tier \notin Relay /\ success /\ ~NeedsExplicit(c.tier)
         THEN Complete(c, "delegate")
         ELSE [c EXCEPT !.state = "EXECUTING"]

DelegationResult(c, success, cut, gap) ==
    BackToLoop(Finalized(Streak(c, RunTarget(c.pending), success), success, cut, gap))

\* check_delegation_preconditions: an unknown tier, a consumer's refusal or no
\* sandbox is a failed result.
RefuseDelegation ==
    /\ At("delegate")
    /\ stack' = SetTop(DelegationResult(Top, FALSE, FALSE, FALSE))
    /\ UNCHANGED <<interrupted, asked, late>>

\* execute_pipeline: stages run in order; a stage may be an unknown tier, and
\* before the first the consumer may refuse or the sandbox be unavailable.
StartStage ==
    /\ At("pipeline")
    /\ Top.pending.stages # <<>>
    /\ Push(NewContext(Head(Top.pending.stages), ChildAncestors(Top), MaxIterations))

EndPipeline(c) == [BackToLoop(c) EXCEPT !.state = "EXECUTING"]

RefuseStage ==
    /\ At("pipeline")
    /\ stack' = SetTop(EndPipeline(Top))
    /\ UNCHANGED <<interrupted, asked, late>>

-----------------------------------------------------------------------------
(* The end of a loop.                                                      *)

\* build_child_result.
Success(child) == child.state = "COMPLETE" /\ ~child.cut

PopTo(c) ==
    /\ stack' = Append(SubSeq(stack, 1, Len(stack) - 2), c)
    /\ UNCHANGED <<interrupted, asked, late>>

ReturnToDelegation ==
    /\ At("end") /\ Depth > 0
    /\ LET parent == stack[Len(stack) - 1]
       IN  /\ parent.pending.kind # "pipeline"
           /\ PopTo(DelegationResult(parent, Success(Top), Top.cut, Top.gap))

\* run_pipeline_stage: the next stage, unless this one failed or was the last.
ReturnToPipeline ==
    /\ At("end") /\ Depth > 0
    /\ LET parent == stack[Len(stack) - 1]
           rest == Tail(parent.pending.stages)
       IN  /\ parent.pending.kind = "pipeline"
           /\ PopTo(IF Success(Top) /\ rest # <<>>
                    THEN [parent EXCEPT !.at = "pipeline", !.pending.stages = rest]
                    ELSE EndPipeline(parent))

ReturnFromRun ==
    /\ At("end") /\ Depth = 0
    /\ stack' = <<>>
    /\ UNCHANGED <<interrupted, asked, late>>

-----------------------------------------------------------------------------
(* The specification.                                                      *)

\* interrupt() from any thread while the run is under way.
Interrupt ==
    /\ stack # <<>>
    /\ interrupted' = TRUE
    /\ asked' = TRUE
    /\ UNCHANGED <<stack, late>>

Init ==
    /\ stack = <<>>
    /\ interrupted = FALSE
    /\ asked = FALSE
    /\ late = 0

Dispatch == RejectPending \/ AcceptPending

\* The run's own thread.
Step ==
    \/ EndLoop \/ StopInterrupted \/ StartIteration
    \/ GenerateToolCalls \/ GenerateText
    \/ DenyCall \/ RunCall \/ FinishTools
    \/ Halt \/ Dispatch
    \/ BlockDelegation \/ RefuseDelegation \/ StartChild
    \/ StartStage \/ RefuseStage
    \/ ReturnToDelegation \/ ReturnToPipeline \/ ReturnFromRun

Next == Step \/ Interrupt \/ \E tier \in Roots : BeginRun(tier)

\* The thread that runs a turn keeps running, and a generation or a tool call
\* returns; nobody is obliged to interrupt or to start another run.
Spec == Init /\ [][Next]_vars /\ WF_vars(Step)

-----------------------------------------------------------------------------
(* Properties.                                                             *)

ContextType ==
    [tier : Tiers, ancestors : SUBSET Tiers, limit : 1..MaxIterations,
     at : {"top", "generate", "tools", "dispatch", "delegate",
           "pipeline", "child", "end"},
     state : States, iterations : 0..MaxIterations,
     emptyTurns : 0..MaxEmptyTurns, duplicates : 0..MaxDuplicates,
     seen : SUBSET Tools, lastTool : Tools \cup {"none"}, sameTool : Nat,
     nudged : BOOLEAN, calls : Seq(Tools), progress : BOOLEAN,
     pending : [kind : {"none", "delegate", "resume", "pipeline"},
                target : Tiers \cup {NoTier}, of : Tiers \cup {NoTier},
                turns : Nat, stages : Seq(Tiers)],
     failedTarget : Tiers \cup {NoTier}, failed : Nat,
     cut : BOOLEAN, gap : BOOLEAN,
     via : {"none", "hook", "text", "chain", "complete", "budget", "cap",
            "relay", "delegate"}]

\* The contexts are well formed; no loop passes its iteration limit (the
\* refund of dispatch_pending_or_halt never goes below zero) and the stack
\* never grows past MAX_DELEGATION_DEPTH children.
TypeOK ==
    /\ stack \in Seq(ContextType) /\ Len(stack) <= MaxDepth + 1
    /\ \A i \in DOMAIN stack : stack[i].iterations <= stack[i].limit
    /\ interrupted \in BOOLEAN /\ asked \in BOOLEAN
    /\ late \in 0..(LateBound + 1)

\* A loop that reached COMPLETE, ERROR or INTERRUPTED stays there: no later
\* step of its iteration (batch end, dispatch, a child's result) puts
\* it back to work or changes the verdict.  The one exception is the hard
\* budget cut, which sets COMPLETE without looking at the state.
TerminalIsFinal ==
    [][\A i \in DOMAIN stack \cap DOMAIN stack' :
          stack[i].state \in Terminal =>
              stack'[i].state = stack[i].state \/ stack'[i].via = "budget"]_vars

\* Once the run is asked to stop, only the generation in flight may still end,
\* whatever is on the delegation stack or still waits in a pipeline.
LateGenerations == late <= LateBound

\* An interrupted run returns, from any depth of delegation.
InterruptEnds == asked ~> stack = <<>>

\* A run that stops dispatching delegations and pipelines returns: the
\* iteration cap bounds every other kind of iteration.
EndsUnlessDelegating == <>[][~Dispatch]_vars => []<>(stack = <<>>)

\* Whatever resumptions and pipelines are under way below it, a child that
\* entropic.delegate names runs in the tier of no loop below it, except of one
\* that waits for a delegation it resumed: is_delegation_cycle sees every tier
\* on the stack but that one, which build_resumed_child_context leaves out.
NoCycleButResumed ==
    \A i, j \in DOMAIN stack :
        /\ i < j
        /\ stack[i].pending.kind # "resume"
        /\ stack[j - 1].pending.kind \notin {"resume", "pipeline"}
        => stack[i].tier # stack[j].tier

\* The same of every child started by entropic.delegate or resume_delegation
\* (REQ-DELEG-001: no A -> B -> A, no self-delegation).  The code does not
\* keep it; see the README's known disagreements.
NoDelegationCycle ==
    \A i, j \in DOMAIN stack :
        i < j /\ stack[j - 1].pending.kind # "pipeline"
            => stack[i].tier # stack[j].tier

\* A loop whose tier requires explicit completion never completes because it
\* merely answered in text or because a delegate of it succeeded.
ExplicitlyCompleted ==
    \A i \in DOMAIN stack :
        stack[i].state = "COMPLETE" /\ stack[i].tier \in Explicit
            => stack[i].via \notin {"text", "delegate"}

\* Every run returns ("The agentic loop must always terminate", REQ-LOOP-002).
\* The code does not keep it; see the README's known disagreements.
AlwaysTerminates == []<>(stack = <<>>)

=============================================================================
