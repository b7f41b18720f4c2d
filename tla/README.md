# A TLA+ model of the entropic engine

entropic is an in-process C++ inference engine with an agentic loop: a host
application links the library, opens a handle and calls a C API that runs
turns on sessions. This directory holds TLA+ modules of the engine's control
logic, the TLC configurations that check them and the TLAPS proofs about them.

    cd tla
    tlc -workers 2 -config MCSessionTurns_interrupt.cfg MCSessionTurns
    tlapm SessionTurnsProofs.tla

`PROJECT.json` lists the components, the runs, the source lines each definition
models, the hazards the properties are aimed at, and the findings.

## 1. Inventory

Paths are relative to the repository root (`src/core/engine.cpp` is the
engine's own file). For each part: the state it keeps, what it does, whom it
calls, what is hard about it, and what makes it correct.

| Part | State | Operations | Hard behaviour | What makes it correct |
|---|---|---|---|---|
| **Turns, sessions, interrupts** `core/engine.cpp`, `facade/entropic.cpp`, `facade/engine_handle.h`, `types/run_scope.cpp` | `active_runs_` (one `RunState` per session key), thread-local key, `interrupt_flag_`, transport latch, `conversations_`, `turn_failures_`, `user_message_queue_` | run (plain, keyed, streaming, as a tier, batch), interrupt, interrupt_session, queue, clear, drop, restore | any host thread calls anything; several mutexes, none held across a whole call; run entry points do not take `api_mutex` | one turn per session; a stop reaches its turn and no other; history is made of whole turns; the queue loses nothing |
| **Agentic loop** `core/engine.cpp`, `core/response_generator.cpp` | `LoopContext` (state, counters, pending work), `LoopMetrics` | iterate, generate, decide, charge the thinking budget, dispatch | everything a model may write; caps that interact; interrupts inside any call | it ends; a verdict is final; an explicit tier ends only explicitly |
| **Delegation and pipelines** `core/delegation.cpp`, `core/engine.cpp` | the stack of contexts, ancestor tiers, failure streaks | delegate, resume, pipeline stages, relay | recursion inside an iteration, resume from storage, interrupt at any depth | depth cap, no cycle, the interrupt is inherited |
| **Tool executor** `mcp/tool_executor.cpp` | recent calls, duplicate and same-tool counters | sort, truncate, check, run, record, apply directives | one batch mixes denied, failing, completing and delegating calls | limits hold; a completed run stops |
| **Compaction** `core/compaction.cpp`, `core/context_manager.cpp` | the message list, token estimate | check, compact, prune | it rewrites the list while indices into it are live | nothing the host still needs is lost |
| **Constitutional validator** `core/constitutional_validator.cpp` | revision count, last verdict | critique, revise | nested generations, an interrupt in the middle | bounded revisions; the verdict belongs to the text delivered |
| **Sandbox and tool root lock** `core/sandbox.cpp`, `mcp/tool_root_lock.cpp`, `facade/entropic_mcp.cpp` | owner and readers of the lock, current root, workspace of a session, files read | enter and leave a root, dispatch, bind a workspace, clear a session | concurrent sessions share one server set; delegations nest | a call never runs in another session's root; every root is put back |
| **MCP servers and transports** `mcp/server_manager.cpp`, `mcp/external_client.cpp`, `mcp/transport_stdio.cpp`, `mcp/health_monitor.cpp`, `mcp/reconnect_policy.cpp` | clients by name, pipe contents, cancel flag, watch list | connect, request, time out, reconnect, disconnect | late answers, a monitor thread against callers, restarts | an answer goes to its own request; calls, reconnections and removals end |
| **Authorization** `mcp/mcp_authorization.cpp`, `mcp/mcp_key_set.cpp`, `mcp/permission_manager.cpp` | key sets, access levels, stored approvals | grant, check, persist | inheritance along delegations | a child never has more than its parent |
| **External bridge** `facade/external_bridge.cpp` | ticket lanes, async tasks, subscribers, client threads and workers | accept, ask, cancel, observe, notify, stop | tickets abandoned on time-out, cancel against completion, stop against everything | lanes never stall; a final task state is final; stop returns |
| **Orchestrator and backends** `inference/orchestrator.cpp`, `inference/backend.cpp`, `inference/adapter_manager.cpp` | COLD/WARM/ACTIVE backends, main tier, adapters, three mutexes | route, load, swap, release, adapter load and swap, host queries | raw backend pointers, locks taken in several orders, claims per session | no decode on an unloaded model; one active model; no orphaned adapter |
| **KV sequences** `inference/llama_cpp_backend.cpp`, `session_residency.h`, `warm_keep_util.h`, `prompt_cache.cpp` | the cells of each sequence, the record of what is resident, session slots, cached prefixes | prefill (cold, warm, cached), decode, batch, image, speculation, scoring, snapshot | a record that outlives what it describes; features that address fixed sequences | the sampler sees the prompt that was rendered |
| **Stream think filter** `core/stream_think_filter.cpp` | marker and character buffers | token, flush | markers and characters split by chunks | the stream equals the buffered path's text |
| **Storage and audit** `storage/*.cpp` | SQLite rows, audit buffer and sequence | append, flush, rotate, save | crash between flushes | the sequence is gapless |
| **Hooks, identities, configuration, prompts, CLI, Python bindings** | mostly immutable after start | parse, merge, format | layering order | the text assembled is the one configured |
| **llama.cpp's numeric work, built-in file/shell/git tools** | third-party or operating-system state | decode, read, write | numeric or I/O | out of scope |

How they interact: a run entry point claims its session, reads the conversation
and calls the agentic loop on its own thread; an iteration calls the
orchestrator for a generation and the tool executor for the calls in it; a
directive returned by a tool leaves a pending delegation in the context, which
the loop dispatches as a nested loop. Interrupts come from other threads
through atomics, and reach the MCP transports through a callback. Nothing but
the stored conversation, the failure record and the queue survives a turn.

## 2. Modules

| Module | What it is |
|---|---|
| `SessionTurns` | Host threads and interrupters on one handle. One action per step between two lock scopes of a run entry point, of `interrupt()`, of `entropic_queue_user_message` and of the session calls. |
| `SessionHistory` | The abstract specification of stored conversations: a session's history grows by whole turns while a run is in flight on it, a turn that failed adds nothing, and it is wiped or restored when idle. A turn that an exception ended may leave its user message with no reply, as the code does. |
| `MCSessionTurns` | TLC instances and symmetry sets. The refinement mapping to `SessionHistory` (a conversation without the turn in flight on it) is at the end of `SessionTurns`. |
| `SessionTurnsProofs` | TLAPS proofs about `SessionTurns`: claims, interrupts and outcomes; then the queue, the conversations and the refinement of `SessionHistory`. |
| `AgentLoop` | One run: the stack of loop contexts that delegation builds, of which the topmost moves; the tool batch, the decision, budgets, guards, results. |
| `MCAgentLoop` | TLC instances of `AgentLoop`. |
| `ToolRoots` | Sessions whose turns dispatch tools and enter nested sandboxes on shared server sets; the tool root lock, workspace binding, the read tracker. |
| `McpClient` | One external stdio server: run threads, the health monitor, the host's removal, the pipe and the child process. |
| `Bridge` | The socket bridge: client threads, lanes, asynchronous workers and their tasks, the phase observer, `stop()`. |
| `Residency` | Tiers over model backends: turn claims, the generation, swap and API mutexes, swaps, releases, adapters, host queries. |
| `KvSlots` | One llama.cpp backend's KV sequences under every feature that writes them. |
| `ThinkFilter` | The streaming filter as a byte automaton, and `strip_think_blocks` as its reference. |
| `MCToolRoots`, `MCMcpClient`, `MCBridge`, `MCResidency`, `MCKvSlots`, `MCThinkFilter` | TLC instances of the six modules above. |
| `AgentLoopProofs`, `ToolRootsProofs`, `McpClientProofs`, `BridgeProofs`, `ResidencyProofs`, `KvSlotsProofs`, `ThinkFilterProofs` | TLAPS proofs about these modules. |

`ToolRoots` and `Residency` take the turn claim as `SessionTurns` models it
(`try_begin_turn`), each with its own copy of the guard, so that every module can
be checked alone.

### SessionTurns and the code

Every host thread is a program counter `pc[t]`:

    idle -> claimed -> bound -> seeded -> starting -> resetting -> loop
         -> settle -> drain -> (seeded | done) -> idle

`claimed` is the state after `HandleTurnGuard` (`try_begin_turn`), `bound` after
`set_active_session`, `seeded` after the system prompt, `starting` with the user
message pushed and `reset_interrupt` about to run, `resetting` between its two
halves (the flags, then the transport callback), `loop` in `AgentEngine::loop`,
`settle` before `settle_turn`, `drain` before `prepare_next_turn`, `done` before
`end_turn`. Refused tiers, batches and exceptions go to `done` directly.

An iteration of `loop` compacts its messages past the threshold (`CheckAndCompact`) and
then says something, or nothing: the model's message, perhaps with one of the engine's
behind it (`EngineNotes`: the thinking-budget nudge, tool results), two replies when the
budget cuts it hard, none when a PRE_GENERATE hook cancels it. It goes on or ends
COMPLETE or ERROR; the limit on duplicate tool calls leaves the loop in EXECUTING, which
is no terminal state; an interrupt is seen at the top of the loop or by the decode, which
still returns what it has. A turn therefore need not end with a reply, or have one. What
the body of `run_drain_loop` holds ends with it (`LeaveBody`).

A message is `[role, of]`, where `of` names the input whose turn produced it: that
is all the properties tell apart. The variables `used`, `owner`, `asked`,
`accepted` and `consumed` are history; no guard of an engine step reads them.

`interrupt()` is three steps (fan out to the tokens under `runs_mutex_`, exchange
the flag, call the latch callback on the 0 to 1 edge); `set_session_messages` and
`entropic_queue_user_message` are two (check, then act). All other API calls do
their work under one lock and are one step. `HostWaits` restricts the host: it
manages a session only while that session is idle. It is TRUE where the question
is not about a misbehaving or unlucky host.

### AgentLoop and the code

A context holds the fields of `LoopContext` that decide anything, and `at`, the
control point in `loop()`:

    top -> generate -> tools -> dispatch -> (delegate | pipeline -> child) -> top
    top -> end

The generation is a choice: a batch of tool calls, or an answer with a finish
reason. Every call may be denied (hook, schema, key set, tool list, failure
count), may be a duplicate, may fail or may succeed; `entropic.complete`,
`entropic.delegate`, `entropic.resume_delegation` and `entropic.pipeline` have
their directives, `plain` is any other tool. `sort_tool_calls` and
`truncate_to_limit` are modelled by their result: every batch up to the limit with
its delegate calls last (`DelegateLast`). `max_iterations` per identity is one
constant. `complete` with a vetoing hook behaves as a plain tool does, so the
runs without `plain` lose nothing. A resumed delegation carries two tiers:
`target`, what the call named, and `of`, what storage recorded. `via` and `late`
are history. Deny covers the anti-spiral block: a call that spirals can only be
denied.

### ToolRoots and the code

`pc[s]` is the turn of a session: `idle`, `turn`, `dispatch` (the server set is
looked up, the lock not yet taken), `tool`, and `entering` (a delegation that waits
for the lock its `ScopedSandbox` takes). `owner` and `depth` are
`ToolRootLock`'s, recursive for its owner; `scopes[s]` is the stack of sandboxes,
each with the root it restores. Every dispatch and every swap resolves the
session's workspace anew, as `workspace_servers` does. `MidTurnBind` lets the host
bind a workspace during a session's first turn, which the code's message count
does not prevent.

### McpClient and the code

A request takes `io_mutex_` (`Lock`), is written, waits in slices in
`poll_until_ready`, and reads one line; a line is the id it answers. The write is a
blocking `::write` without time-out or cancel check: `Write` happens when the child
reads, which it never has to do, `WriteError` when it is gone, and the mutex is held
meanwhile. The server (external) answers what
it owes in any order and at any time, or dies. `desynced` is the transport's flag,
drained before the next write. The monitor holds `watched_mutex_` from
`check_server` to the end of `attempt_reconnect`, which opens the transport and
sends `initialize` and `tools/list` through the same request steps. `admin` is the
host's removal or shutdown: erase, unwatch, disconnect. Ids are reused once no
line and no thread mentions them, which keeps `request_id_` finite; `MaxFaults`
bounds deaths and failed writes.

### Bridge and the code

`at[p]` is a client thread or an asynchronous worker: its ticket in
`begin_turn_wait` (first in line, waiting, giving up), its turn, its reply or its
task's end. A lane is `next_ticket`, `now_serving`, the abandoned tickets and the
waiters; `end_turn_wait` skips the abandoned ones. A task carries its status and
phase; the observer slot is the handle's single phase callback. `stop()` is one
action per statement that waits: the accept thread, the clients, the workers. The
accept loop and a client thread test `running_` only before they block: after `stop()`
has cleared it, one more connection may be accepted and its thread started, and each
client thread may read and dispatch one more line. `serving` is the head of
`serve_client`'s loop, where the flag is tested.

### Residency and the code

The four locks are the generation, swap and API mutexes and the turn claims. A
backend is COLD, WARM or ACTIVE; tiers with the same file share one. A generation
takes the generation mutex, routes, gets its model under `swap_mutex_` (reuse,
refusal by the VRAM gate, eviction of the incumbent with its adapters, activation
that may fail), selects the tier's adapter and decodes. Host calls without a
session claim the default key, take `api_mutex`, and query, release or change
adapters. The router's classification, the fallback tier and adapters a host loads
itself are included.

### KvSlots and the code

A sequence holds the tokens decoded into it; a prompt is the system prompt, the
words of the conversation and the generation header, one token each. The
two-argument `do_generate` and `generate_mtp` bind their session's slot first
(`BeginBound`; the first such call sizes the pool); the cancellable and the streaming
`do_generate`, which the agent loop calls, bind none and run in the slot the last call
left (`BeginUnbound`), so several sessions take turns in one slot. A call then prefills warm, from the prompt cache or cold, possibly failing in the
middle, then decodes; batches, images, MTP, raw completion, scoring, snapshots and
unloading are actions of their own. `Configs` is a set of tier configurations, one
of which a behaviour keeps.

### ThinkFilter and the code

The filter's two buffers and its flag, taken through the bytes of each token by
`process_byte`. The two loops of the code, over the bytes of a chunk and over the
blocks to erase, are recursive functions. `Bytes` is any set with the four bytes that
markers are made of. Markers are three and four bytes long instead of seven and eight,
which keeps what matters: they share a first byte, the closing one is longer by one,
and neither is a prefix of the other. `2`, `3` and `4` are the lead bytes of
characters of that many bytes and `+` is a continuation byte, so `emit_utf8_safe` has
up to three bytes to hold back; every other byte is a character of its own. The final
trim of `strip_think_blocks` (white space at the ends of the text) is left out: the
stream is not trimmed, so the two paths are compared before it.

## 3. Runs

Bounds: two threads are enough for every pairwise race on the registry, two keys
for "the same session or another", three inputs for two turns of one thread
against one of the other, one interrupter for a fan-out that is overtaken by two
turns. `MaxIterations` 1 lets a turn end by answer, error, interrupt, exception
or cap; 2 (with `CompactAt` 4, the third message of a second turn) lets a context be
compacted in the middle of a turn and grow again. A queue of two has an order to lose.
The host restores one of the two sessions (`RestoreKeys`): the other is the one it
must not touch.
In `AgentLoop` the depth (2) and the duplicate limit (3) are the code's
own constants; two tiers give self-delegation and A-B-A, three give a chain that
fills the stack. Threads and inputs are interchangeable and no property orders
them, so their permutations are symmetries; the only temporal properties checked
under symmetry are of the form [][A]_v or a specification without fairness,
which permuted states satisfy alike. The runs of the other modules use no symmetry.

### Passing

- **interrupt** (about 1.1 million states). Two sessions run, batch and end
  while the handle, one session or the thread's own stream is interrupted at every
  point. `TurnExclusion`; `InterruptHasCause` (no leftover or misdirected stop);
  `StopWhenAsked` (a token set in the loop is never lost); `OutcomeMatchesTurn`
  (what `settle_turn` reads is this turn's verdict); `TypeOK`.
- **history** (about 600 thousand states). Turns, drains, clears and drops of idle
  sessions and restores of one of the two, with compactions. `HistorySpec` (refinement: whole turns,
  failed turns leave no trace), `SessionIsolation`, `SystemPromptFirst`,
  `QueueConserved` (nothing queued is lost or reordered), `TurnKept` (a settled turn
  stores all that was said in it; after a compaction, nothing but what was said in it).
- **loop** (about 1.0 million states). Delegations, resumed delegations and pipelines
  up to the depth cap, interrupted everywhere.
  `LateGenerations` (after the request at most the generation in flight ends),
  `InterruptEnds` (the run returns), `NoCycleButResumed` (the tier a delegate call
  names is that of no loop below it, but of one that resumed a delegation), `TypeOK`
  (depth and iteration limits).
- **guards** (about 470 thousand states). Three tiers (explicit completion, relay,
  auto-chain), batches of two calls, the thinking budget on. `ExplicitlyCompleted`,
  `TerminalIsFinal` (but for the budget cut), `EndsUnlessDelegating` (the
  iteration cap bounds every run that stops dispatching).

- **roots** (375 thousand states). Two sessions, two server sets, two tool calls and
  two delegations each: enough for a nested sandbox against the other session's
  dispatch on the same or on another set. `IsolatedDispatch`, `RootsRestored` (a
  set whose lock is free is at its project root), `ClearedHasReadNothing`,
  `TurnEnds`.
- **mcp** (512 thousand states). One run thread and the monitor, two calls, one
  fault, one retry: a late answer of the first call meets the second or the
  reconnection, and every write may block. `AnswerIsOwn`, `RemovedClean`,
  `CallReturns`, `ReconnectSettles`, `RemovalReturns`. The last three have the premise
  `WritesEnd` (no write blocks for ever) and make an exception of the process ending
  in a reconnection; both are in the table below (`CallNeverHangs`, `ReconnectSurvives`).
- **bridge** (554 thousand states). One connection with one ask and two
  asynchronous tasks share a lane: three tickets, any of which may be abandoned,
  and `stop()` at any point, before the connection is accepted or its line read or after.
  `LaneExclusion`, `NoLostTicket`, `StoppedQuiet`,
  `TaskFinal`, `StopReturns`.
- **residency** (411 thousand states). Two threads, two sessions, three tiers on two
  models (one kept warm, one tier that does not fit, one with an adapter of its
  own), five calls. `SerializedDecodeSafe` (no decode loses its model as long as
  claims exclude each other), `OneActive`, `AdapterLive`, `SwapSparesDecode`,
  `CallsReturn`.
- **kv** (1.9 million states). Six configurations, up to three sessions, four calls,
  each of which binds a slot or does not: the third and fourth call meet the record, cache entry or slot that the first
  two left. `KvIsPrompt`, `RecordTrue`.
- **think** (2.2 million states). All sequences of markers, stray marker bytes, text
  and characters of two, three and four bytes up to 11 bytes: two blocks, or a block, a
  stray marker and a character that an overflowing marker buffer splits after its
  first, second or third byte. `StreamIsStripped`, `WholeCharacters`.

`kv` and `think` bound the number of calls and bytes, `mcp`, `roots` and
`residency` the number of calls, and stop there: deadlock is not checked in them,
and their liveness properties say instead that whatever has begun ends.

### Disagreements with the documentation

Two runs each check one statement of the repository that the code does not keep.

- **release**: "a turn is in flight on this handle. Unloading a model
  mid-generation frees the context the decode is running on, so the call is
  refused" (`entropic.h:1060`). The call claims the default session only, and with
  concurrent sessions another one may be decoding.
- **pool**: "no residue from later conversation tokens can leak into a subsequent
  delegation's cache hit" (`src/inference/llama_cpp_backend.cpp:2620`). With a
  session pool the prefix is prefilled into the active slot and saved from
  sequence 0.

Known disagreements that the modules state and for which no configuration is kept.
Each one is found by TLC within a minute from the configuration of the run named,
with the change given and the property in place of the run's own:

| Property | Run, change | What the code does |
|---|---|---|
| `SessionTurns!ReplyKept` | history | `settle_turn` keeps the messages past `sent_len`, an index into a list that compaction has meanwhile shortened: replies are lost, although `entropic_context_get` returns "the full message history" (`entropic.h:1099`) |
| `SessionTurns!RestoreOnlyIdle` | history, `HostWaits = FALSE` | check and swap of `set_session_messages` are under different mutexes; "the conversation a turn is appending to must not be swapped under it" (`entropic.h:1285`) |
| `SessionTurns!ReferenceValid` | history, `HostWaits = FALSE` | `drop_session` erases the entry a running turn refers to; "this reference is always valid" (`src/core/engine.cpp:3625`) |
| `SessionTurns!TransportsOpen` | interrupt | an interrupt between its exchange and its latch callback is overtaken by a turn's reset, and that turn runs with its transports shut; reset "releases what interrupt() suppressed" (`engine.cpp:1454`) |
| `SessionTurns!DrainOnlyAtComplete` | history, `ApiOps = {"queue", "interrupt"}` | the queue is also drained after INTERRUPTED; "only at top-level COMPLETE" (`entropic.h:775`) |
| `AgentLoop!AlwaysTerminates` | guards, `Tools = {"plain", "delegate"}`, `Roots = {lead}` | the iteration is refunded before the delegation guards run, so a model that pairs a plain call with a delegation that is always turned down is never charged; "must always terminate" (REQ-LOOP-002) |
| `AgentLoop!NoDelegationCycle` | loop | the guard looks at the named target, and a resume by id then runs the stored one (REQ-DELEG-001) |
| `Bridge!CancelledStaysCancelled` | bridge | a worker already queued sets a cancelled task back to running |
| `Bridge!NotifiesOwner` | bridge, `Conns = {c1, c2}`, `Tasks = {t1}` | a completion notice goes to the descriptor, which another client may have reused |
| `McpClient!ReconnectSurvives` | mcp | a failed write leaves the stderr thread joinable, and the reconnection assigns over it (`src/mcp/transport_stdio.cpp:173`), which terminates the process |
| `McpClient!CallNeverHangs` | mcp | a child that does not read its input blocks `::write` (`transport_stdio.cpp:280`) with `io_mutex_` held, past every time-out and interrupt; an empty return "is what the client turns into a typed error envelope rather than a hang" (`send_request`) |
| `McpClient!OrphansMarked` | mcp | a request given up while its line is half read leaves the rest unmarked; `response_matches` still keeps the answer from the wrong caller |
| `ToolRoots!IsolatedDispatch` | roots, `MidTurnBind = TRUE` | a workspace bound in the first turn moves the dispatches in flight; "Binding is ONCE per session. A session that already holds messages is refused" (`entropic.h:1429`) |
| `KvSlots!OwnSlot` | kv | the cancellable and the streaming `do_generate` never bind their session; "every generate path goes through here, so this is the one place a session has to be bound to a sequence" (`llama_cpp_backend.cpp:3296`) |
| `KvSlots!KvIsPrompt` | pool, `Configs <-` `Snapshot`, `LongGenPrompt`, `PooledVision`, `PooledMtp` or `SharedBatch` | `state_load` leaves the warm-keep record; the cached prefix of a long generation header covers the first user tokens; images, MTP and batches use sequence ids another session owns |
| `ThinkFilter!NoReasoningLeaks` | think, `Tokens <- LeakTokens` | a stray "<" just before an opening marker swallows it, and the block is streamed as content |

Seen while modelling and not stated as a property: `entropic_interrupt` is
documented to return `NOT_RUNNING` when nothing runs (`entropic.h:702-705`) and
always returns OK; `entropic.h:1333` says the unscoped clear "wipes EVERY session",
the code clears the active one; the hard budget cut turns ERROR or INTERRUPTED into
COMPLETE; pipelines are not checked for cycles; the auto-chain trigger on finish
reason "length" cannot fire, because the decision returns earlier on "length"; a
message accepted by `entropic_queue_user_message` after the last drain waits for
some later turn; `entropic_adapter_unload` and `_swap` claim no turn at all; the
eviction event names one tier of a shared backend; the health monitor's
`event_queue_` grows until somebody drains it.

### Fairness

`SessionTurns` needs none: its properties are safety. `AgentLoop` assumes
`WF_vars(Step)`: the thread inside `entropic_run` keeps running, and a generation
or a tool call returns (each polls the interrupt and has a time-out or a token
limit). Nobody is obliged to interrupt or to start another run. Under that
fairness the choice among enabled steps is free, so the model may write anything,
for ever; that is why `AlwaysTerminates` fails and what `EndsUnlessDelegating`
excludes by its premise.

`ToolRoots`: weak fairness of each session's own steps; a thread inside a call is
scheduled, and the lock's waiters are woken when it is free. `McpClient`: weak
fairness of each run thread's request, of the monitor and of the host's removal, but
of no write, and none of the server, which may stay silent for ever or stop reading:
the time-outs must do, and where there is none the properties say so (`WritesEnd`). `Bridge`:
weak fairness of every worker and client thread while it has something to do, and of
`stop()`; the accept loop's poll times out, a turn ends, a client reads its end of file
once its socket is shut, and nobody has to ask, to time out or to connect. `Residency`: weak fairness of each
thread's step and of the end of its turn; a decode ends by its token limit.
`KvSlots` and `ThinkFilter` state safety only.

## 4. Proofs

Every invariant and every action property that a run checks, and the refinement of
`SessionHistory`, is also a theorem, for all values of the constants that satisfy the
modules' named assumptions; what is left to TLC is liveness. The bounds
that keep TLC's state space finite (calls, faults, asks, inputs) are constants like
any other, so the theorems hold for every number of calls. Each proof module states
its inductive invariant as named parts, proves one lemma per action or per part, and
combines them by temporal logic.

| Theorem | States | Hypothesis |
|---|---|---|
| `SessionTurnsProofs!TypeCorrect` | `[]TypeOK` | |
| `SessionTurnsProofs!OneTurnPerSession` | `[]TurnExclusion` | |
| `SessionTurnsProofs!NoStaleInterrupt` | `[]InterruptHasCause` | |
| `SessionTurnsProofs!OutcomeIsTheTurns` | `[]OutcomeMatchesTurn` | |
| `SessionTurnsProofs!InterruptIsHonoured` | `StopWhenAsked` | |
| `SessionTurnsProofs!QueueLosesNothing` | `[]QueueConserved` | |
| `SessionTurnsProofs!SessionsStayApart` | `[]SessionIsolation` | |
| `SessionTurnsProofs!SystemPromptAlways` | `[]SystemPromptFirst` | `HostWaits` |
| `SessionTurnsProofs!HistoryIsKept` | `HistorySpec` (refinement) | `HostWaits` |
| `SessionTurnsProofs!TurnIsStored` | `TurnKept` | `HostWaits` |
| `AgentLoopProofs!TypeCorrect` | `[]TypeOK` | |
| `AgentLoopProofs!InterruptStopsGenerating` | `[]LateGenerations` | |
| `AgentLoopProofs!CompletionIsExplicit` | `[]ExplicitlyCompleted` | |
| `AgentLoopProofs!VerdictStays` | `TerminalIsFinal` | |
| `AgentLoopProofs!OnlyResumedCycles` | `[]NoCycleButResumed` | |
| `AgentLoopProofs!RunRunsDown`, `InterruptRunsDown` | `RunsDown`, `StopsDown` | |
| `ToolRootsProofs!Isolation`, `Restoration` | `[]IsolatedDispatch`, `[]RootsRestored` | `~MidTurnBind` |
| `ToolRootsProofs!ClearingIsComplete` | `[]ClearedHasReadNothing` | |
| `ResidencyProofs!OneModel` | `[]OneActive` | |
| `ResidencyProofs!SerializedDecodes`, `AdaptersLive` | `[]SerializedDecodeSafe`, `[]AdapterLive` | (both speak of `concurrent_sessions` off) |
| `ResidencyProofs!SwapsSpareDecodes` | `SwapSparesDecode` | |
| `BridgeProofs!Exclusion`, `NoStall`, `StopIsQuiet` | `[]LaneExclusion`, `[]NoLostTicket`, `[]StoppedQuiet` | |
| `BridgeProofs!FinalStays` | `TaskFinal` | |
| `McpClientProofs!OwnAnswers`, `RemovalIsClean` | `[]AnswerIsOwn`, `[]RemovedClean` | |
| `KvSlotsProofs!PromptIsRead`, `RecordsHold`, `SlotsAreAssignedOnce` | `[]KvIsPrompt`, `[]RecordTrue`, `[]Pool` | `SoundConfigs` |
| `ThinkFilterProofs!CharactersAreWhole`, `StreamMatchesStrip` | `[]WholeCharacters`, `[]StreamIsStripped` | |

The hypotheses are the ones under which the runs check the property, and each is
needed: section 3's table of disagreements names the behaviour of the code without
it.

- `HostWaits`: the host manages a session only while it is idle. `SystemPromptFirst`
  fails without it too: a clear between the seeding of the system prompt and the push
  of the user message leaves a conversation that begins with the user.
- `~MidTurnBind`: the host binds a workspace to an idle session.
- `SoundConfigs`: every configuration keeps to what the fixed sequence ids and
  records allow (`KvSlots!Sound`: the features that address fixed sequences only with
  one session, the prompt cache only with a one-token generation header, host
  snapshots only without warm-keep). `MCKvSlots` has TLC evaluate that the
  configurations of the `kv` run are sound.

### The arguments

**SessionTurns.** The inductive invariant for claims and interrupts is
`TypeOK /\ Exclusion /\ Requests /\ InterruptHasCause /\ Failures`. `Exclusion` adds
to `TurnExclusion` that a thread with a turn in flight has its key in `active_runs_`
and bound to itself; without it a claim refused because "the key is registered" says
nothing about who holds it. `Requests` ties tokens and flag to the requests made: an
owed stop is still in the token, which only the owner of the key resets. `Failures`
states `OutcomeMatchesTurn` on the claimed key, which two threads never share.

**Conversations.** `Owners` says whose message every entry of a stored conversation, a
context or the queue is, compaction and rollback included. `Kept` describes a turn in
flight: the stored conversation is what it was when the turn began and the user
message, which nobody else changes because the host waits and claims exclude each
other. Its context, `Grown`, is what was sent and then what was said, as long as it was
not compacted; past `sent_len` it holds nothing but messages of this turn in any case,
because a compaction leaves three messages at most (`CompactShape`). From that each step
maps to a step of `SessionHistory` or a stutter (`HistoryStep`): settlement appends the
whole turn or nothing, and everything between the claim and the settlement is hidden
by the mapping.

**AgentLoop.** A run is a stack, and a step replaces its top (`Replaces`), pushes a
child (`Grows`) or returns to the parent (`Shrinks`); `StackStep` shows that there is
nothing else, with `Moved` describing what any of the fourteen local actions makes of
the top. `Nested` is then inductive: all loops but the top one wait for a child, a
waiting parent is DELEGATING with something pending, a loop that dispatches has an
iteration to give back, and one that may delegate is below the depth cap. `Stopping`
adds that a run that was asked sees the interrupt, so that no top context is ever
again at its generation once one has ended. `Chained` adds that the ancestors of a
loop hold the tiers of all loops below it but of those that resumed a delegation, which
makes the guard's look at them enough for everything else.

`Rank` measures what a run has left to do: for each loop of the stack a cost of its
control point, of the iterations it may still start and of the children its delegation
or pipeline may still start, each child counted as a whole new loop. `Moved`, `Grows`
and `Shrinks` carry that a step lowers it; a dispatch alone does not, because it gives
its iteration back. So whatever happens between two dispatches is bounded, and after an
interrupt, which excludes dispatches, everything is. With the fairness of the run's
thread this is why `EndsUnlessDelegating` and `InterruptEnds` hold; the last step, from
the measure to "eventually", is TLC's.

**ToolRoots.** Ownership: a server set has an owner exactly while one session has
sandboxes open on it, its root is that session's innermost sandbox, each sandbox
restores the directory of the one around it, and a tool runs under a shared hold on
a set without owner or as its owner.

**Residency.** What each control point holds of the three mutexes (`Locks`); one claim
at a time when sessions are serialized (`Serial`); the resident model is the one of
`loaded_main_tier_`, and none is while one is being activated (`Resident`); the
backend in a caller's hand and the adapter handles stay on it (`InHand`, `Loras`).

**Bridge.** Every ticket drawn and not yet past is held by one caller or abandoned
(`Issued`, `Covered`), the served one is held (`Called`), abandoned tickets are later
than the served one, and from each of them the line can be walked to the next that is
not (`Shaped`); `waiters` is the number of callers waiting (`Counted`). `StoppedQuiet`
follows the joins of `stop()` in their order: once the accept thread is joined no
connection comes, once the clients are joined no worker does.

**McpClient.** An id belongs to one request, and while the request is under way every
line with its id, owed, in the pipe or read, is its own (`Answers`); ids are fresh
because those in use are finitely many. `Removal` follows the host's three steps.

**KvSlots.** The record of a slot and each cached prefix are true of the cells they
speak of (`RecordTrue`, `CacheTrue`), whichever session wrote them: no part of the
argument needs a call to run in its own session's slot, which the code does not ensure.
No slot is assigned to two sessions, and one that has a slot is in the order of use
(`Pool`); where a feature addresses a fixed sequence no second
session exists (`Alone`); a prefill that starts from a true record ends with exactly
the prompt.

**ThinkFilter.** Both properties compare computations over inputs of any length, so the
proofs need induction over data. The library's induction theorems take an operator and
cannot be used here; `Induction` states the rule for a set of numbers instead (a set
that holds a number and with each index below n the next one holds all up to n), and follows
from the least element of its complement. `Recursion` gives the values of a recursive
function from it, and with the two every loop of the model has a lemma about its run
(`ProcessBytesLoop`, `StripRounds`, `FlatRunsEnd`).

For `WholeCharacters` the invariant of a byte is `Whole`: what was delivered is made of
whole characters, and what is held back is the beginning of one or a possible marker.
For `StreamIsStripped` it is `Follows`: for every well-marked generation that begins
with the bytes seen, the filter is on `Tracks` of it, that is, the marker buffer holds
the beginning of one of its markers, and stripping the generation is the same as
stripping the text delivered so far and the undecided rest (`Outside`), or that text
and everything from the open block's marker on (`Inside`). The reference needs two facts:
`StripOfErased`, the result does not change when a first round is taken off, and
`EraseBlock`, a round erases the block at the first opening marker. The quantification
over all continuations makes the invariant independent of where the decoder cuts.

### Only model-checked

Liveness (`InterruptEnds`, `EndsUnlessDelegating`, `TurnEnds`, `CallReturns`,
`ReconnectSettles`, `RemovalReturns`, `StopReturns`, `CallsReturn`): it needs fairness
and ENABLED, which are out of TLAPS's reach. For the two of `AgentLoop` the measure
that decreases is proved.

## 5. Not modelled

Message text, token counts, formatting, logging, metrics, `pause_flag_`, storage
writes and callbacks to the host are left out where they occur in modelled code:
they neither guard nor change the modelled state. Approval prompts, schemas and
key sets are one nondeterministic denial. The isolation check of a delegation is
a nondeterministic refusal, because it depends on the tools a server declares.
llama.cpp's numeric work, file, shell and git tools and SQL stay out: numeric or
I/O. The SSE transport, the HTTP listener, server discovery, the copying of a
sandbox and its patch, VRAM estimates, sampling and grammars are left out of the
parts that are modelled. Configuration, prompts, hooks, identities, authorization
and the constitutional validator compute in one call from their inputs and keep no
state that two threads race for; most of the repository's lines are of this kind,
or are the public headers, which is why the map covers the concurrent core and not
the bulk.

## 6. Plan

1. `SessionTurns`, `SessionHistory`, `AgentLoop`, `ToolRoots`, `McpClient`, `Bridge`,
   `Residency`, `KvSlots`, `ThinkFilter`: modelled and checked.
2. The runs' invariants, action properties and the refinement: proved (section 4), and
   the measure behind the liveness of `AgentLoop`.
3. Left: the same kind of measure for the threads of `Bridge`, `McpClient`, `Residency`
   and `ToolRoots`.
