------------------------------ MODULE McpClient ------------------------------
(***************************************************************************)
(* One external MCP server: the stdio transport to its child process, the  *)
(* JSON-RPC client on top of it, the health monitor that reconnects it and *)
(* its removal from the server manager.                                    *)
(*                                                                         *)
(* Source: src/mcp/transport_stdio.cpp, external_client.cpp,               *)
(* health_monitor.cpp, reconnect_policy.cpp, server_manager.cpp.           *)
(*                                                                         *)
(* Requests come from run threads (tool calls) and from the monitor thread *)
(* (initialize, tools/list).  The child is external: it answers what it    *)
(* was sent in any order, late or never, and may die.  Time is abstracted: *)
(* a deadline may pass at any moment of a wait.                            *)
(***************************************************************************)
EXTENDS Naturals, Sequences, FiniteSets

CONSTANTS
    Runs,           \* run threads
    Monitor,        \* the health monitor's thread
    MaxRetries,     \* ReconnectPolicy: max_retries_, 0 for no limit
    MaxCalls,       \* bound: tool calls
    MaxFaults,      \* bound: deaths of the child and interrupts
    None            \* nobody, nothing

Threads == Runs \cup {Monitor}

ASSUME McpClientAssumption ==
    /\ IsFiniteSet(Runs) /\ Monitor \notin Runs
    /\ {MaxRetries, MaxCalls, MaxFaults} \subseteq Nat
    /\ None \notin Threads

VARIABLES
    connected,  \* connected_
    cancel,     \* cancel_flag_
    desynced,   \* desynced_
    io,         \* the holder of io_mutex_
    child,      \* "none" (child_pid_ = -1), "alive", or "dead" and not reaped
    pump,       \* is stderr_thread_ joinable?
    owed,       \* requests the child has not answered
    pipe,       \* lines in the child's stdout
    pc, id, kind, resp,  \* of each thread: where it is, and its request
    cancelled,  \* run threads whose own token is raised
    entry,      \* the WatchEntry of the server
    running,    \* HealthMonitor::running_
    admin,      \* how far the server's removal has come
    bounds,     \* bound: calls and faults left
    foreign     \* history: <<p, q>> if p was handed the answer to q's request

linkVars == <<connected, child, pump, owed, pipe>>
reqVars == <<pc, id, kind, resp>>
monVars == <<entry, running, admin>>
vars == <<linkVars, cancel, desynced, io, reqVars, cancelled, monVars,
          bounds, foreign>>

NoEntry == [status |-> "none", attempt |-> 0]
Fragment == [id |-> 0, by |-> None]  \* the rest of a line read in part
Empty == [id |-> 0, by |-> Monitor]  \* the empty response

\* The state initialize_external_servers leaves: its connect either made the
\* connection or closed the transport again; the client is registered and
\* watched in both cases.
Init ==
    /\ connected \in BOOLEAN
    /\ pump = connected
    /\ child = IF connected THEN "alive" ELSE "none"
    /\ entry = [status |-> IF connected THEN "connected" ELSE "disconnected",
                attempt |-> 0]
    /\ cancel = FALSE /\ desynced = FALSE /\ io = None
    /\ owed = {} /\ pipe = <<>>
    /\ pc = [p \in Threads |-> "idle"] /\ id = [p \in Threads |-> 0]
    /\ kind = [p \in Threads |-> "call"] /\ resp = [p \in Threads |-> Empty]
    /\ cancelled = {}
    /\ running = TRUE /\ admin = "registered"
    /\ bounds = [calls |-> MaxCalls, faults |-> MaxFaults]
    /\ foreign = {}

Go(p, to) == pc' = [pc EXCEPT ![p] = to]

\* is_connected: kill(pid, 0) also succeeds for a child nobody has reaped.
IsConnected == connected /\ child # "none"
\* request_cancelled: the latch, or the token of the run on this thread.
RequestCancelled(p) == cancel \/ p \in cancelled

-----------------------------------------------------------------------------
(* StdioTransport::send_request, on any thread.                            *)

\* next_id_ counts up and never repeats; ids are only compared for equality,
\* so a number nothing refers to any more stands for the next one.
IdsInUse == {id[p] : p \in Threads} \cup {resp[p].id : p \in Threads}
                \cup {r.id : r \in owed} \cup {pipe[i].id : i \in DOMAIN pipe}
NextId == CHOOSE n \in 1..(Cardinality(IdsInUse) + 1) : n \notin IdsInUse

\* build_request_id takes the id atomically; send_request then looks at the
\* connection and the cancel flags, before it takes io_mutex_.
NewRequest(p, k) ==
    /\ id' = [id EXCEPT ![p] = NextId]
    /\ kind' = [kind EXCEPT ![p] = k]
    /\ resp' = [resp EXCEPT ![p] = Empty]
    /\ Go(p, IF connected' /\ ~cancel' /\ p \notin cancelled
             THEN "queued" ELSE "got")

EndRequest(p) ==
    /\ id' = [id EXCEPT ![p] = 0]
    /\ kind' = [kind EXCEPT ![p] = "call"]
    /\ resp' = [resp EXCEPT ![p] = Empty]
    /\ Go(p, "idle")

\* The lock, and the drain of what an abandoned request left.
Lock(p) ==
    /\ pc[p] = "queued" /\ io = None
    /\ io' = p
    /\ pipe' = IF desynced THEN <<>> ELSE pipe
    /\ desynced' = FALSE
    /\ Go(p, "write")
    /\ UNCHANGED <<connected, cancel, child, pump, owed, id, kind, resp,
                   cancelled, monVars, bounds, foreign>>

\* ::write blocks while the pipe is full, has no time-out and looks at no
\* cancel flag: it ends when the child reads, which it need never do,
Write(p) ==
    /\ pc[p] = "write" /\ child = "alive"
    /\ owed' = owed \cup {[id |-> id[p], by |-> p]}
    /\ Go(p, "read")
    /\ UNCHANGED <<connected, cancel, desynced, io, child, pump, pipe, id, kind,
                   resp, cancelled, monVars, bounds, foreign>>

\* or with an error when the child is gone.
WriteError(p) ==
    /\ pc[p] = "write" /\ child # "alive"
    /\ Go(p, "write failed")
    /\ UNCHANGED <<linkVars, cancel, desynced, io, id, kind, resp, cancelled,
                   monVars, bounds, foreign>>

WriteFailed(p) ==
    /\ pc[p] = "write failed"
    /\ connected' = FALSE
    /\ io' = None
    /\ Go(p, "got")
    /\ UNCHANGED <<cancel, desynced, child, pump, owed, pipe, id, kind, resp,
                   cancelled, monVars, bounds,
                   foreign>>

\* read_line returns a line.
ReadLine(p) ==
    /\ pc[p] = "read" /\ pipe # <<>>
    /\ resp' = [resp EXCEPT ![p] = Head(pipe)]
    /\ pipe' = Tail(pipe)
    /\ desynced' = FALSE
    /\ io' = None
    /\ Go(p, "got")
    /\ UNCHANGED <<connected, cancel, child, pump, owed, id, kind,
                   cancelled, monVars, bounds, foreign>>

\* read_line gives up: the deadline passed, the request was cancelled, or the
\* child closed its end.
GivesUpNever(p) == RequestCancelled(p) \/ (pipe = <<>> /\ child # "alive")
GivesUp(p) == TRUE

\* Part of a line may have been consumed by then.
Abandon(p) ==
    /\ pc[p] = "read"
    /\ GivesUp(p)
    /\ \/ UNCHANGED pipe
       \/ pipe # <<>> /\ pipe' = [pipe EXCEPT ![1] = Fragment]
    /\ desynced' = TRUE
    /\ io' = None
    /\ Go(p, "got")
    /\ UNCHANGED <<connected, cancel, child, pump, owed, id, kind, resp,
                   cancelled, monVars, bounds,
                   foreign>>

\* response_matches: the id of the line is the id of the request.
AnyResponse(p) == resp[p] # Empty
ResponseMatches(p) == resp[p] # Empty /\ resp[p].id = id[p]

\* A matching response is handed over, and remembered if it is not p's own.
Deliver(p) ==
    foreign' = IF ResponseMatches(p) /\ resp[p].by # p
               THEN foreign \cup {<<p, resp[p].by>>} ELSE foreign

-----------------------------------------------------------------------------
(* A tool call on a run thread.                                            *)

\* find_external: a client that was removed is not found any more.
Registered == admin \in {"registered", "joining"}

\* route_external_call and execute; a disconnected server answers with an
\* error at once.
Execute(p) ==
    /\ pc[p] = "idle" /\ bounds.calls > 0
    /\ Registered /\ IsConnected
    /\ UNCHANGED <<linkVars, cancel>>
    /\ NewRequest(p, "call")
    /\ bounds' = [bounds EXCEPT !.calls = @ - 1]
    /\ UNCHANGED <<desynced, io, cancelled, monVars,
                   foreign>>

\* response_problem: an empty or foreign response becomes an error envelope.
EndCall(p) ==
    /\ p \in Runs /\ pc[p] = "got"
    /\ Deliver(p)
    /\ EndRequest(p)
    /\ UNCHANGED <<linkVars, cancel, desynced, io, cancelled,
                   monVars, bounds>>

-----------------------------------------------------------------------------
(* The child process (external).                                           *)

Answer ==
    /\ child = "alive"
    /\ \E r \in owed : owed' = owed \ {r} /\ pipe' = Append(pipe, r)
    /\ UNCHANGED <<connected, cancel, desynced, io, child, pump, reqVars,
                   cancelled, monVars, bounds, foreign>>

Die ==
    /\ child = "alive" /\ bounds.faults > 0
    /\ child' = "dead"
    /\ owed' = {}
    /\ bounds' = [bounds EXCEPT !.faults = @ - 1]
    /\ UNCHANGED <<connected, cancel, desynced, io, pump, pipe, reqVars,
                   cancelled, monVars, foreign>>

-----------------------------------------------------------------------------
(* Interrupts: the latch of every transport, or the token of one run.      *)

Interrupt ==
    /\ bounds.faults > 0 /\ Registered
    /\ bounds' = [bounds EXCEPT !.faults = @ - 1]
    /\ \/ cancel' = TRUE /\ UNCHANGED cancelled
       \/ \E p \in Runs : cancelled' = cancelled \cup {p} /\ UNCHANGED cancel
    /\ UNCHANGED <<linkVars, desynced, io, reqVars, monVars,
                   foreign>>

\* The next run starts: clear_external_tool_interrupts and a fresh token.
NextRun(p) ==
    /\ pc[p] = "idle" /\ (cancel \/ p \in cancelled)
    /\ cancelled' = cancelled \ {p}
    /\ cancel' = IF Registered THEN FALSE ELSE cancel
    /\ UNCHANGED <<linkVars, desynced, io, reqVars, monVars,
                   bounds, foreign>>

-----------------------------------------------------------------------------
(* The monitor thread; watched_mutex_ is held while it is not idle.        *)

\* ReconnectPolicy::exhausted.
Exhausted(n) == MaxRetries # 0 /\ n >= MaxRetries

\* attempt_reconnect, up to the call of connect().
AttemptReconnect(e) ==
    IF Exhausted(e.attempt)
    THEN /\ entry' = [e EXCEPT !.status = "error"]
         /\ UNCHANGED pc
    ELSE /\ entry' = [e EXCEPT !.status = "reconnecting"]
         /\ Go(Monitor, "open")

\* monitor_loop and check_server, whenever next_action has come: a back-off
\* delay or a check interval passes at any moment, the one of a server in
\* error never.  A connected server that is alive is only checked again later.
CheckServer ==
    /\ running /\ pc[Monitor] = "idle"
    /\ \/ /\ entry.status = "connected" /\ ~IsConnected
          /\ AttemptReconnect([entry EXCEPT !.attempt = 0])
       \/ /\ entry.status \in {"disconnected", "reconnecting"}
          /\ AttemptReconnect(entry)
    /\ UNCHANGED <<linkVars, cancel, desynced, io, id, kind, resp, cancelled,
                   running, admin, bounds, foreign>>

\* connect -> StdioTransport::open(): the flag is cleared on every path.
Open ==
    /\ pc[Monitor] = "open"
    /\ cancel' = FALSE
    /\ \/ /\ connected
          /\ UNCHANGED linkVars
          /\ NewRequest(Monitor, "init")
       \/ /\ ~connected
          /\ Go(Monitor, "failed")
          /\ UNCHANGED <<linkVars, id, kind, resp>>
       \/ /\ ~connected /\ ~pump
          /\ child' = "alive" /\ owed' = {} /\ pipe' = <<>>
          /\ connected' = TRUE /\ pump' = TRUE
          /\ NewRequest(Monitor, "init")
    /\ UNCHANGED <<desynced, io, cancelled, monVars, bounds, foreign>>

\* open() assigns a new std::thread to stderr_thread_; one that was never
\* joined makes that std::terminate, the end of every thread.
OpenTerminates ==
    /\ pc[Monitor] = "open"
    /\ ~connected /\ pump
    /\ pc' = [p \in Threads |-> "aborted"]
    /\ admin' = "aborted"
    /\ io' = None
    /\ child' = "none" /\ owed' = {}
    /\ UNCHANGED <<connected, pump, pipe, cancel, desynced, id, kind, resp,
                   cancelled, entry, running, bounds, foreign>>

\* StdioTransport::close(): neither io_mutex_ nor desynced_ is touched.
CloseTransport ==
    /\ connected' = FALSE /\ child' = "none" /\ pump' = FALSE
    /\ owed' = {} /\ pipe' = <<>>

\* send_initialize: an answer that does not match, or that carries an error,
\* closes the transport again.
Initialized ==
    /\ pc[Monitor] = "got" /\ kind[Monitor] = "init"
    /\ Deliver(Monitor)
    /\ UNCHANGED cancel
    /\ \/ /\ ResponseMatches(Monitor)
          /\ UNCHANGED linkVars
          /\ NewRequest(Monitor, "list")
       \/ /\ Go(Monitor, "failed")
          /\ CloseTransport
          /\ UNCHANGED <<id, kind, resp>>
    /\ UNCHANGED <<desynced, io, cancelled, monVars, bounds>>

\* query_tools: a failure is tolerated.  connect() is followed by the query
\* of refresh_tools.
Listed ==
    /\ pc[Monitor] = "got" /\ kind[Monitor] = "list"
    /\ Deliver(Monitor)
    /\ UNCHANGED <<linkVars, cancel>>
    /\ NewRequest(Monitor, "refresh")
    /\ UNCHANGED <<desynced, io, cancelled, monVars, bounds>>

\* on_reconnect_success.
ReconnectSuccess ==
    /\ pc[Monitor] = "got" /\ kind[Monitor] = "refresh"
    /\ Deliver(Monitor)
    /\ entry' = [status |-> "connected", attempt |-> 0]
    /\ EndRequest(Monitor)
    /\ UNCHANGED <<linkVars, cancel, desynced, io, cancelled, running,
                   admin, bounds>>

\* connect() failed: the next attempt comes after delay_ms.
RetryForEver == entry
RetryLater == [entry EXCEPT !.attempt = @ + 1]

ReconnectFailed ==
    /\ pc[Monitor] = "failed"
    /\ entry' = RetryLater
    /\ EndRequest(Monitor)
    /\ UNCHANGED <<linkVars, cancel, desynced, io, cancelled,
                   running, admin, bounds, foreign>>

-----------------------------------------------------------------------------
(* Removal: disconnect_external_server, or shutdown.                       *)

Erase ==
    /\ admin = "registered"
    /\ admin' = "erased"
    /\ UNCHANGED <<linkVars, cancel, desynced, io, reqVars, cancelled,
                   entry, running, bounds, foreign>>

\* unwatch waits for watched_mutex_.
UnwatchNow == TRUE
WatchedMutexFree == pc[Monitor] = "idle"

Unwatch ==
    /\ admin = "erased" /\ WatchedMutexFree
    /\ admin' = "unwatched"
    /\ entry' = NoEntry
    /\ UNCHANGED <<linkVars, cancel, desynced, io, reqVars, cancelled,
                   running, bounds, foreign>>

\* shutdown: HealthMonitor::stop and its join.
StopMonitor ==
    /\ admin = "registered"
    /\ admin' = "joining"
    /\ running' = FALSE
    /\ UNCHANGED <<linkVars, cancel, desynced, io, reqVars, cancelled,
                   entry, bounds, foreign>>

JoinMonitor ==
    /\ admin = "joining" /\ pc[Monitor] = "idle"
    /\ admin' = "unwatched"
    /\ UNCHANGED <<linkVars, cancel, desynced, io, reqVars, cancelled,
                   entry, running, bounds, foreign>>

\* ExternalMCPClient::disconnect, whoever is in a request.
Disconnect ==
    /\ admin = "unwatched"
    /\ admin' = "gone"
    /\ CloseTransport
    /\ UNCHANGED <<cancel, desynced, io, reqVars, cancelled, entry, running,
                   bounds, foreign>>

-----------------------------------------------------------------------------
RequestStep(p) ==
    Lock(p) \/ WriteError(p) \/ WriteFailed(p) \/ ReadLine(p) \/ Abandon(p)

MonitorStep ==
    \/ CheckServer \/ Open \/ OpenTerminates \/ Initialized \/ Listed \/ ReconnectSuccess
    \/ ReconnectFailed \/ RequestStep(Monitor)

AdminStep == Unwatch \/ JoinMonitor \/ Disconnect

Next ==
    \/ \E p \in Runs : \/ RequestStep(p) \/ EndCall(p)
                       \/ Execute(p) \/ NextRun(p)
    \/ MonitorStep
    \/ \E p \in Threads : Write(p)
    \/ Answer \/ Die \/ Interrupt
    \/ Erase \/ StopMonitor \/ AdminStep

\* Threads run, time passes; the child owes nothing, neither an answer nor a
\* read of what is written to it.
Fairness ==
    /\ \A p \in Runs : WF_vars(RequestStep(p) \/ EndCall(p))
    /\ WF_vars(MonitorStep)
    /\ WF_vars(AdminStep)

Spec == Init /\ [][Next]_vars /\ Fairness

-----------------------------------------------------------------------------
(* Properties.                                                             *)

Lines == [id : Nat, by : Threads \cup {None}]

\* Every variable keeps its type, io_mutex_ is held exactly by a thread that
\* writes or reads, and the monitor never counts past max_retries_.
TypeOK ==
    /\ {connected, cancel, desynced, pump, running}
           \subseteq BOOLEAN
    /\ io \in Threads \cup {None}
    /\ \A p \in Threads : pc[p] \in {"write", "write failed", "read"} <=> io = p
    /\ child \in {"none", "alive", "dead"}
    /\ owed \subseteq Lines /\ pipe \in Seq(Lines)
    /\ pc \in [Threads -> {"idle", "queued", "write", "write failed",
                           "read", "got", "open", "failed", "aborted"}]
    /\ id \in [Threads -> Nat]
    /\ kind \in [Threads -> {"call", "init", "list", "refresh"}]
    /\ resp \in [Threads -> Lines]
    /\ cancelled \subseteq Runs
    /\ entry.status \in {"none", "connected", "disconnected", "reconnecting",
                         "error"}
    /\ entry.attempt \in Nat /\ (MaxRetries # 0 => entry.attempt <= MaxRetries)
    /\ admin \in {"registered", "joining", "erased", "unwatched", "gone",
                 "aborted"}
    /\ foreign \subseteq Threads \X (Threads \cup {None})

\* However late an answer comes, and whichever request gave it up, no thread
\* is handed the answer to another thread's request.
AnswerIsOwn == foreign = {}

\* The premise of what follows: no write blocks for ever, which the child
\* decides.
WritesEnd == \A p \in Threads : []<>(pc[p] # "write")

\* The monitor "handles reconnection" (health_monitor.h): reconnecting never
\* ends the process.
\* The code does not keep it; see the README's known disagreements.
ReconnectSurvives == admin # "aborted"

\* A tool call returns, to an answer or to an error, however long the child is
\* silent, as long as no write blocks for ever and the process is not ended by
\* a reconnection (ReconnectSurvives).
CallReturns ==
    WritesEnd =>
        \A p \in Runs :
            pc[p] # "idle" ~> pc[p] = "idle" \/ ~ReconnectSurvives

\* A server that is not connected is reconnected or given up for good, unless
\* it is removed or the monitor stopped first, as long as no write blocks for
\* ever; a reconnection that ends the process instead is the one of
\* ReconnectSurvives.
ReconnectSettles ==
    WritesEnd =>
        (entry.status \in {"disconnected", "reconnecting"} ~>
            \/ entry.status \in {"connected", "error", "none"}
            \/ ~running \/ ~ReconnectSurvives)

\* Removing a server returns, although unwatch waits for a monitor that may be
\* in the middle of a connect, and that for the thread that writes, as long as
\* no write blocks for ever and the process is not ended by the reconnection
\* (ReconnectSurvives).
RemovalReturns ==
    WritesEnd =>
        (admin # "registered" ~> admin = "gone" \/ ~ReconnectSurvives)

\* Without the premise: an empty return "is what the client turns into a typed
\* error envelope rather than a hang" (send_request).
\* The code does not keep it; see the README's known disagreements.
CallNeverHangs ==
    \A p \in Runs : pc[p] # "idle" ~> pc[p] = "idle" \/ ~ReconnectSurvives

\* After a removal nothing of the server is left: no child, no pump, no pipe.
RemovedClean ==
    admin = "gone" => ~connected /\ child = "none" /\ ~pump /\ owed = {}

\* An answer nobody waits for is marked: "Anything other than a complete line
\* back means we walked away from a reply the server will still send, so mark
\* the pipe desynced and let the next caller drain it" (send_request).
\* The code does not keep it; see the README's known disagreements.
OrphansMarked == io = None /\ ~desynced => owed = {} /\ pipe = <<>>
=============================================================================
