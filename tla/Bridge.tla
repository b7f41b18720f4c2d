------------------------------- MODULE Bridge -------------------------------
(***************************************************************************)
(* The external MCP bridge of one handle: client connections, the ticket   *)
(* lane of each session, asynchronous asks with their task registry and    *)
(* sentinel files, completion notices, context_clear and stop().           *)
(*                                                                         *)
(* Source: src/facade/external_bridge.cpp.                                 *)
(*                                                                         *)
(* A caller is a client thread or the worker of an asynchronous ask; it    *)
(* moves from lock scope to lock scope.  The engine turn a caller runs is  *)
(* external: it ends when it ends, an interrupt only ends it sooner.       *)
(***************************************************************************)
EXTENDS Naturals, FiniteSets

CONSTANTS
    Conns,       \* client connections, each accepted once
    Tasks,       \* asynchronous asks, each started once
    Sessions,    \* the lanes: a session key each, or one if not concurrent
    Fds,         \* descriptor numbers the kernel hands out
    MaxAsks,     \* bound: synchronous asks per connection
    None         \* no descriptor, session, task or connection

Callers == Conns \cup Tasks

ASSUME BridgeAssumption ==
    /\ IsFiniteSet(Conns) /\ IsFiniteSet(Tasks)
    /\ Conns \cap Tasks = {}
    /\ MaxAsks \in Nat
    /\ None \notin Callers \cup Sessions \cup Fds

VARIABLES
    host,        \* how far stop() has come; "up" is running_
    accepting,   \* is the accept thread in poll or accept?
    at,          \* where each caller is
    fd,          \* ClientThread::fd of a connection
    shut,        \* connections whose socket stop() has shut down
    session,     \* the session of a caller's current ask
    ticket,      \* the ticket it drew
    lanes,       \* lanes_: the ticket lane of each session
    tasks,       \* tasks_: the registry of asynchronous asks
    owner,       \* the descriptor a task was started from
    sentinels,   \* the sentinel files on disk
    active,      \* active_task_id_
    fresh,       \* attached_gen_ = observer_gen_
    subscribers, \* subscribers_
    asks,        \* bound: synchronous asks so far
    askedBy,     \* history: the connection that started a task
    notices      \* history: which connection was told of which task

connVars == <<accepting, fd, shut, subscribers>>
laneVars == <<session, ticket, lanes>>
taskVars == <<tasks, owner, sentinels, active, fresh>>
ghostVars == <<asks, askedBy, notices>>
vars == <<host, at, connVars, laneVars, taskVars, ghostVars>>

EmptyLane == [next |-> 0, serving |-> 0, waiters |-> 0, busy |-> FALSE,
              abandoned |-> {}]
NoTask == [status |-> "none", phase |-> "none"]

\* Control points of a caller between its ticket and end_turn_wait.
Holding == {"turn", "admitted", "running", "detached"}

Init ==
    /\ host = "up"
    /\ accepting = TRUE
    /\ at = [p \in Callers |-> "new"]
    /\ fd = [c \in Conns |-> None]
    /\ shut = {}
    /\ session = [p \in Callers |-> None]
    /\ ticket = [p \in Callers |-> 0]
    /\ lanes = [s \in Sessions |-> EmptyLane]
    /\ tasks = [t \in Tasks |-> NoTask]
    /\ owner = [t \in Tasks |-> None]
    /\ sentinels = [t \in Tasks |-> {}]
    /\ active = None
    /\ fresh = TRUE
    /\ subscribers = {}
    /\ asks = [c \in Conns |-> 0]
    /\ askedBy = [t \in Tasks |-> None]
    /\ notices = {}

Go(p, to) == at' = [at EXCEPT ![p] = to]

-----------------------------------------------------------------------------
(* The ticket lane of a session.                                           *)

\* begin_turn_wait: draw a ticket; a caller not served at once counts as
\* waiting.
TakeTicket(p) ==
    LET s == session[p]
        first == lanes[s].next = lanes[s].serving
    IN  /\ at[p] = "ask"
        /\ ticket' = [ticket EXCEPT ![p] = lanes[s].next]
        /\ lanes' = [lanes EXCEPT ![s].next = @ + 1,
                                  ![s].waiters = IF first THEN @ ELSE @ + 1]
        /\ Go(p, IF first THEN "first" ELSE "waiting")
        /\ UNCHANGED <<host, connVars, session, taskVars, ghostVars>>

\* begin_turn_wait: the predicate of the wait, and the waiters after it.
ServedEarly(p) == ticket[p] <= lanes[session[p]].serving + 1
Served(p) == lanes[session[p]].serving = ticket[p]
WaitersAfter(p) == IF at[p] = "first" THEN lanes[session[p]].waiters
                   ELSE lanes[session[p]].waiters - 1

Admit(p) ==
    LET s == session[p]
    IN  /\ at[p] \in {"first", "waiting"}
        /\ Served(p)
        /\ lanes' = [lanes EXCEPT ![s].busy = TRUE, ![s].waiters = WaitersAfter(p)]
        /\ Go(p, IF p \in Tasks THEN "admitted" ELSE "turn")
        /\ UNCHANGED <<host, connVars, session, ticket, taskVars, ghostVars>>

\* begin_turn_wait: kTurnWaitTimeoutMs passes first, and the ticket is left
\* behind for the line to skip.
GiveUp(p) ==
    LET s == session[p]
    IN  /\ at[p] = "waiting"
        /\ ~Served(p)
        /\ lanes' = [lanes EXCEPT ![s].waiters = WaitersAfter(p),
                                  ![s].abandoned = @ \cup {ticket[p]}]
        /\ Go(p, IF p \in Tasks THEN "busy" ELSE "serving")
        /\ UNCHANGED <<host, connVars, session, ticket, taskVars, ghostVars>>

\* The ticket end_turn_wait calls next: the first after now_serving that
\* nobody abandoned.
NextServingBlind(l) == l.serving + 1
NextServing(l) ==
    CHOOSE n \in (l.serving + 1)..l.next :
        /\ n \notin l.abandoned
        /\ (l.serving + 1)..(n - 1) \subseteq l.abandoned

\* end_turn_wait: a lane with no ticket outstanding is erased.
Released(l) ==
    LET n == NextServing(l)
    IN  IF n = l.next THEN EmptyLane
        ELSE [l EXCEPT !.busy = FALSE, !.serving = n,
                       !.abandoned = {a \in @ : a > n}]

EndTurn(p) ==
    /\ at[p] \in {"turn", "detached"}
    /\ lanes' = [lanes EXCEPT ![session[p]] = Released(@)]
    /\ Go(p, IF p \in Tasks THEN "ended turn" ELSE "serving")
    /\ UNCHANGED <<host, connVars, session, ticket, taskVars, ghostVars>>

-----------------------------------------------------------------------------
(* A client connection: accept_loop, serve_client, dispatch.               *)

FreeFds == Fds \ {fd[c] : c \in Conns}

\* accept_loop: a connection of the same user gets a thread of its own.  The
\* loop tests running_ when it comes round, so stop() may be too late for the
\* connection it waits for.
Accept(c) ==
    /\ accepting
    /\ at[c] = "new"
    /\ \E f \in FreeFds : fd' = [fd EXCEPT ![c] = f]
    /\ Go(c, "accepted")
    /\ accepting' = (host = "up")
    /\ UNCHANGED <<host, shut, subscribers, laneVars, taskVars, ghostVars>>

\* The poll ends with no connection to serve, and the loop ends with running_.
LeaveAcceptLoop ==
    /\ accepting /\ host # "up"
    /\ accepting' = FALSE
    /\ UNCHANGED <<host, at, fd, shut, subscribers, laneVars, taskVars,
                   ghostVars>>

Subscribe(c) ==
    /\ at[c] = "accepted"
    /\ subscribers' = subscribers \cup {fd[c]}
    /\ Go(c, "serving")
    /\ UNCHANGED <<host, accepting, fd, shut, laneVars, taskVars, ghostVars>>

\* A request arrives, or was waiting in the socket: read_line returns it and
\* it is dispatched, whatever stop() has done since running_ was tested.
Receives(c) == at[c] = "reading"

\* dispatch_ask without async: the client thread waits for its turn itself.
Ask(c, s) ==
    /\ Receives(c)
    /\ asks[c] < MaxAsks
    /\ asks' = [asks EXCEPT ![c] = @ + 1]
    /\ session' = [session EXCEPT ![c] = s]
    /\ Go(c, "ask")
    /\ UNCHANGED <<host, connVars, ticket, lanes, taskVars, askedBy, notices>>

\* run_async_ask: the task is queued before its worker thread starts.
AskAsync(c, s, t) ==
    /\ Receives(c)
    /\ at[t] = "new"
    /\ tasks' = [tasks EXCEPT ![t] = [status |-> "queued", phase |-> "queued"]]
    /\ owner' = [owner EXCEPT ![t] = fd[c]]
    /\ askedBy' = [askedBy EXCEPT ![t] = c]
    /\ session' = [session EXCEPT ![t] = s]
    /\ at' = [at EXCEPT ![t] = "ask", ![c] = "serving"]
    /\ UNCHANGED <<host, connVars, ticket, lanes, sentinels, active, fresh,
                   asks, notices>>

\* The head of serve_client's loop: the answer, if any, is written, and the
\* thread reads on unless running_ is false or the write failed.
ServeOn(c) ==
    /\ at[c] = "serving"
    /\ \/ host = "up" /\ Go(c, "reading")
       \/ Go(c, "leaving")
    /\ UNCHANGED <<host, connVars, laneVars, taskVars, ghostVars>>

\* read_line returns nothing: the peer closed, or stop() shut the socket.
Eof(c) ==
    /\ at[c] = "reading"
    /\ Go(c, "leaving")
    /\ UNCHANGED <<host, connVars, laneVars, taskVars, ghostVars>>

\* The thread unsubscribes before it closes.
Unsubscribe(c) ==
    /\ at[c] = "leaving"
    /\ subscribers' = subscribers \ {fd[c]}
    /\ Go(c, "closing")
    /\ UNCHANGED <<host, accepting, fd, shut, laneVars, taskVars, ghostVars>>

CloseClient(c) ==
    /\ at[c] = "closing"
    /\ fd' = [fd EXCEPT ![c] = None]
    /\ Go(c, "ended")
    /\ UNCHANGED <<host, accepting, shut, subscribers, laneVars, taskVars,
                   ghostVars>>

-----------------------------------------------------------------------------
(* async_worker, from its admission on.                                    *)

Registered(t) == tasks[t].status # "none"
SetTask(t, status, phase) ==
    IF Registered(t)
    THEN [tasks EXCEPT ![t] = [status |-> status, phase |-> phase]]
    ELSE tasks

\* update_task_phase(running).
MarkRunning(t) ==
    /\ at[t] = "admitted"
    /\ tasks' = SetTask(t, "running", "running")
    /\ Go(t, "running")
    /\ UNCHANGED <<host, connVars, laneVars, owner, sentinels, active, fresh,
                   ghostVars>>

AttachPhaseObserver(t) ==
    /\ at[t] = "running"
    /\ active' = t
    /\ fresh' = TRUE
    /\ Go(t, "turn")
    /\ UNCHANGED <<host, connVars, laneVars, tasks, owner, sentinels,
                   ghostVars>>

\* What detach_phase_observer leaves: no active task, no valid generation.
NotDetached == [active |-> active, fresh |-> fresh]
Detached == [active |-> None, fresh |-> FALSE]

\* The engine returned; detach_phase_observer precedes end_turn_wait.
DetachPhaseObserver(t) ==
    /\ at[t] = "turn"
    /\ active' = Detached.active
    /\ fresh' = Detached.fresh
    /\ Go(t, "detached")
    /\ UNCHANGED <<host, connVars, laneVars, tasks, owner, sentinels,
                   ghostVars>>

\* derive_async_final_state: the keyed run entry point returns OK or an
\* error, never INTERRUPTED.
FinalState == {<<"done", "done">>, <<"error", "failed">>}
Suffix(status) == CASE status = "error" -> "failed"
                    [] status = "cancelled" -> "cancelled"
                    [] OTHER -> "done"

\* commit_async_final_state: registry and sentinel under one lock.
CommitFinalState(t) ==
    /\ at[t] = "ended turn"
    /\ \E f \in FinalState :
          /\ tasks' = SetTask(t, f[1], f[2])
          /\ sentinels' = [sentinels EXCEPT ![t] = @ \cup {Suffix(f[1])}]
    /\ Go(t, "committed")
    /\ UNCHANGED <<host, connVars, laneVars, owner, active, fresh, ghostVars>>

\* notify_client: membership and send under one lock; a failed send drops the
\* subscriber.
NotifyClient(t) ==
    /\ at[t] = "committed"
    /\ LET told == {c \in Conns : fd[c] = owner[t]}
       IN  \/ /\ owner[t] \in subscribers
              /\ notices' = notices \cup {<<c, t>> : c \in told}
              /\ UNCHANGED subscribers
           \/ /\ subscribers' = subscribers \ {owner[t]}
              /\ UNCHANGED notices
    /\ Go(t, "notified")
    /\ UNCHANGED <<host, accepting, fd, shut, laneVars, taskVars, asks,
                   askedBy>>

\* cleanup_expired_tasks: whatever is older than fifteen minutes goes, done
\* or not, with its sentinels.
CleanupExpired(t) ==
    /\ at[t] = "notified"
    /\ \E old \in SUBSET Tasks :
          /\ tasks' = [u \in Tasks |-> IF u \in old THEN NoTask ELSE tasks[u]]
          /\ sentinels' = [u \in Tasks |-> IF u \in old /\ Registered(u)
                                           THEN {} ELSE sentinels[u]]
    /\ Go(t, "ended")
    /\ UNCHANGED <<host, connVars, laneVars, owner, active, fresh, ghostVars>>

\* fail_task_engine_busy, in its two lock scopes.
FailBusy(t) ==
    /\ at[t] = "busy"
    /\ tasks' = SetTask(t, "error", "engine busy")
    /\ Go(t, "failing")
    /\ UNCHANGED <<host, connVars, laneVars, owner, sentinels, active, fresh,
                   ghostVars>>

FailBusySentinel(t) ==
    /\ at[t] = "failing"
    /\ tasks' = IF Registered(t) THEN [tasks EXCEPT ![t].status = "error"] ELSE tasks
    /\ sentinels' = [sentinels EXCEPT
                        ![t] = IF Registered(t) THEN @ \cup {"failed"} ELSE @]
    /\ Go(t, "ended")
    /\ UNCHANGED <<host, connVars, laneVars, owner, active, fresh, ghostVars>>

\* phase_observer_cb: a run on the handle, of whatever session, entered
\* VERIFYING.
ObservePhase ==
    /\ \E p \in Callers : at[p] = "turn"
    /\ fresh /\ active # None /\ Registered(active)
    /\ tasks' = [tasks EXCEPT ![active].phase =
                    IF @ \in {"validating", "revising"} THEN "revising"
                    ELSE "validating"]
    /\ UNCHANGED <<host, at, connVars, laneVars, owner, sentinels, active,
                   fresh, ghostVars>>

-----------------------------------------------------------------------------
(* context_clear: cancel_inflight_async_tasks, then the conversation.      *)

Cancellable(t, s) ==
    Registered(t) /\ session[t] = s /\ tasks[t].status \in {"queued", "running"}

\* mark_tasks_cancelling; with nothing to cancel the conversation is cleared
\* at once.
MarkCancelling(c, s) ==
    /\ Receives(c)
    /\ tasks' = [t \in Tasks |->
                    IF Cancellable(t, s)
                    THEN [status |-> "cancelled", phase |-> "cancelling"]
                    ELSE tasks[t]]
    /\ Go(c, IF \E t \in Tasks : Cancellable(t, s) THEN "polling" ELSE "serving")
    /\ UNCHANGED <<host, connVars, laneVars, owner, sentinels, active, fresh,
                   ghostVars>>

\* Up to a second of polling any_cancelling_left, then a forced detach.
StopPolling(c) ==
    /\ at[c] = "polling"
    /\ active' = None
    /\ fresh' = FALSE
    /\ Go(c, "serving")
    /\ UNCHANGED <<host, connVars, laneVars, tasks, owner, sentinels,
                   ghostVars>>

-----------------------------------------------------------------------------
(* ExternalBridge::stop().                                                 *)

Stop ==
    /\ host = "up"
    /\ host' = "stopping"
    /\ UNCHANGED <<at, connVars, laneVars, taskVars, ghostVars>>

\* Once the accept thread is joined every connected socket is shut down, which
\* wakes its blocked read.
AcceptDetached == TRUE
AcceptJoined == ~accepting

ShutClients ==
    /\ host = "stopping" /\ AcceptJoined
    /\ shut' = {c \in Conns : fd[c] # None}
    /\ host' = "clients"
    /\ UNCHANGED <<at, accepting, fd, subscribers, laneVars, taskVars,
                   ghostVars>>

\* What the join of stop() waits for.
ClientsEnded == \A c \in Conns : at[c] \in {"new", "ended"}

JoinClients ==
    /\ host = "clients"
    /\ ClientsEnded
    /\ host' = "workers"
    /\ UNCHANGED <<at, connVars, laneVars, taskVars, ghostVars>>

\* join_async_workers interrupts the engine and waits.
JoinWorkers ==
    /\ host = "workers"
    /\ \A t \in Tasks : at[t] \in {"new", "ended"}
    /\ host' = "stopped"
    /\ UNCHANGED <<at, connVars, laneVars, taskVars, ghostVars>>

-----------------------------------------------------------------------------
WorkerStep(t) ==
    \/ MarkRunning(t) \/ AttachPhaseObserver(t) \/ DetachPhaseObserver(t)
    \/ CommitFinalState(t) \/ NotifyClient(t) \/ CleanupExpired(t)
    \/ FailBusy(t) \/ FailBusySentinel(t)

ClientStep(c) ==
    Subscribe(c) \/ ServeOn(c) \/ Unsubscribe(c) \/ CloseClient(c)
        \/ StopPolling(c)

\* A worker leaves its turn by detaching first, a client thread directly.
TurnStep(p) ==
    \/ TakeTicket(p) \/ Admit(p)
    \/ (p \in Conns \/ at[p] = "detached") /\ EndTurn(p)

Request(c) ==
    \/ Eof(c)
    \/ \E s \in Sessions : \/ Ask(c, s) \/ MarkCancelling(c, s)
                           \/ \E t \in Tasks : AskAsync(c, s, t)

StopStep == ShutClients \/ JoinClients \/ JoinWorkers

Stopped == host = "stopped" /\ UNCHANGED vars

Next ==
    \/ \E p \in Callers : TurnStep(p) \/ GiveUp(p)
    \/ \E t \in Tasks : WorkerStep(t)
    \/ \E c \in Conns : Accept(c) \/ ClientStep(c) \/ Request(c)
    \/ LeaveAcceptLoop \/ ObservePhase \/ Stop \/ StopStep \/ Stopped

\* Threads keep running and a turn ends; poll times out, and a read on a socket
\* that was shut down returns.  Clients, time-outs and the host's stop() are
\* free.
Fairness ==
    /\ \A t \in Tasks : WF_vars(TurnStep(t) \/ WorkerStep(t))
    /\ \A c \in Conns : WF_vars(\/ TurnStep(c) \/ ClientStep(c)
                                \/ c \in shut /\ Eof(c))
    /\ WF_vars(LeaveAcceptLoop) /\ WF_vars(StopStep)

Spec == Init /\ [][Next]_vars /\ Fairness

-----------------------------------------------------------------------------
(* Properties.                                                             *)

MaxTicket == Cardinality(Tasks) + MaxAsks * Cardinality(Conns)

\* Every variable keeps its type; waiters, a size_t, never goes below zero and
\* never counts more than the callers there are.
TypeOK ==
    /\ host \in {"up", "stopping", "clients", "workers", "stopped"}
    /\ accepting \in BOOLEAN
    /\ at \in [Callers -> {"new", "accepted", "reading", "ask", "first",
                 "waiting", "turn", "serving", "leaving", "closing", "ended",
                 "polling", "admitted", "running", "detached", "ended turn",
                 "committed", "notified", "busy", "failing"}]
    /\ fd \in [Conns -> Fds \cup {None}]
    /\ shut \in SUBSET Conns
    /\ session \in [Callers -> Sessions \cup {None}]
    /\ ticket \in [Callers -> Nat]
    /\ \A s \in Sessions :
          /\ lanes[s].next \in Nat /\ lanes[s].serving \in 0..lanes[s].next
          /\ lanes[s].waiters \in 0..Cardinality(Callers)
          /\ lanes[s].busy \in BOOLEAN
          /\ lanes[s].abandoned \subseteq lanes[s].serving..lanes[s].next
    /\ \A t \in Tasks :
          tasks[t].status \in {"none", "queued", "running", "cancelled", "done",
                               "error"}
    /\ owner \in [Tasks -> Fds \cup {None}]
    /\ sentinels \in [Tasks -> SUBSET {"done", "failed", "cancelled"}]
    /\ active \in Tasks \cup {None} /\ fresh \in BOOLEAN
    /\ subscribers \in SUBSET Fds
    /\ asks \in [Conns -> 0..MaxAsks]
    /\ askedBy \in [Tasks -> Conns \cup {None}]
    /\ notices \in SUBSET (Conns \X Tasks)

\* Two callers never hold the turn of one session at the same time (REQ-
\* BRIDGE-001: a refusal with ALREADY_RUNNING is never reached from here).
LaneExclusion ==
    \A p, q \in Callers :
        p # q /\ at[p] \in Holding /\ at[q] \in Holding
            => session[p] # session[q]

\* The ticket being served belongs to a caller that holds the turn or is
\* waiting for it: no lane stalls on a ticket its owner gave up.
NoLostTicket ==
    \A s \in Sessions :
        lanes[s] # EmptyLane =>
            \E p \in Callers :
                /\ session[p] = s /\ ticket[p] = lanes[s].serving
                /\ at[p] \in Holding \cup {"first", "waiting"}

\* What a task reports once it is final stays: neither a late phase callback
\* nor a cancellation changes it while it is in the registry.
TaskFinal ==
    [][\A t \in Tasks :
          at[t] \in {"committed", "notified", "ended"} =>
              tasks'[t] \in {tasks[t], NoTask}]_vars

\* After stop() has returned no thread of the bridge is left to touch it: not
\* the one of a connection accepted, nor the worker of an ask dispatched, after
\* running_ was cleared.
StoppedQuiet ==
    host = "stopped" =>
        /\ ~accepting
        /\ \A p \in Callers : at[p] \in {"new", "ended"}

\* stop() returns, whenever it is called: it joins the accept thread, every
\* client thread and every worker, so none of them waits for ever on a ticket, a
\* turn or a read, the one a late connection or a late line starts included.
StopReturns == host = "stopping" ~> host = "stopped"

\* A completion notice goes to the connection that started the ask ("notifies
\* only the client that started it", async_worker).
\* The code does not keep it; see the README's known disagreements.
NotifiesOwner == \A n \in notices : askedBy[n[2]] = n[1]

\* context_clear cancels asks "so they do not continue running against a stale
\* context": a cancelled ask does not start to run.
\* The code does not keep it; see the README's known disagreements.
CancelledStaysCancelled ==
    [][\A t \in Tasks :
          tasks[t].status = "cancelled" => tasks'[t].status # "running"]_vars
=============================================================================
