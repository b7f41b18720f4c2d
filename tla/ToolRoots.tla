------------------------------ MODULE ToolRoots ------------------------------
(***************************************************************************)
(* Where a session's tools work: the server set its workspace binds it to, *)
(* the root lock of each set, the sandboxes of delegations, in-process     *)
(* dispatch, and the per-session state the tool servers keep.              *)
(*                                                                         *)
(* Source: src/mcp/tool_root_lock.cpp, server_manager.cpp, session_scoped.h*)
(* filesystem.cpp (FileAccessTracker), src/core/sandbox.cpp,               *)
(* delegation.cpp, src/facade/entropic_mcp.cpp, entropic.cpp.              *)
(*                                                                         *)
(* A turn of a session is one thread; a delegated child runs on its        *)
(* parent's thread, under its parent's session key.  A directory is        *)
(* <<workspace, 0>> for a project root and <<session, n>> for the sandbox  *)
(* of the n-th nested delegation of that session.                          *)
(***************************************************************************)
EXTENDS Naturals, Sequences, FiniteSets

CONSTANTS
    Sessions,        \* session keys
    Workspaces,      \* server sets
    Default,         \* the set of sessions that are not bound
    MidTurnBind,     \* may the host bind a session while its turn runs?
    MaxCalls,        \* bound: tool calls per session
    MaxDelegations,  \* bound: delegations per session
    None             \* nobody

ASSUME ToolRootsAssumption ==
    /\ IsFiniteSet(Sessions) /\ IsFiniteSet(Workspaces)
    /\ Sessions \cap Workspaces = {}
    /\ Default \in Workspaces
    /\ MidTurnBind \in BOOLEAN
    /\ MaxCalls \in Nat /\ MaxDelegations \in Nat
    /\ None \notin Sessions

Project(w) == <<w, 0>>

VARIABLES
    pc,        \* where the turn of each session is
    binding,   \* session_workspace: the set a session's tools run on
    messages,  \* does the session hold messages?
    servers,   \* the set the current dispatch or swap resolved
    shared,    \* ToolRootShared::held_
    scopes,    \* the ScopedSandboxes of a turn: [dir, restore], outermost first
    owner,     \* ToolRootLock::owner_ of each set
    depth,     \* ToolRootLock::depth_
    readers,   \* sessions that hold the lock of a set shared
    root,      \* the working directory of the servers of a set
    reads,     \* FileAccessTracker: <<set, session, directory>> was read in
    left       \* bound: calls and delegations left

lockVars == <<owner, depth, readers, root>>
vars == <<pc, binding, messages, servers, shared, scopes, lockVars, reads,
          left>>

Init ==
    /\ pc = [s \in Sessions |-> "idle"]
    /\ binding = [s \in Sessions |-> Default]
    /\ messages = [s \in Sessions |-> FALSE]
    /\ servers = [s \in Sessions |-> Default]
    /\ shared = [s \in Sessions |-> FALSE]
    /\ scopes = [s \in Sessions |-> <<>>]
    /\ owner = [w \in Workspaces |-> None]
    /\ depth = [w \in Workspaces |-> 0]
    /\ readers = [w \in Workspaces |-> {}]
    /\ root = [w \in Workspaces |-> Project(w)]
    /\ reads = {}
    /\ left = [s \in Sessions |-> [calls |-> MaxCalls,
                                   delegations |-> MaxDelegations]]

Go(s, to) == pc' = [pc EXCEPT ![s] = to]

\* workspace_servers: looked up anew by every dispatch and every swap.
Resolve(s) == servers' = [servers EXCEPT ![s] = binding[s]]

\* LoopContext::active_root of the innermost child, or the session's root.
ActiveRoot(s) ==
    IF scopes[s] = <<>> THEN Project(binding[s])
    ELSE scopes[s][Len(scopes[s])].dir

-----------------------------------------------------------------------------
(* The turn of a session.                                                  *)

BeginTurn(s) ==
    /\ pc[s] = "idle"
    /\ left[s].calls > 0 \/ left[s].delegations > 0
    /\ messages' = [messages EXCEPT ![s] = TRUE]
    /\ Go(s, "turn")
    /\ UNCHANGED <<binding, servers, shared, scopes, lockVars, reads, left>>

\* The turn stores its messages.
EndTurn(s) ==
    /\ pc[s] = "turn" /\ scopes[s] = <<>>
    /\ messages' = [messages EXCEPT ![s] = TRUE]
    /\ Go(s, "idle")
    /\ UNCHANGED <<binding, servers, shared, scopes, lockVars, reads, left>>

-----------------------------------------------------------------------------
(* ServerManager::execute on an in-process or plugin server.               *)

Dispatch(s) ==
    /\ pc[s] = "turn" /\ left[s].calls > 0
    /\ left' = [left EXCEPT ![s].calls = @ - 1]
    /\ Resolve(s)
    /\ Go(s, "dispatch")
    /\ UNCHANGED <<binding, messages, shared, scopes, lockVars, reads>>

\* ToolRootLock::lock_shared: the owner passes, everybody else waits for him.
SharedFree(s, w) == owner[w] \in {None, s}

LockShared(s) ==
    LET w == servers[s]
    IN  /\ pc[s] = "dispatch" /\ SharedFree(s, w)
        /\ shared' = [shared EXCEPT ![s] = owner[w] # s]
        /\ readers' = IF owner[w] = s THEN readers
                      ELSE [readers EXCEPT ![w] = @ \cup {s}]
        /\ Go(s, "tool")
        /\ UNCHANGED <<binding, messages, servers, scopes, owner, depth, root,
                       reads, left>>

\* The tool runs; a read is recorded under the running session's key.  The
\* guard releases its hold, if it took one.
RunTool(s) ==
    LET w == servers[s]
    IN  /\ pc[s] = "tool"
        /\ \/ reads' = reads \cup {<<w, s, root[w]>>}
           \/ UNCHANGED reads
        /\ readers' = [readers EXCEPT ![w] = @ \ {s}]
        /\ shared' = [shared EXCEPT ![s] = FALSE]
        /\ Go(s, "turn")
        /\ UNCHANGED <<binding, messages, servers, scopes, owner, depth, root,
                       left>>

-----------------------------------------------------------------------------
(* A delegation in a sandbox.                                              *)

\* check_delegation_preconditions: rejected or without a sandbox, the
\* delegation fails; otherwise ScopedSandbox swaps the directory.
Delegate(s) ==
    /\ pc[s] = "turn" /\ left[s].delegations > 0
    /\ left' = [left EXCEPT ![s].delegations = @ - 1]
    /\ \/ Go(s, "entering") /\ Resolve(s)
       \/ UNCHANGED <<pc, servers>>
    /\ UNCHANGED <<binding, messages, shared, scopes, lockVars, reads>>

\* restore_root_for: the parent's own directory.
RestoreProject(s) == Project(binding[s])
RestoreRoot(s) == ActiveRoot(s)

\* enter_working_dir: ToolRootLock::lock, re-entrant, then every server moves.
EnterSandbox(s) ==
    LET w == servers[s]
        dir == <<s, Len(scopes[s]) + 1>>
    IN  /\ pc[s] = "entering"
        /\ owner[w] = s \/ (owner[w] = None /\ readers[w] = {})
        /\ owner' = [owner EXCEPT ![w] = s]
        /\ depth' = [depth EXCEPT ![w] = @ + 1]
        /\ root' = [root EXCEPT ![w] = dir]
        /\ scopes' = [scopes EXCEPT ![s] =
                         Append(@, [dir |-> dir, restore |-> RestoreRoot(s)])]
        /\ Go(s, "turn")
        /\ UNCHANGED <<binding, messages, servers, shared, readers, reads,
                       left>>

\* ToolRootLock::unlock.
KeepOwner(w) == owner[w]
OwnerAfterUnlock(w) == IF depth[w] = 1 THEN None ELSE owner[w]

\* The child is done: ~ScopedSandbox asks for the session's set again, and
\* leave_working_dir refuses a thread that does not own its lock.
LeaveSandbox(s) ==
    LET w == binding[s]
        n == Len(scopes[s])
    IN  /\ pc[s] = "turn" /\ n > 0
        /\ IF owner[w] = s
           THEN /\ root' = [root EXCEPT ![w] = scopes[s][n].restore]
                /\ owner' = [owner EXCEPT ![w] = OwnerAfterUnlock(w)]
                /\ depth' = [depth EXCEPT ![w] = @ - 1]
           ELSE UNCHANGED <<root, owner, depth>>
        /\ scopes' = [scopes EXCEPT ![s] = SubSeq(@, 1, n - 1)]
        /\ UNCHANGED <<pc, binding, messages, servers, shared, readers, reads,
                       left>>

-----------------------------------------------------------------------------
(* The host's calls, at any moment of a turn.                              *)

\* release_session_tool_state: the default set and every workspace.
ReleasedDefault(s) == {r \in reads : r[1] = Default /\ r[2] = s}
Released(s) == {r \in reads : r[2] = s}

\* entropic_session_context_clear and entropic_session_drop.
ClearSession(s) ==
    /\ messages[s]
    /\ messages' = [messages EXCEPT ![s] = FALSE]
    /\ reads' = reads \ Released(s)
    /\ UNCHANGED <<pc, binding, servers, shared, scopes, lockVars, left>>

\* entropic_session_bind_workspace refuses a session that holds messages; it
\* does not ask whether a turn of the session is running.
BindWorkspace(s, w) ==
    /\ ~messages[s]
    /\ MidTurnBind \/ pc[s] = "idle"
    /\ binding' = [binding EXCEPT ![s] = w]
    /\ UNCHANGED <<pc, messages, servers, shared, scopes, lockVars, reads,
                   left>>

-----------------------------------------------------------------------------
TurnStep(s) ==
    \/ Dispatch(s) \/ LockShared(s) \/ RunTool(s)
    \/ Delegate(s) \/ EnterSandbox(s) \/ LeaveSandbox(s) \/ EndTurn(s)

Host(s) == ClearSession(s) \/ \E w \in Workspaces : BindWorkspace(s, w)

Next == \E s \in Sessions : BeginTurn(s) \/ TurnStep(s) \/ Host(s)

\* A turn keeps running; its calls and delegations are bounded.
Fairness == \A s \in Sessions : WF_vars(TurnStep(s))

Spec == Init /\ [][Next]_vars /\ Fairness

-----------------------------------------------------------------------------
(* Properties.                                                             *)

\* A tool works in the directory of the agent that called it: a sandboxed
\* child in its sandbox, everybody else in the root of the workspace the
\* session is bound to ("Every tool call that session makes - and every
\* delegation sandbox it opens - then resolves against that workspace's root
\* and servers", entropic_session_bind_workspace).
IsolatedDispatch ==
    \A s \in Sessions : pc[s] = "tool" => root[servers[s]] = ActiveRoot(s)

\* A server set no delegation is using is back in its project, unlocked.
RootsRestored ==
    \A w \in Workspaces :
        (\A s \in Sessions : scopes[s] = <<>> \/ binding[s] # w) =>
            root[w] = Project(w) /\ owner[w] = None /\ depth[w] = 0

\* A conversation that was cleared has read nothing: no server set keeps
\* read-before-write state of a session that is idle and holds no messages.
ClearedHasReadNothing ==
    \A r \in reads : messages[r[2]] \/ pc[r[2]] # "idle"

\* Every turn ends: no dispatch and no delegation waits for ever for the root
\* lock of its server set.
TurnEnds == \A s \in Sessions : pc[s] # "idle" ~> pc[s] = "idle"
=============================================================================
