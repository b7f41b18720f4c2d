--------------------------- MODULE ToolRootsProofs ---------------------------
(***************************************************************************)
(* Proofs about ToolRoots, for any sets of sessions and server sets and    *)
(* any number of calls and delegations.  The argument is ownership: a set  *)
(* has an owner exactly while one session has sandboxes open on it, its    *)
(* root is then that session's innermost sandbox, and nobody else's        *)
(* dispatch runs on it.                                                    *)
(***************************************************************************)
EXTENDS ToolRoots, SequenceTheorems, TLAPS

Dirs == (Workspaces \cup Sessions) \X Nat
Scope == [dir : Dirs, restore : Dirs]

TypeOK ==
    /\ pc \in [Sessions -> {"idle", "turn", "dispatch", "tool", "entering"}]
    /\ binding \in [Sessions -> Workspaces]
    /\ messages \in [Sessions -> BOOLEAN]
    /\ servers \in [Sessions -> Workspaces]
    /\ shared \in [Sessions -> BOOLEAN]
    /\ scopes \in [Sessions -> Seq(Scope)]
    /\ owner \in [Workspaces -> Sessions \cup {None}]
    /\ depth \in [Workspaces -> Nat]
    /\ readers \in [Workspaces -> SUBSET Sessions]
    /\ root \in [Workspaces -> Dirs]
    /\ reads \in SUBSET (Workspaces \X Sessions \X Dirs)
    /\ left \in [Sessions -> [calls : Nat, delegations : Nat]]

\* A lock has an owner exactly while it is held.
Counted == \A w \in Workspaces : owner[w] = None <=> depth[w] = 0

\* What a dispatch or a delegation resolved is still what its session is bound
\* to, and a turn leaves no sandbox behind.
Resolved ==
    \A s \in Sessions :
        /\ pc[s] \in {"dispatch", "tool", "entering"} => servers[s] = binding[s]
        /\ pc[s] = "idle" => scopes[s] = <<>>

\* The owner of a set is the session with sandboxes open on it, once per
\* sandbox.
Owned ==
    /\ \A w \in Workspaces, s \in Sessions :
          owner[w] = s <=> (scopes[s] # <<>> /\ binding[s] = w)
    /\ \A w \in Workspaces, s \in Sessions :
          owner[w] = s => depth[w] = Len(scopes[s])

\* The servers of a set work in its owner's innermost sandbox.
Rooted ==
    /\ \A w \in Workspaces : owner[w] = None => root[w] = Project(w)
    /\ \A w \in Workspaces, s \in Sessions :
          owner[w] = s => root[w] = ActiveRoot(s)

\* A sandbox restores the directory of the one around it, the outermost the
\* project.
Nested ==
    \A s \in Sessions : \A i \in 1..Len(scopes[s]) :
        scopes[s][i].restore = IF i = 1 THEN Project(binding[s])
                               ELSE scopes[s][i - 1].dir

\* A tool runs under a shared hold on a set without owner, or as its owner.
Held ==
    /\ \A w \in Workspaces : readers[w] # {} => owner[w] = None
    /\ \A s \in Sessions :
          pc[s] = "tool" => s \in readers[servers[s]] \/ owner[servers[s]] = s

Inv == Resolved /\ Owned /\ Rooted /\ Nested /\ Held

USE DEF vars, lockVars

(***************************************************************************)
(* Types.                                                                  *)
(***************************************************************************)
\* The project roots, the sandboxes and the directories a turn works in are
\* directories.
LEMMA DirTypes ==
    ASSUME TypeOK, NEW s \in Sessions
    PROVE  /\ Project(binding[s]) \in Dirs
           /\ <<s, Len(scopes[s]) + 1>> \in Dirs
           /\ ActiveRoot(s) \in Dirs
<1>1. /\ binding[s] \in Workspaces
      /\ scopes[s] \in Seq(Scope)
      /\ Len(scopes[s]) \in Nat
  BY DEF TypeOK
<1>2. Project(binding[s]) \in Dirs
  BY <1>1 DEF Project, Dirs
<1>3. <<s, Len(scopes[s]) + 1>> \in Dirs
  BY <1>1 DEF Dirs
<1>4. scopes[s] # <<>> => scopes[s][Len(scopes[s])] \in Scope
  BY <1>1
<1>5. ActiveRoot(s) \in Dirs
  BY <1>2, <1>4 DEF ActiveRoot, Scope
<1> QED BY <1>2, <1>3, <1>5

\* Every action keeps the types, and a lock has an owner while it is held.
LEMMA TypeStep ==
    ASSUME TypeOK, Counted, [Next]_vars
    PROVE  TypeOK' /\ Counted'
<1>1. ASSUME NEW s \in Sessions, BeginTurn(s)
      PROVE  TypeOK' /\ Counted'
  BY <1>1 DEF TypeOK, Counted, BeginTurn, Go
<1>2. ASSUME NEW s \in Sessions, EndTurn(s)
      PROVE  TypeOK' /\ Counted'
  BY <1>2 DEF TypeOK, Counted, EndTurn, Go
<1>3. ASSUME NEW s \in Sessions, Dispatch(s)
      PROVE  TypeOK' /\ Counted'
  <2>1. left[s] \in [calls : Nat, delegations : Nat] /\ left[s].calls - 1 \in Nat
    BY <1>3 DEF TypeOK, Dispatch
  <2>2. left' \in [Sessions -> [calls : Nat, delegations : Nat]]
    BY <1>3, <2>1 DEF TypeOK, Dispatch
  <2> QED BY <1>3, <2>2 DEF TypeOK, Counted, Dispatch, Resolve, Go
<1>4. ASSUME NEW s \in Sessions, LockShared(s)
      PROVE  TypeOK' /\ Counted'
  BY <1>4 DEF TypeOK, Counted, LockShared, Go
<1>5. ASSUME NEW s \in Sessions, RunTool(s)
      PROVE  TypeOK' /\ Counted'
  BY <1>5 DEF TypeOK, Counted, RunTool, Go
<1>6. ASSUME NEW s \in Sessions, Delegate(s)
      PROVE  TypeOK' /\ Counted'
  <2>1. /\ left[s] \in [calls : Nat, delegations : Nat]
        /\ left[s].delegations - 1 \in Nat
    BY <1>6 DEF TypeOK, Delegate
  <2>2. left' \in [Sessions -> [calls : Nat, delegations : Nat]]
    BY <1>6, <2>1 DEF TypeOK, Delegate
  <2> QED BY <1>6, <2>2 DEF TypeOK, Counted, Delegate, Resolve, Go
<1>7. ASSUME NEW s \in Sessions, EnterSandbox(s)
      PROVE  TypeOK' /\ Counted'
  <2>1. [dir |-> <<s, Len(scopes[s]) + 1>>, restore |-> RestoreRoot(s)] \in Scope
    BY DirTypes DEF Scope, RestoreRoot
  <2>2. scopes' \in [Sessions -> Seq(Scope)]
    BY <1>7, <2>1 DEF TypeOK, EnterSandbox
  <2>3. root' \in [Workspaces -> Dirs]
    BY <1>7, DirTypes DEF TypeOK, EnterSandbox
  <2> DEFINE w == servers[s]
  <2>4. /\ w \in Workspaces /\ s # None
        /\ owner' = [owner EXCEPT ![w] = s]
        /\ depth' = [depth EXCEPT ![w] = @ + 1]
    BY <1>7, ToolRootsAssumption DEF TypeOK, EnterSandbox
  <2>5. /\ owner' \in [Workspaces -> Sessions \cup {None}]
        /\ depth' \in [Workspaces -> Nat]
    BY <2>4 DEF TypeOK
  <2>6. TypeOK'
    BY <1>7, <2>2, <2>3, <2>5 DEF TypeOK, EnterSandbox, Go
  <2>7. Counted'
    BY <2>4 DEF TypeOK, Counted
  <2> QED BY <2>6, <2>7
<1>8. ASSUME NEW s \in Sessions, LeaveSandbox(s)
      PROVE  TypeOK' /\ Counted'
  <2>1. /\ scopes[s] \in Seq(Scope)
        /\ Len(scopes[s]) \in Nat
        /\ Len(scopes[s]) > 0
    BY <1>8 DEF TypeOK, LeaveSandbox
  <2>2. SubSeq(scopes[s], 1, Len(scopes[s]) - 1) \in Seq(Scope)
    BY <2>1
  <2>3. scopes[s][Len(scopes[s])].restore \in Dirs
    <3>1. scopes[s][Len(scopes[s])] \in Scope
      BY <2>1
    <3> QED BY <3>1 DEF Scope
  <2>4. scopes' \in [Sessions -> Seq(Scope)]
    BY <1>8, <2>2 DEF TypeOK, LeaveSandbox
  <2>5. root' \in [Workspaces -> Dirs]
    BY <1>8, <2>3 DEF TypeOK, LeaveSandbox
  <2> DEFINE w == binding[s]
  <2>6. w \in Workspaces /\ depth[w] \in Nat
    BY DEF TypeOK
  <2>7. CASE owner[w] = s
    <3>1. /\ depth[w] # 0
          /\ owner' = [owner EXCEPT ![w] = IF depth[w] = 1 THEN None ELSE owner[w]]
          /\ depth' = [depth EXCEPT ![w] = @ - 1]
      BY <1>8, <2>6, <2>7, ToolRootsAssumption
      DEF Counted, LeaveSandbox, OwnerAfterUnlock
    <3>2. /\ owner' \in [Workspaces -> Sessions \cup {None}]
          /\ depth' \in [Workspaces -> Nat]
      BY <2>6, <3>1 DEF TypeOK
    <3>3. TypeOK'
      BY <1>8, <2>4, <2>5, <3>2 DEF TypeOK, LeaveSandbox
    <3>4. Counted'
      BY <2>6, <3>1 DEF TypeOK, Counted
    <3> QED BY <3>3, <3>4
  <2>8. CASE owner[w] # s
    BY <1>8, <2>4, <2>5, <2>8 DEF TypeOK, Counted, LeaveSandbox
  <2> QED BY <2>7, <2>8
<1>9. ASSUME NEW s \in Sessions, ClearSession(s)
      PROVE  TypeOK' /\ Counted'
  BY <1>9 DEF TypeOK, Counted, ClearSession, Released
<1>10. ASSUME NEW s \in Sessions, NEW w \in Workspaces, BindWorkspace(s, w)
       PROVE  TypeOK' /\ Counted'
  BY <1>10 DEF TypeOK, Counted, BindWorkspace
<1>11. CASE UNCHANGED vars
  BY <1>11 DEF TypeOK, Counted
<1> QED BY <1>1, <1>2, <1>3, <1>4, <1>5, <1>6, <1>7, <1>8, <1>9, <1>10, <1>11
        DEF Next, TurnStep, Host

\* Init satisfies the types.
LEMMA TypeInit == Init => TypeOK /\ Counted
BY ToolRootsAssumption
DEF Init, TypeOK, Counted, Project, Dirs

\* The types hold in every reachable state, and a lock has an owner exactly
\* while it is held, whatever the host does.
THEOREM TypeCorrect == Spec => [](TypeOK /\ Counted)
<1>1. TypeOK /\ Counted /\ [Next]_vars => (TypeOK /\ Counted)'
  BY TypeStep
<1> QED BY <1>1, TypeInit, PTL DEF Spec

(***************************************************************************)
(* Ownership of the root locks, for a host that binds idle sessions.       *)
(***************************************************************************)
\* Initially no set has an owner.
LEMMA InvInit == Init => Inv
BY ToolRootsAssumption
DEF Init, Inv, Resolved, Owned, Rooted, Nested, Held

\* What a sequence is after an append.
LEMMA AppendFacts ==
    ASSUME NEW S, NEW q \in Seq(S), NEW e \in S
    PROVE  /\ Len(Append(q, e)) = Len(q) + 1
           /\ Append(q, e)[Len(q) + 1] = e
           /\ \A i \in 1..Len(q) : Append(q, e)[i] = q[i]
           /\ Append(q, e) # <<>>
OBVIOUS

\* What a sequence is after its last element is dropped.
LEMMA FrontFacts ==
    ASSUME NEW S, NEW q \in Seq(S), Len(q) > 0
    PROVE  /\ Len(q) \in 1..Len(q)
           /\ Len(q) # 1 => Len(q) - 1 \in 1..(Len(q) - 1)
           /\ Len(SubSeq(q, 1, Len(q) - 1)) = Len(q) - 1
           /\ \A i \in 1..(Len(q) - 1) : SubSeq(q, 1, Len(q) - 1)[i] = q[i]
           /\ SubSeq(q, 1, Len(q) - 1) = <<>> <=> Len(q) = 1
<1> DEFINE n == Len(q)
<1>1. n \in Nat /\ n > 0 /\ n = Len(q)
  OBVIOUS
<1> HIDE DEF n
<1>2. n \in 1..n /\ (n # 1 => n - 1 \in 1..(n - 1))
  BY <1>1
<1>3. /\ Len(SubSeq(q, 1, n - 1)) = n - 1
      /\ \A i \in 1..(n - 1) : SubSeq(q, 1, n - 1)[i] = q[i]
  BY <1>1
<1>4. SubSeq(q, 1, n - 1) = <<>> <=> n = 1
  <2> DEFINE r == SubSeq(q, 1, n - 1)
  <2>1. r \in Seq(S) /\ Len(r) = n - 1
    BY <1>1, <1>3
  <2> HIDE DEF r
  <2>2. r = <<>> <=> Len(r) = 0
    BY <2>1, EmptySeq
  <2>3. r = <<>> <=> n = 1
    BY <1>1, <2>1, <2>2
  <2> QED BY <2>3 DEF r
<1> QED BY <1>2, <1>3, <1>4 DEF n

\* A step that touches neither the locks nor the sandboxes nor the bindings
\* keeps the ownership of the locks.
LEMMA LocksUntouched ==
    ASSUME TypeOK, Owned, Rooted, Nested,
           UNCHANGED <<scopes, binding, owner, depth, root>>
    PROVE  Owned' /\ Rooted' /\ Nested'
BY DEF Owned, Rooted, Nested, ActiveRoot

\* Every action keeps the ownership of the locks.
LEMMA InvStep ==
    ASSUME TypeOK, Counted, Inv, ~MidTurnBind, [Next]_vars
    PROVE  Inv'
<1> USE DEF Inv
<1>1. ASSUME NEW s \in Sessions, BeginTurn(s)
      PROVE  Inv'
  BY <1>1, LocksUntouched DEF TypeOK, Resolved, Held, BeginTurn, Go
<1>2. ASSUME NEW s \in Sessions, EndTurn(s)
      PROVE  Inv'
  BY <1>2, LocksUntouched DEF TypeOK, Resolved, Held, EndTurn, Go
<1>3. ASSUME NEW s \in Sessions, Dispatch(s)
      PROVE  Inv'
  BY <1>3, LocksUntouched DEF TypeOK, Resolved, Held, Dispatch, Resolve, Go
<1>4. ASSUME NEW s \in Sessions, LockShared(s)
      PROVE  Inv'
  <2>1. Owned' /\ Rooted' /\ Nested'
    BY <1>4, LocksUntouched DEF LockShared
  <2>2. Resolved'
    BY <1>4 DEF TypeOK, Resolved, LockShared, Go
  <2>3. Held'
    BY <1>4, ToolRootsAssumption DEF TypeOK, Held, LockShared, SharedFree, Go
  <2> QED BY <2>1, <2>2, <2>3
<1>5. ASSUME NEW s \in Sessions, RunTool(s)
      PROVE  Inv'
  <2>1. Owned' /\ Rooted' /\ Nested'
    BY <1>5, LocksUntouched DEF RunTool
  <2>2. Resolved'
    BY <1>5 DEF TypeOK, Resolved, RunTool, Go
  <2>3. Held'
    BY <1>5 DEF TypeOK, Held, RunTool, Go
  <2> QED BY <2>1, <2>2, <2>3
<1>6. ASSUME NEW s \in Sessions, Delegate(s)
      PROVE  Inv'
  <2>1. Owned' /\ Rooted' /\ Nested'
    BY <1>6, LocksUntouched DEF Delegate
  <2>2. CASE UNCHANGED <<pc, servers>>
    BY <1>6, <2>1, <2>2 DEF Resolved, Held, Delegate
  <2>3. CASE Go(s, "entering") /\ Resolve(s)
    <3>1. Resolved'
      BY <1>6, <2>3 DEF TypeOK, Resolved, Delegate, Resolve, Go
    <3>2. Held'
      BY <1>6, <2>3 DEF TypeOK, Held, Delegate, Resolve, Go
    <3> QED BY <2>1, <3>1, <3>2
  <2> QED BY <1>6, <2>2, <2>3 DEF Delegate
<1>7. ASSUME NEW s \in Sessions, EnterSandbox(s)
      PROVE  Inv'
  <2> DEFINE w == binding[s]
             dir == <<s, Len(scopes[s]) + 1>>
             new == [dir |-> dir, restore |-> ActiveRoot(s)]
  <2>1. /\ w \in Workspaces /\ s # None /\ servers[s] = w
        /\ scopes[s] \in Seq(Scope) /\ Len(scopes[s]) \in Nat
        /\ pc[s] = "entering"
        /\ owner[w] = s \/ (owner[w] = None /\ readers[w] = {})
        /\ owner' = [owner EXCEPT ![w] = s]
        /\ depth' = [depth EXCEPT ![w] = @ + 1]
        /\ root' = [root EXCEPT ![w] = dir]
        /\ scopes' = [scopes EXCEPT ![s] = Append(scopes[s], new)]
        /\ pc' = [pc EXCEPT ![s] = "turn"]
        /\ UNCHANGED <<binding, servers, readers>>
    <3>1. /\ w \in Workspaces /\ s # None /\ servers[s] = w
          /\ scopes[s] \in Seq(Scope) /\ Len(scopes[s]) \in Nat
          /\ pc[s] = "entering"
      BY <1>7, ToolRootsAssumption DEF TypeOK, Resolved, EnterSandbox
    <3> QED BY <1>7, <3>1 DEF EnterSandbox, RestoreRoot, Go
  <2>2. new \in Scope
    BY DirTypes DEF Scope
  <2>3. /\ scopes'[s] = Append(scopes[s], new)
        /\ \A t \in Sessions : t # s => scopes'[t] = scopes[t]
        /\ Len(scopes'[s]) = Len(scopes[s]) + 1
        /\ scopes'[s][Len(scopes[s]) + 1] = new
        /\ \A i \in 1..Len(scopes[s]) : scopes'[s][i] = scopes[s][i]
        /\ scopes'[s] # <<>>
    <3>1. scopes'[s] = Append(scopes[s], new)
      BY <2>1 DEF TypeOK
    <3>2. \A t \in Sessions : t # s => scopes'[t] = scopes[t]
      BY <2>1 DEF TypeOK
    <3>3. /\ Len(Append(scopes[s], new)) = Len(scopes[s]) + 1
          /\ Append(scopes[s], new)[Len(scopes[s]) + 1] = new
          /\ \A i \in 1..Len(scopes[s]) :
                Append(scopes[s], new)[i] = scopes[s][i]
          /\ Append(scopes[s], new) # <<>>
      <4>1. scopes[s] \in Seq(Scope)
        BY <2>1
      <4> HIDE DEF new
      <4> QED BY <2>2, <4>1, AppendFacts
    <3> HIDE DEF new
    <3> QED BY <3>1, <3>2, <3>3
  <2>4. Resolved'
    BY <2>1, <2>3 DEF TypeOK, Resolved
  <2>5. depth[w] = Len(scopes[s])
    <3>1. CASE owner[w] = s
      BY <2>1, <3>1 DEF Owned
    <3>2. CASE owner[w] = None
      <4>1. scopes[s] = <<>> /\ depth[w] = 0
        BY <2>1, <3>2 DEF Owned, Counted
      <4> QED BY <4>1
    <3> QED BY <2>1, <3>1, <3>2
  <2>6. Owned'
    <3>1. \A v \in Workspaces : owner'[v] = IF v = w THEN s ELSE owner[v]
      BY <2>1 DEF TypeOK
    <3>2. ASSUME NEW v \in Workspaces, NEW t \in Sessions
          PROVE  owner'[v] = t <=> (scopes'[t] # <<>> /\ binding'[t] = v)
      BY <2>1, <2>3, <3>1, ToolRootsAssumption DEF TypeOK, Owned
    <3>3. ASSUME NEW v \in Workspaces, NEW t \in Sessions, owner'[v] = t
          PROVE  depth'[v] = Len(scopes'[t])
      <4>1. CASE v = w
        <5>1. t = s
          BY <3>1, <3>3, <4>1
        <5> QED BY <2>1, <2>3, <2>5, <4>1, <5>1 DEF TypeOK
      <4>2. CASE v # w
        <5>1. owner[v] = t /\ depth'[v] = depth[v]
          BY <2>1, <3>1, <3>3, <4>2 DEF TypeOK
        <5>2. t # s
          BY <5>1, <4>2 DEF Owned
        <5> QED BY <2>3, <5>1, <5>2 DEF Owned
      <4> QED BY <4>1, <4>2
    <3> QED BY <3>2, <3>3 DEF Owned
  <2>7. Rooted'
    <3>1. \A v \in Workspaces :
             /\ owner'[v] = IF v = w THEN s ELSE owner[v]
             /\ root'[v] = IF v = w THEN dir ELSE root[v]
      BY <2>1 DEF TypeOK
    <3>2. ActiveRoot(s)' = dir
      BY <2>3 DEF ActiveRoot
    <3>3. ASSUME NEW t \in Sessions, t # s
          PROVE  ActiveRoot(t)' = ActiveRoot(t)
      BY <2>1, <2>3, <3>3 DEF ActiveRoot
    <3>4. ASSUME NEW v \in Workspaces, owner'[v] = None
          PROVE  root'[v] = Project(v)
      BY <2>1, <3>1, <3>4 DEF Rooted
    <3>5. ASSUME NEW v \in Workspaces, NEW t \in Sessions, owner'[v] = t
          PROVE  root'[v] = ActiveRoot(t)'
      <4>1. CASE v = w
        BY <3>1, <3>2, <3>5, <4>1
      <4>2. CASE v # w
        <5>1. owner[v] = t /\ root'[v] = root[v]
          BY <3>1, <3>5, <4>2
        <5>2. t # s
          BY <5>1, <4>2 DEF Owned
        <5> QED BY <3>3, <5>1, <5>2 DEF Rooted
      <4> QED BY <4>1, <4>2
    <3> QED BY <3>4, <3>5 DEF Rooted
  <2>8. Nested'
    <3>1. ASSUME NEW t \in Sessions, NEW i \in 1..Len(scopes'[t])
          PROVE  scopes'[t][i].restore = IF i = 1 THEN Project(binding'[t])
                                         ELSE scopes'[t][i - 1].dir
      <4>1. CASE t # s
        BY <2>1, <2>3, <3>1, <4>1 DEF Nested
      <4>2. CASE t = s /\ i \in 1..Len(scopes[s])
        <5>1. scopes'[s][i] = scopes[s][i]
          BY <2>3, <4>2
        <5>2. i # 1 => i - 1 \in 1..Len(scopes[s])
          BY <2>1, <4>2
        <5>3. i # 1 => scopes'[s][i - 1] = scopes[s][i - 1]
          BY <2>3, <5>2
        <5> QED BY <2>1, <4>2, <5>1, <5>3 DEF Nested
      <4>3. CASE t = s /\ i = Len(scopes[s]) + 1
        <5>1. scopes'[s][i].restore = ActiveRoot(s)
          BY <2>3, <4>3
        <5>2. CASE scopes[s] = <<>>
          BY <2>1, <4>3, <5>1, <5>2 DEF ActiveRoot
        <5>3. CASE scopes[s] # <<>>
          <6>1. Len(scopes[s]) \in 1..Len(scopes[s]) /\ i # 1
                /\ i - 1 = Len(scopes[s])
            BY <2>1, <4>3, <5>3
          <6> QED BY <2>3, <4>3, <5>1, <5>3, <6>1 DEF ActiveRoot
        <5> QED BY <5>2, <5>3
      <4> QED BY <2>1, <2>3, <3>1, <4>1, <4>2, <4>3
    <3> QED BY <3>1 DEF Nested
  <2>9. Held'
    <3>1. readers[w] = {}
      BY <2>1 DEF Held
    <3>2. \A v \in Workspaces :
             owner'[v] = IF v = w THEN s ELSE owner[v]
      BY <2>1 DEF TypeOK
    <3>3. \A v \in Workspaces : readers'[v] # {} => owner'[v] = None
      BY <2>1, <3>1, <3>2 DEF Held
    <3>4. ASSUME NEW t \in Sessions, pc'[t] = "tool"
          PROVE  t \in readers'[servers'[t]] \/ owner'[servers'[t]] = t
      <4>1. t # s /\ pc[t] = "tool" /\ servers[t] \in Workspaces
        BY <2>1, <3>4 DEF TypeOK
      <4>2. t \in readers[servers[t]] \/ owner[servers[t]] = t
        BY <4>1 DEF Held
      <4> QED BY <2>1, <3>1, <3>2, <4>1, <4>2, ToolRootsAssumption
    <3> QED BY <3>3, <3>4 DEF Held
  <2> QED BY <2>4, <2>6, <2>7, <2>8, <2>9
<1>8. ASSUME NEW s \in Sessions, LeaveSandbox(s)
      PROVE  Inv'
  <2> DEFINE w == binding[s]
             n == Len(scopes[s])
  <2>1. /\ w \in Workspaces /\ s # None
        /\ scopes[s] \in Seq(Scope) /\ n \in Nat /\ n > 0
        /\ scopes[s] # <<>>
        /\ pc[s] = "turn"
        /\ owner[w] = s
    BY <1>8, ToolRootsAssumption DEF TypeOK, Owned, LeaveSandbox
  <2>2. /\ depth[w] = n
        /\ root[w] = ActiveRoot(s)
        /\ readers[w] = {}
    BY <2>1 DEF Owned, Rooted, Held
  <2>3. /\ owner' = [owner EXCEPT ![w] = IF n = 1 THEN None ELSE s]
        /\ depth' = [depth EXCEPT ![w] = n - 1]
        /\ root' = [root EXCEPT ![w] = scopes[s][n].restore]
        /\ scopes' = [scopes EXCEPT ![s] = SubSeq(scopes[s], 1, n - 1)]
        /\ UNCHANGED <<pc, binding, servers, readers>>
    BY <1>8, <2>1, <2>2 DEF TypeOK, LeaveSandbox, OwnerAfterUnlock
  <2>4. /\ scopes'[s] = SubSeq(scopes[s], 1, n - 1)
        /\ \A t \in Sessions : t # s => scopes'[t] = scopes[t]
    BY <2>3 DEF TypeOK
  <2>5. /\ Len(scopes'[s]) = n - 1
        /\ \A i \in 1..(n - 1) : scopes'[s][i] = scopes[s][i]
        /\ scopes'[s] = <<>> <=> n = 1
    <3> DEFINE q == SubSeq(scopes[s], 1, n - 1)
    <3>1. /\ Len(q) = n - 1
          /\ \A i \in 1..(n - 1) : q[i] = scopes[s][i]
          /\ q = <<>> <=> n = 1
      BY <2>1, FrontFacts, Zenon
    <3>2. scopes'[s] = q
      BY <2>4
    <3> HIDE DEF q, n
    <3> QED BY <3>1, <3>2
  <2>6. Resolved'
    BY <2>1, <2>3, <2>4 DEF TypeOK, Resolved
  <2>7. \A v \in Workspaces :
           /\ owner'[v] = IF v # w THEN owner[v] ELSE IF n = 1 THEN None ELSE s
           /\ depth'[v] = IF v # w THEN depth[v] ELSE n - 1
           /\ root'[v] = IF v # w THEN root[v] ELSE scopes[s][n].restore
    BY <2>3 DEF TypeOK
  <2>8. Owned'
    <3>1. ASSUME NEW v \in Workspaces, NEW t \in Sessions
          PROVE  owner'[v] = t <=> (scopes'[t] # <<>> /\ binding'[t] = v)
      BY <2>1, <2>3, <2>4, <2>5, <2>7, ToolRootsAssumption DEF TypeOK, Owned
    <3>2. ASSUME NEW v \in Workspaces, NEW t \in Sessions, owner'[v] = t
          PROVE  depth'[v] = Len(scopes'[t])
      <4>1. CASE v = w
        <5>1. t = s
          BY <2>7, <3>2, <4>1, ToolRootsAssumption
        <5> QED BY <2>5, <2>7, <4>1, <5>1
      <4>2. CASE v # w
        <5>1. owner[v] = t /\ depth'[v] = depth[v]
          BY <2>7, <3>2, <4>2
        <5>2. t # s
          BY <5>1, <4>2 DEF Owned
        <5> QED BY <2>4, <5>1, <5>2 DEF Owned
      <4> QED BY <4>1, <4>2
    <3> QED BY <3>1, <3>2 DEF Owned
  <2>9. n \in 1..n /\ (n # 1 => n - 1 \in 1..(n - 1))
    BY <2>1, FrontFacts
  <2>10. scopes[s][n].restore = ActiveRoot(s)'
    <3>1. CASE n = 1
      BY <2>1, <2>3, <2>5, <2>9, <3>1 DEF Nested, ActiveRoot
    <3>2. CASE n # 1
      <4>1. scopes[s][n].restore = scopes[s][n - 1].dir
        BY <2>9, <3>2 DEF Nested
      <4> QED BY <2>5, <2>9, <3>2, <4>1 DEF ActiveRoot
    <3> QED BY <3>1, <3>2
  <2>11. Rooted'
    <3>1. ASSUME NEW t \in Sessions, t # s
          PROVE  ActiveRoot(t)' = ActiveRoot(t)
      BY <2>3, <2>4, <3>1 DEF ActiveRoot
    <3>2. ASSUME NEW v \in Workspaces, owner'[v] = None
          PROVE  root'[v] = Project(v)
      <4>1. CASE v = w
        <5>1. n = 1
          BY <2>1, <2>7, <3>2, <4>1
        <5> QED BY <2>7, <2>9, <4>1, <5>1 DEF Nested
      <4>2. CASE v # w
        BY <2>7, <3>2, <4>2 DEF Rooted
      <4> QED BY <4>1, <4>2
    <3>3. ASSUME NEW v \in Workspaces, NEW t \in Sessions, owner'[v] = t
          PROVE  root'[v] = ActiveRoot(t)'
      <4>1. CASE v = w
        <5>1. t = s
          BY <2>7, <3>3, <4>1, ToolRootsAssumption
        <5> QED BY <2>7, <2>10, <4>1, <5>1
      <4>2. CASE v # w
        <5>1. owner[v] = t /\ root'[v] = root[v]
          BY <2>7, <3>3, <4>2
        <5>2. t # s
          BY <5>1, <4>2 DEF Owned
        <5> QED BY <3>1, <5>1, <5>2 DEF Rooted
      <4> QED BY <4>1, <4>2
    <3> QED BY <3>2, <3>3 DEF Rooted
  <2>12. Nested'
    <3>1. ASSUME NEW t \in Sessions, NEW i \in 1..Len(scopes'[t])
          PROVE  scopes'[t][i].restore = IF i = 1 THEN Project(binding'[t])
                                         ELSE scopes'[t][i - 1].dir
      <4>1. CASE t # s
        BY <2>3, <2>4, <3>1, <4>1 DEF Nested
      <4>2. CASE t = s
        <5>1. i \in 1..(n - 1) /\ i \in 1..n /\ (i # 1 => i - 1 \in 1..(n - 1))
          BY <2>1, <2>5, <3>1, <4>2
        <5>2. scopes'[s][i] = scopes[s][i]
          BY <2>5, <5>1
        <5>3. i # 1 => scopes'[s][i - 1] = scopes[s][i - 1]
          BY <2>5, <5>1
        <5> QED BY <2>3, <4>2, <5>1, <5>2, <5>3 DEF Nested
      <4> QED BY <4>1, <4>2
    <3> QED BY <3>1 DEF Nested
  <2>13. Held'
    BY <2>1, <2>2, <2>3, <2>7 DEF TypeOK, Held
  <2> QED BY <2>6, <2>8, <2>11, <2>12, <2>13
<1>9. ASSUME NEW s \in Sessions, ClearSession(s)
      PROVE  Inv'
  BY <1>9, LocksUntouched DEF TypeOK, Resolved, Held, ClearSession
<1>10. ASSUME NEW s \in Sessions, NEW w \in Workspaces, BindWorkspace(s, w)
       PROVE  Inv'
  <2>1. /\ pc[s] = "idle" /\ scopes[s] = <<>> /\ s # None
        /\ \A t \in Sessions : t # s => binding'[t] = binding[t]
        /\ UNCHANGED <<pc, servers, scopes, owner, depth, readers, root>>
    BY <1>10, ToolRootsAssumption DEF TypeOK, Resolved, BindWorkspace
  <2>2. Resolved' /\ Held'
    BY <2>1 DEF Resolved, Held
  <2>3. \A v \in Workspaces : owner[v] # s
    BY <2>1 DEF Owned
  <2>4. Owned'
    BY <2>1, <2>3 DEF Owned
  <2>5. Rooted'
    BY <2>1, <2>3 DEF Rooted, ActiveRoot
  <2>6. Nested'
    BY <2>1 DEF Nested
  <2> QED BY <2>2, <2>4, <2>5, <2>6
<1>11. CASE UNCHANGED vars
  BY <1>11, LocksUntouched DEF Resolved, Held
<1> QED BY <1>1, <1>2, <1>3, <1>4, <1>5, <1>6, <1>7, <1>8, <1>9, <1>10, <1>11
        DEF Next, TurnStep, Host

\* Together the types and the ownership are inductive.
LEMMA Ownership ==
    ASSUME ~MidTurnBind
    PROVE  Spec => [](TypeOK /\ Counted /\ Inv)
<1>1. TypeOK /\ Counted /\ Inv /\ [Next]_vars => (TypeOK /\ Counted /\ Inv)'
  BY TypeStep, InvStep
<1> QED BY <1>1, TypeInit, InvInit, PTL DEF Spec

\* Isolation: with a host that binds workspaces only to idle sessions, every
\* tool runs in the directory of the agent that called it, for any number of
\* sessions, server sets, calls and nested delegations.
THEOREM Isolation ==
    ASSUME ~MidTurnBind
    PROVE  Spec => []IsolatedDispatch
<1>1. TypeOK /\ Counted /\ Inv => IsolatedDispatch
  <2> SUFFICES ASSUME TypeOK, Inv, NEW s \in Sessions, pc[s] = "tool"
               PROVE  root[servers[s]] = ActiveRoot(s)
    BY DEF IsolatedDispatch
  <2>1. servers[s] = binding[s] /\ binding[s] \in Workspaces
    BY DEF TypeOK, Inv, Resolved
  <2>2. CASE owner[servers[s]] = s
    BY <2>1, <2>2 DEF Inv, Rooted
  <2>3. CASE owner[servers[s]] # s
    <3>1. owner[servers[s]] = None
      BY <2>1, <2>3 DEF Inv, Held
    <3>2. scopes[s] = <<>>
      BY <2>1, <2>3 DEF Inv, Owned
    <3> QED BY <2>1, <3>1, <3>2 DEF Inv, Rooted, ActiveRoot
  <2> QED BY <2>2, <2>3
<1> QED BY <1>1, Ownership, PTL

\* Restoration: under the same host, a server set on which no session has a
\* sandbox open is unlocked and back in its project directory.
THEOREM Restoration ==
    ASSUME ~MidTurnBind
    PROVE  Spec => []RootsRestored
<1>1. TypeOK /\ Counted /\ Inv => RootsRestored
  <2> SUFFICES ASSUME TypeOK, Counted, Inv, NEW w \in Workspaces,
                      \A s \in Sessions : scopes[s] = <<>> \/ binding[s] # w
               PROVE  root[w] = Project(w) /\ owner[w] = None /\ depth[w] = 0
    BY DEF RootsRestored
  <2>1. owner[w] = None
    BY DEF TypeOK, Inv, Owned
  <2> QED BY <2>1 DEF Counted, Inv, Rooted
<1> QED BY <1>1, Ownership, PTL

(***************************************************************************)
(* Read-before-write state.                                                *)
(***************************************************************************)
\* Clearing is complete, whenever the host clears, drops or binds: no server
\* set keeps what a session read once the session is idle without messages.
THEOREM ClearingIsComplete == Spec => []ClearedHasReadNothing
<1>1. Init => ClearedHasReadNothing
  BY DEF Init, ClearedHasReadNothing
<1>2. TypeOK /\ Counted /\ ClearedHasReadNothing /\ [Next]_vars
        => ClearedHasReadNothing'
  <2> SUFFICES ASSUME TypeOK, ClearedHasReadNothing, [Next]_vars
               PROVE  ClearedHasReadNothing'
    OBVIOUS
  <2>0. \A r \in reads : r[2] \in Sessions
    BY DEF TypeOK
  <2>1. ASSUME NEW s \in Sessions, BeginTurn(s)
        PROVE  ClearedHasReadNothing'
    BY <2>0, <2>1 DEF TypeOK, ClearedHasReadNothing, BeginTurn, Go
  <2>2. ASSUME NEW s \in Sessions, EndTurn(s)
        PROVE  ClearedHasReadNothing'
    BY <2>0, <2>2 DEF TypeOK, ClearedHasReadNothing, EndTurn, Go
  <2>3. ASSUME NEW s \in Sessions, Dispatch(s)
        PROVE  ClearedHasReadNothing'
    BY <2>0, <2>3 DEF TypeOK, ClearedHasReadNothing, Dispatch, Go
  <2>4. ASSUME NEW s \in Sessions, LockShared(s)
        PROVE  ClearedHasReadNothing'
    BY <2>0, <2>4 DEF TypeOK, ClearedHasReadNothing, LockShared, Go
  <2>5. ASSUME NEW s \in Sessions, RunTool(s)
        PROVE  ClearedHasReadNothing'
    BY <2>0, <2>5 DEF TypeOK, ClearedHasReadNothing, RunTool, Go
  <2>6. ASSUME NEW s \in Sessions, Delegate(s)
        PROVE  ClearedHasReadNothing'
    BY <2>0, <2>6 DEF TypeOK, ClearedHasReadNothing, Delegate, Go
  <2>7. ASSUME NEW s \in Sessions, EnterSandbox(s)
        PROVE  ClearedHasReadNothing'
    BY <2>0, <2>7 DEF TypeOK, ClearedHasReadNothing, EnterSandbox, Go
  <2>8. ASSUME NEW s \in Sessions, LeaveSandbox(s)
        PROVE  ClearedHasReadNothing'
    BY <2>8 DEF ClearedHasReadNothing, LeaveSandbox
  <2>9. ASSUME NEW s \in Sessions, ClearSession(s)
        PROVE  ClearedHasReadNothing'
    BY <2>0, <2>9 DEF TypeOK, ClearedHasReadNothing, ClearSession, Released
  <2>10. ASSUME NEW s \in Sessions, NEW w \in Workspaces, BindWorkspace(s, w)
         PROVE  ClearedHasReadNothing'
    BY <2>10 DEF ClearedHasReadNothing, BindWorkspace
  <2>11. CASE UNCHANGED vars
    BY <2>11 DEF ClearedHasReadNothing
  <2> QED BY <2>1, <2>2, <2>3, <2>4, <2>5, <2>6, <2>7, <2>8, <2>9, <2>10,
             <2>11 DEF Next, TurnStep, Host
<1> QED BY <1>1, <1>2, TypeCorrect, PTL DEF Spec
==============================================================================
