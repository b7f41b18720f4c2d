----------------------------- MODULE BridgeProofs -----------------------------
(***************************************************************************)
(* Proofs about Bridge, for any number of connections, asynchronous asks,  *)
(* sessions and descriptors.  The argument is the ticket line: every ticket*)
(* drawn and not yet past is held by one caller or was abandoned, and the  *)
(* one being served is held.                                               *)
(***************************************************************************)
EXTENDS Bridge, FiniteSetTheorems, TLAPS

\* Control points at which a caller has a ticket.
Line == Holding \cup {"first", "waiting"}

Lane == [next : Nat, serving : Nat, waiters : Nat, busy : BOOLEAN,
         abandoned : SUBSET Nat]
Statuses == {"none", "queued", "running", "cancelled", "done", "error"}
Phases == {"none", "queued", "running", "done", "failed", "engine busy",
           "validating", "revising", "cancelling"}

Places == {"new", "accepted", "reading", "ask", "first", "waiting", "turn",
           "serving", "leaving", "closing", "ended", "polling", "admitted",
           "running", "detached", "ended turn", "committed", "notified",
           "busy", "failing"}

\* The types of the variables; a connection that is served has a descriptor.
Types ==
    /\ host \in {"up", "stopping", "clients", "workers", "stopped"}
    /\ accepting \in BOOLEAN
    /\ at \in [Callers -> Places]
    /\ fd \in [Conns -> Fds \cup {None}]
    /\ shut \in SUBSET Conns
    /\ session \in [Callers -> Sessions \cup {None}]
    /\ ticket \in [Callers -> Nat]
    /\ lanes \in [Sessions -> Lane]
    /\ tasks \in [Tasks -> [status : Statuses, phase : Phases]]
    /\ owner \in [Tasks -> Fds \cup {None}]
    /\ sentinels \in [Tasks -> SUBSET {"done", "failed", "cancelled"}]
    /\ active \in Tasks \cup {None} /\ fresh \in BOOLEAN
    /\ subscribers \in SUBSET Fds
    /\ asks \in [Conns -> 0..MaxAsks]
    /\ askedBy \in [Tasks -> Conns \cup {None}]
    /\ notices \in SUBSET (Conns \X Tasks)
    /\ \A c \in Conns : at[c] \notin {"new", "ended"} => fd[c] \in Fds
    /\ \A p \in Callers :
          at[p] \in Line \cup {"ask"} => session[p] \in Sessions

\* A caller in line has a ticket that is not past, not abandoned and nobody
\* else's.
Issued ==
    /\ \A p \in Callers :
          at[p] \in Line =>
              /\ ticket[p] \in lanes[session[p]].serving
                                  ..(lanes[session[p]].next - 1)
              /\ ticket[p] \notin lanes[session[p]].abandoned
    /\ \A p, q \in Callers :
          /\ p # q /\ at[p] \in Line /\ at[q] \in Line
          /\ session[p] = session[q]
          => ticket[p] # ticket[q]

\* A caller that holds the turn, or was served at once, has the ticket being
\* served.
Called ==
    \A p \in Callers :
        at[p] \in Holding \cup {"first"} =>
            ticket[p] = lanes[session[p]].serving

\* A ticket that is not past was abandoned or is held by a caller in line.
Covered ==
    \A s \in Sessions : \A k \in lanes[s].serving..(lanes[s].next - 1) :
        \/ k \in lanes[s].abandoned
        \/ \E p \in Callers :
              at[p] \in Line /\ session[p] = s /\ ticket[p] = k

\* A lane in use serves a ticket that was drawn and not abandoned; only later
\* tickets are abandoned, and from every ticket on the line can be walked to
\* one that is not.
Walkable(l) ==
    \A m \in (l.serving + 1)..l.next : \E n \in m..l.next :
        n \notin l.abandoned /\ m..(n - 1) \subseteq l.abandoned
Shaped ==
    \A s \in Sessions :
        /\ \/ lanes[s] = EmptyLane
           \/ lanes[s].serving < lanes[s].next
        /\ lanes[s].abandoned
              \subseteq (lanes[s].serving + 1)..(lanes[s].next - 1)
        /\ Walkable(lanes[s])

\* waiters counts the callers that wait.
Waiting(s) == {p \in Callers : at[p] = "waiting" /\ session[p] = s}
Counted == \A s \in Sessions : lanes[s].waiters = Cardinality(Waiting(s))

\* A task that is over has a final status, and the task of the phase observer
\* is in its turn.
Over ==
    /\ \A t \in Tasks :
          at[t] \in {"committed", "notified", "ended"} =>
              tasks[t].status \in {"none", "done", "error"}
    /\ \A t \in Tasks : active = t => at[t] = "turn"

\* Which threads stop() has joined: no connection is accepted after the first
\* join, and so none is served after the second.
Joined ==
    /\ host \in {"clients", "workers", "stopped"} => ~accepting
    /\ host \in {"workers", "stopped"} =>
          \A c \in Conns : at[c] \in {"new", "ended"}
    /\ host = "stopped" => \A t \in Tasks : at[t] \in {"new", "ended"}

\* The lane's part of the invariant.
Lined == Issued /\ Called /\ Covered /\ Shaped /\ Counted
Inv == Lined /\ Over /\ Joined

USE DEF vars, connVars, laneVars, taskVars, ghostVars

(***************************************************************************)
(* Types.                                                                  *)
(***************************************************************************)
\* The ticket end_turn_wait calls next exists whenever the line is walkable.
LEMMA NextServingFacts ==
    ASSUME NEW l \in Lane, Walkable(l), l.serving < l.next
    PROVE  /\ NextServing(l) \in (l.serving + 1)..l.next
           /\ NextServing(l) \notin l.abandoned
           /\ (l.serving + 1)..(NextServing(l) - 1) \subseteq l.abandoned
<1>1. l.serving \in Nat /\ l.next \in Nat
  BY DEF Lane
<1>2. l.serving + 1 \in (l.serving + 1)..l.next
  BY <1>1
<1>3. \E n \in (l.serving + 1)..l.next :
         n \notin l.abandoned /\ (l.serving + 1)..(n - 1) \subseteq l.abandoned
  BY <1>2 DEF Walkable
<1> QED BY <1>3 DEF NextServing

\* A lane whose turn ends is empty, or serves the next ticket in line.
LEMMA ReleasedFacts ==
    ASSUME NEW l \in Lane, Walkable(l), l.serving < l.next
    PROVE  /\ Released(l) \in Lane
           /\ NextServing(l) = l.next => Released(l) = EmptyLane
           /\ NextServing(l) # l.next =>
                 /\ Released(l).serving = NextServing(l)
                 /\ Released(l).next = l.next
                 /\ Released(l).waiters = l.waiters
                 /\ Released(l).abandoned =
                       {a \in l.abandoned : a > NextServing(l)}
<1>1. NextServing(l) \in Nat
  BY NextServingFacts DEF Lane
<1>2. EmptyLane \in Lane
  BY DEF EmptyLane, Lane
<1>3. CASE NextServing(l) = l.next
  BY <1>2, <1>3 DEF Released
<1>4. CASE NextServing(l) # l.next
  <2>1. Released(l) = [l EXCEPT !.busy = FALSE, !.serving = NextServing(l),
                                !.abandoned = {a \in l.abandoned :
                                                  a > NextServing(l)}]
    BY <1>4 DEF Released
  <2> QED BY <1>1, <1>4, <2>1 DEF Lane
<1> QED BY <1>3, <1>4

\* The lane of a caller in line has a ticket out, so it is not empty.
LEMMA HoldersLane ==
    ASSUME Types, Issued, Shaped, NEW p \in Callers, at[p] \in Line
    PROVE  /\ session[p] \in Sessions /\ lanes[session[p]] \in Lane
           /\ Walkable(lanes[session[p]])
           /\ lanes[session[p]].serving < lanes[session[p]].next
<1>1. session[p] \in Sessions /\ lanes[session[p]] \in Lane
  BY DEF Types
<1>2. lanes[session[p]].serving < lanes[session[p]].next
  BY <1>1 DEF Issued, Lane
<1> QED BY <1>1, <1>2 DEF Shaped

\* A lane with somebody waiting counts him.
LEMMA WaitersAfterType ==
    ASSUME Types, Counted, NEW p \in Callers, at[p] \in {"first", "waiting"}
    PROVE  WaitersAfter(p) \in Nat
<1> DEFINE s == session[p]
<1>1. s \in Sessions /\ lanes[s].waiters \in Nat
  BY DEF Types, Line, Lane
<1>2. CASE at[p] = "first"
  BY <1>1, <1>2 DEF WaitersAfter
<1>3. CASE at[p] = "waiting"
  <2>1. IsFiniteSet(Waiting(s)) /\ p \in Waiting(s)
    <3>1. IsFiniteSet(Callers)
      BY BridgeAssumption, FS_Union DEF Callers
    <3>2. Waiting(s) \subseteq Callers
      BY DEF Waiting
    <3> QED BY <1>3, <3>1, <3>2, FS_Subset DEF Waiting
  <2>2. Cardinality(Waiting(s)) # 0
    BY <2>1, FS_EmptySet
  <2>3. lanes[s].waiters # 0
    BY <1>1, <2>2 DEF Counted
  <2>4. WaitersAfter(p) = lanes[s].waiters - 1
    BY <1>3 DEF WaitersAfter
  <2> QED BY <1>1, <2>3, <2>4
<1> QED BY <1>2, <1>3

(***************************************************************************)
(* What the four operations of a lane do to it.                            *)
(***************************************************************************)
\* begin_turn_wait draws the next ticket; served at once, it does not wait.
LEMMA DrawFacts ==
    ASSUME Types, NEW p \in Callers, TakeTicket(p)
    PROVE  LET s == session[p]
               first == lanes[s].next = lanes[s].serving
           IN  /\ at[p] = "ask" /\ s \in Sessions /\ lanes[s] \in Lane
               /\ lanes' \in [Sessions -> Lane]
               /\ lanes'[s].next = lanes[s].next + 1
               /\ lanes'[s].serving = lanes[s].serving
               /\ lanes'[s].abandoned = lanes[s].abandoned
               /\ lanes'[s].waiters = IF first THEN lanes[s].waiters
                                      ELSE lanes[s].waiters + 1
               /\ \A r \in Sessions : r # s => lanes'[r] = lanes[r]
               /\ ticket' = [ticket EXCEPT ![p] = lanes[s].next]
               /\ at' = [at EXCEPT ![p] = IF first THEN "first" ELSE "waiting"]
               /\ UNCHANGED session
<1> DEFINE s == session[p]
           l == lanes[s]
           w == IF l.next = l.serving THEN l.waiters ELSE l.waiters + 1
           k == l.next + 1
           m == [l EXCEPT !.next = k, !.waiters = w]
<1>1. at[p] = "ask" /\ s \in Sessions /\ l \in Lane
  BY DEF Types, TakeTicket
<1>2. w \in Nat /\ k \in Nat
  BY <1>1 DEF Lane
<1>3. /\ m \in Lane /\ m.next = k /\ m.serving = l.serving
      /\ m.abandoned = l.abandoned /\ m.waiters = w
  <2> HIDE DEF w, k
  <2> QED BY <1>1, <1>2 DEF Lane
<1>4. lanes' = [lanes EXCEPT ![s] = m]
  <2>1. lanes' = [lanes EXCEPT ![s].next = @ + 1, ![s].waiters = w]
    BY DEF TakeTicket
  <2> HIDE DEF w
  <2> QED BY <1>1, <2>1 DEF Types, Lane
<1> HIDE DEF m
<1>5. /\ lanes' \in [Sessions -> Lane] /\ lanes'[s] = m
      /\ \A r \in Sessions : r # s => lanes'[r] = lanes[r]
  BY <1>1, <1>3, <1>4 DEF Types
<1>6. /\ ticket' = [ticket EXCEPT ![p] = l.next]
      /\ at' = [at EXCEPT ![p] = IF l.next = l.serving THEN "first"
                                 ELSE "waiting"]
      /\ UNCHANGED session
  BY DEF TakeTicket, Go
<1> QED BY <1>1, <1>3, <1>5, <1>6

\* An admitted caller stops waiting.
LEMMA AdmitFacts ==
    ASSUME Types, Counted, NEW p \in Callers, Admit(p)
    PROVE  LET s == session[p]
           IN  /\ at[p] \in {"first", "waiting"} /\ ticket[p] = lanes[s].serving
               /\ s \in Sessions /\ lanes[s] \in Lane
               /\ lanes' \in [Sessions -> Lane]
               /\ lanes'[s].next = lanes[s].next
               /\ lanes'[s].serving = lanes[s].serving
               /\ lanes'[s].abandoned = lanes[s].abandoned
               /\ lanes'[s].waiters = WaitersAfter(p)
               /\ lanes'[s].busy
               /\ \A r \in Sessions : r # s => lanes'[r] = lanes[r]
               /\ at' = [at EXCEPT ![p] = IF p \in Tasks THEN "admitted"
                                          ELSE "turn"]
               /\ UNCHANGED <<session, ticket>>
<1> DEFINE s == session[p]
           l == lanes[s]
           w == WaitersAfter(p)
           m == [l EXCEPT !.busy = TRUE, !.waiters = w]
<1>1. at[p] \in {"first", "waiting"} /\ ticket[p] = l.serving
  BY DEF Admit, Served
<1>2. s \in Sessions /\ l \in Lane /\ w \in Nat
  BY <1>1, WaitersAfterType DEF Types, Line
<1> HIDE DEF w
<1>3. /\ m \in Lane /\ m.next = l.next /\ m.serving = l.serving
      /\ m.abandoned = l.abandoned /\ m.waiters = w /\ m.busy
  BY <1>2 DEF Lane
<1>4. lanes' = [lanes EXCEPT ![s] = m]
  <2>1. lanes' = [lanes EXCEPT ![s].busy = TRUE, ![s].waiters = w]
    BY DEF Admit, w
  <2> QED BY <1>2, <2>1 DEF Types, Lane
<1> HIDE DEF m
<1>5. /\ lanes' \in [Sessions -> Lane] /\ lanes'[s] = m
      /\ \A r \in Sessions : r # s => lanes'[r] = lanes[r]
  BY <1>2, <1>3, <1>4 DEF Types
<1>6. /\ at' = [at EXCEPT ![p] = IF p \in Tasks THEN "admitted" ELSE "turn"]
      /\ UNCHANGED <<session, ticket>>
  BY DEF Admit, Go
<1> QED BY <1>1, <1>2, <1>3, <1>5, <1>6 DEF w

\* A caller that gives up leaves its ticket behind.
LEMMA GiveUpFacts ==
    ASSUME Types, Counted, NEW p \in Callers, GiveUp(p)
    PROVE  LET s == session[p]
           IN  /\ at[p] = "waiting" /\ ticket[p] # lanes[s].serving
               /\ s \in Sessions /\ lanes[s] \in Lane
               /\ lanes' \in [Sessions -> Lane]
               /\ lanes'[s].next = lanes[s].next
               /\ lanes'[s].serving = lanes[s].serving
               /\ lanes'[s].abandoned = lanes[s].abandoned \cup {ticket[p]}
               /\ lanes'[s].waiters = lanes[s].waiters - 1
               /\ \A r \in Sessions : r # s => lanes'[r] = lanes[r]
               /\ at' = [at EXCEPT ![p] = IF p \in Tasks THEN "busy"
                                          ELSE "serving"]
               /\ UNCHANGED <<session, ticket>>
<1> DEFINE s == session[p]
           l == lanes[s]
           w == l.waiters - 1
           m == [l EXCEPT !.waiters = w, !.abandoned = @ \cup {ticket[p]}]
<1>1. at[p] = "waiting" /\ ticket[p] # l.serving /\ WaitersAfter(p) = w
  BY DEF GiveUp, Served, WaitersAfter
<1>2. s \in Sessions /\ l \in Lane /\ w \in Nat /\ ticket[p] \in Nat
  BY <1>1, WaitersAfterType DEF Types, Line
<1> HIDE DEF w
<1>3. /\ m \in Lane /\ m.next = l.next /\ m.serving = l.serving
      /\ m.abandoned = l.abandoned \cup {ticket[p]} /\ m.waiters = w
  BY <1>2 DEF Lane
<1>4. lanes' = [lanes EXCEPT ![s] = m]
  <2>1. lanes' = [lanes EXCEPT ![s].waiters = w,
                               ![s].abandoned = @ \cup {ticket[p]}]
    BY <1>1 DEF GiveUp
  <2> QED BY <1>2, <2>1 DEF Types, Lane
<1> HIDE DEF m
<1>5. /\ lanes' \in [Sessions -> Lane] /\ lanes'[s] = m
      /\ \A r \in Sessions : r # s => lanes'[r] = lanes[r]
  BY <1>2, <1>3, <1>4 DEF Types
<1>6. /\ at' = [at EXCEPT ![p] = IF p \in Tasks THEN "busy" ELSE "serving"]
      /\ UNCHANGED <<session, ticket>>
  BY DEF GiveUp, Go
<1> QED BY <1>1, <1>2, <1>3, <1>5, <1>6 DEF w

\* end_turn_wait calls the next ticket that was not abandoned.
LEMMA EndFacts ==
    ASSUME Types, Issued, Shaped, NEW p \in Callers, EndTurn(p)
    PROVE  LET s == session[p]
           IN  /\ at[p] \in {"turn", "detached"} /\ s \in Sessions
               /\ lanes[s] \in Lane /\ Walkable(lanes[s])
               /\ lanes[s].serving < lanes[s].next
               /\ lanes' \in [Sessions -> Lane]
               /\ lanes'[s] = Released(lanes[s])
               /\ \A r \in Sessions : r # s => lanes'[r] = lanes[r]
               /\ at' = [at EXCEPT ![p] = IF p \in Tasks THEN "ended turn"
                                          ELSE "serving"]
               /\ UNCHANGED <<session, ticket>>
<1> DEFINE s == session[p]
<1>1. at[p] \in {"turn", "detached"} /\ at[p] \in Line
  BY DEF EndTurn, Line, Holding
<1>2. /\ s \in Sessions /\ lanes[s] \in Lane /\ Walkable(lanes[s])
      /\ lanes[s].serving < lanes[s].next
  BY <1>1, HoldersLane
<1>3. Released(lanes[s]) \in Lane
  BY <1>2, ReleasedFacts
<1>4. lanes' = [lanes EXCEPT ![s] = Released(lanes[s])]
  BY DEF EndTurn
<1>5. /\ lanes' \in [Sessions -> Lane] /\ lanes'[s] = Released(lanes[s])
      /\ \A r \in Sessions : r # s => lanes'[r] = lanes[r]
  BY <1>2, <1>3, <1>4 DEF Types
<1>6. /\ at' = [at EXCEPT ![p] = IF p \in Tasks THEN "ended turn" ELSE "serving"]
      /\ UNCHANGED <<session, ticket>>
  BY DEF EndTurn, Go
<1> QED BY <1>1, <1>2, <1>5, <1>6

\* A caller that is served or asks moves on, within its types.
LEMMA MoveTypes ==
    ASSUME Types, NEW p \in Callers, NEW to \in Places, at[p] \in Line \cup {"ask"},
           at' = [at EXCEPT ![p] = to],
           lanes' \in [Sessions -> Lane], ticket' \in [Callers -> Nat],
           UNCHANGED <<host, connVars, session, taskVars, ghostVars>>
    PROVE  Types'
<1>1. at' \in [Callers -> Places]
  BY DEF Types
<1>2. \A c \in Conns : at'[c] \notin {"new", "ended"} => fd'[c] \in Fds
  BY DEF Types, Line, Holding, Callers
<1>3. \A q \in Callers : at'[q] \in Line \cup {"ask"} => session'[q] \in Sessions
  BY DEF Types
<1> QED BY <1>1, <1>2, <1>3 DEF Types

\* Init satisfies the types.
LEMMA TypeInit == Init => Types
BY BridgeAssumption
DEF Init, Types, Places, Lane, EmptyLane, Statuses, Phases, NoTask, Line,
    Holding, Callers

\* Every action keeps the types.
LEMMA TypeStep ==
    ASSUME Types, Called, Issued, Shaped, Counted, [Next]_vars
    PROVE  Types'
<1>1. ASSUME NEW p \in Callers, TakeTicket(p)
      PROVE  Types'
  <2> DEFINE to == IF lanes[session[p]].next = lanes[session[p]].serving
                    THEN "first" ELSE "waiting"
  <2>1. /\ at' = [at EXCEPT ![p] = to] /\ at[p] \in Line \cup {"ask"}
        /\ lanes' \in [Sessions -> Lane]
        /\ ticket' = [ticket EXCEPT ![p] = lanes[session[p]].next]
        /\ session[p] \in Sessions /\ lanes[session[p]] \in Lane
    BY <1>1, DrawFacts DEF Line, Holding
  <2>2. ticket' \in [Callers -> Nat]
    BY <1>1, <2>1 DEF Types, Lane
  <2>3. to \in Places
    BY DEF Places
  <2> HIDE DEF to
  <2> QED BY <1>1, <2>1, <2>2, <2>3, MoveTypes DEF TakeTicket
<1>2. ASSUME NEW p \in Callers, Admit(p)
      PROVE  Types'
  <2> DEFINE to == IF p \in Tasks THEN "admitted" ELSE "turn"
  <2>1. /\ at' = [at EXCEPT ![p] = to] /\ at[p] \in Line \cup {"ask"}
        /\ lanes' \in [Sessions -> Lane]
        /\ UNCHANGED ticket
    BY <1>2, AdmitFacts DEF Line, Holding
  <2>2. ticket' \in [Callers -> Nat]
    BY <2>1 DEF Types
  <2>3. to \in Places
    BY DEF Places
  <2> HIDE DEF to
  <2> QED BY <1>2, <2>1, <2>2, <2>3, MoveTypes DEF Admit
<1>3. ASSUME NEW p \in Callers, GiveUp(p)
      PROVE  Types'
  <2> DEFINE to == IF p \in Tasks THEN "busy" ELSE "serving"
  <2>1. /\ at' = [at EXCEPT ![p] = to] /\ at[p] \in Line \cup {"ask"}
        /\ lanes' \in [Sessions -> Lane]
        /\ UNCHANGED ticket
    BY <1>3, GiveUpFacts DEF Line, Holding
  <2>2. ticket' \in [Callers -> Nat]
    BY <2>1 DEF Types
  <2>3. to \in Places
    BY DEF Places
  <2> HIDE DEF to
  <2> QED BY <1>3, <2>1, <2>2, <2>3, MoveTypes DEF GiveUp
<1>4. ASSUME NEW p \in Callers, p \in Conns \/ at[p] = "detached", EndTurn(p)
      PROVE  Types'
  <2> DEFINE to == IF p \in Tasks THEN "ended turn" ELSE "serving"
  <2>1. /\ at' = [at EXCEPT ![p] = to] /\ at[p] \in Line \cup {"ask"}
        /\ lanes' \in [Sessions -> Lane]
        /\ UNCHANGED ticket
    BY <1>4, EndFacts DEF Line, Holding
  <2>2. ticket' \in [Callers -> Nat]
    BY <2>1 DEF Types
  <2>3. to \in Places
    BY DEF Places
  <2> HIDE DEF to
  <2> QED BY <1>4, <2>1, <2>2, <2>3, MoveTypes DEF EndTurn
<1>5. ASSUME NEW t \in Tasks, MarkRunning(t)
      PROVE  Types'
  <2>1. tasks' \in [Tasks -> [status : Statuses, phase : Phases]]
    BY <1>5 DEF Types, Statuses, Phases, MarkRunning, SetTask
  <2> QED BY <1>5, <2>1 DEF Types, Places, Line, Holding, Callers, MarkRunning, Go
<1>6. ASSUME NEW t \in Tasks, AttachPhaseObserver(t)
      PROVE  Types'
  BY <1>6 DEF Types, Places, Line, Holding, Callers, AttachPhaseObserver, Go
<1>7. ASSUME NEW t \in Tasks, DetachPhaseObserver(t)
      PROVE  Types'
  BY <1>7
  DEF Types, Places, Line, Holding, Callers, DetachPhaseObserver,
      Detached, Go
<1>8. ASSUME NEW t \in Tasks, CommitFinalState(t)
      PROVE  Types'
  <2>1. PICK f \in FinalState :
           /\ tasks' = SetTask(t, f[1], f[2])
           /\ sentinels' = [sentinels EXCEPT ![t] = @ \cup {Suffix(f[1])}]
    BY <1>8 DEF CommitFinalState
  <2>2. tasks' \in [Tasks -> [status : Statuses, phase : Phases]]
    <3>0. f = <<"done", "done">> \/ f = <<"error", "failed">>
      BY <2>1 DEF FinalState
    <3>1. f[1] \in Statuses /\ f[2] \in Phases
      <4>1. CASE f = <<"done", "done">>
        BY <4>1 DEF Statuses, Phases
      <4>2. CASE f = <<"error", "failed">>
        BY <4>2 DEF Statuses, Phases
      <4> QED BY <3>0, <4>1, <4>2
    <3>2. [status |-> f[1], phase |-> f[2]] \in [status : Statuses, phase : Phases]
      BY <3>1
    <3> QED BY <2>1, <3>2 DEF Types, SetTask
  <2>3. Suffix(f[1]) \in {"done", "failed"}
    BY <2>1 DEF FinalState, Suffix
  <2>4. sentinels' \in [Tasks -> SUBSET {"done", "failed", "cancelled"}]
    BY <2>1, <2>3 DEF Types
  <2> QED BY <1>8, <2>2, <2>4
          DEF Types, Places, Line, Holding, Callers, CommitFinalState, Go
<1>9. ASSUME NEW t \in Tasks, NotifyClient(t)
      PROVE  Types'
  <2>1. notices' \in SUBSET (Conns \X Tasks) /\ subscribers' \in SUBSET Fds
    BY <1>9 DEF Types, NotifyClient
  <2> QED BY <1>9, <2>1
          DEF Types, Places, Line, Holding, Callers, NotifyClient, Go
<1>10. ASSUME NEW t \in Tasks, CleanupExpired(t)
       PROVE  Types'
  <2>1. NoTask \in [status : Statuses, phase : Phases]
    BY DEF NoTask, Statuses, Phases
  <2>2. /\ tasks' \in [Tasks -> [status : Statuses, phase : Phases]]
        /\ sentinels' \in [Tasks -> SUBSET {"done", "failed", "cancelled"}]
    BY <1>10, <2>1 DEF Types, CleanupExpired
  <2> QED BY <1>10, <2>2
          DEF Types, Places, Line, Holding, Callers, CleanupExpired, Go
<1>11. ASSUME NEW t \in Tasks, FailBusy(t)
       PROVE  Types'
  <2>1. tasks' \in [Tasks -> [status : Statuses, phase : Phases]]
    BY <1>11 DEF Types, Statuses, Phases, FailBusy, SetTask
  <2> QED BY <1>11, <2>1 DEF Types, Places, Line, Holding, Callers, FailBusy, Go
<1>12. ASSUME NEW t \in Tasks, FailBusySentinel(t)
       PROVE  Types'
  <2>1. tasks' \in [Tasks -> [status : Statuses, phase : Phases]]
    BY <1>12 DEF Types, Statuses, FailBusySentinel
  <2>2. sentinels' \in [Tasks -> SUBSET {"done", "failed", "cancelled"}]
    BY <1>12 DEF Types, FailBusySentinel
  <2> QED BY <1>12, <2>1, <2>2 DEF Types, Places, Line, Holding, Callers, FailBusySentinel, Go
<1>13. ASSUME NEW c \in Conns, Accept(c)
       PROVE  Types'
  <2>1. fd' \in [Conns -> Fds \cup {None}] /\ fd'[c] \in Fds
    BY <1>13 DEF Types, Accept, FreeFds
  <2>2. \A d \in Conns : d # c => fd'[d] = fd[d]
    BY <1>13 DEF Types, Accept, FreeFds
  <2>3. /\ at' \in [Callers -> Places]
        /\ \A p \in Callers : at'[p] = IF p = c THEN "accepted" ELSE at[p]
    BY <1>13 DEF Types, Places, Line, Holding, Callers, Accept, Go
  <2>4. \A d \in Conns : at'[d] \notin {"new", "ended"} => fd'[d] \in Fds
    BY <2>1, <2>2, <2>3 DEF Types, Callers
  <2>5. "accepted" \notin Line \cup {"ask"}
    BY DEF Line, Holding
  <2> QED BY <1>13, <2>1, <2>3, <2>4, <2>5
          DEF Types, Accept, laneVars, taskVars, ghostVars
<1>14. ASSUME NEW c \in Conns, Subscribe(c)
       PROVE  Types'
  BY <1>14 DEF Types, Places, Line, Holding, Callers, Subscribe, Go
<1>15. ASSUME NEW c \in Conns, ServeOn(c)
       PROVE  Types'
  BY <1>15 DEF Types, Places, Line, Holding, Callers, ServeOn, Go
<1>16. ASSUME NEW c \in Conns, Unsubscribe(c)
       PROVE  Types'
  BY <1>16 DEF Types, Places, Line, Holding, Callers, Unsubscribe, Go
<1>17. ASSUME NEW c \in Conns, CloseClient(c)
       PROVE  Types'
  BY <1>17 DEF Types, Places, Line, Holding, Callers, CloseClient, Go
<1>18. ASSUME NEW c \in Conns, StopPolling(c)
       PROVE  Types'
  BY <1>18 DEF Types, Places, Line, Holding, Callers, StopPolling, Go
<1>19. ASSUME NEW c \in Conns, Eof(c)
       PROVE  Types'
  BY <1>19 DEF Types, Places, Line, Holding, Callers, Eof, Go
<1>20. ASSUME NEW c \in Conns, NEW s \in Sessions, Ask(c, s)
       PROVE  Types'
  <2>1. asks' \in [Conns -> 0..MaxAsks]
    <3>1. asks[c] + 1 \in 0..MaxAsks
      BY <1>20, BridgeAssumption DEF Types, Ask
    <3> QED BY <1>20, <3>1 DEF Types, Ask
  <2>2. /\ at' \in [Callers -> Places]
        /\ session' \in [Callers -> Sessions \cup {None}]
    BY <1>20 DEF Types, Places, Callers, Ask, Go
  <2>3. /\ \A d \in Conns : at'[d] \notin {"new", "ended"} => fd[d] \in Fds
        /\ \A q \in Callers :
              at'[q] \in Line \cup {"ask"} => session'[q] \in Sessions
    BY <1>20 DEF Types, Callers, Ask, Receives, Go
  <2> QED BY <1>20, <2>1, <2>2, <2>3 DEF Types, Ask
<1>21. ASSUME NEW c \in Conns, NEW s \in Sessions, MarkCancelling(c, s)
       PROVE  Types'
  <2>1. tasks' \in [Tasks -> [status : Statuses, phase : Phases]]
    BY <1>21 DEF Types, Statuses, Phases, MarkCancelling
  <2> QED BY <1>21, <2>1
          DEF Types, Places, Line, Holding, Callers, MarkCancelling, Receives, Go
<1>22. ASSUME NEW c \in Conns, NEW s \in Sessions, NEW t \in Tasks,
              AskAsync(c, s, t)
       PROVE  Types'
  <2>1. tasks' \in [Tasks -> [status : Statuses, phase : Phases]]
    BY <1>22 DEF Types, Statuses, Phases, AskAsync
  <2>2. fd[c] \in Fds /\ c # t
    BY <1>22, BridgeAssumption DEF Types, AskAsync, Receives
  <2>3. /\ owner' \in [Tasks -> Fds \cup {None}]
        /\ askedBy' \in [Tasks -> Conns \cup {None}]
    BY <1>22, <2>2 DEF Types, AskAsync
  <2>4. /\ at' \in [Callers -> Places]
        /\ session' \in [Callers -> Sessions \cup {None}]
    BY <1>22 DEF Types, Places, Callers, AskAsync
  <2>5. \A d \in Conns : at'[d] \notin {"new", "ended"} => fd[d] \in Fds
    <3>1. \A d \in Conns : d = c \/ at'[d] = at[d]
      BY <1>22, BridgeAssumption DEF Types, Callers, AskAsync
    <3> QED BY <2>2, <3>1 DEF Types
  <2>6. \A q \in Callers :
           at'[q] \in Line \cup {"ask"} => session'[q] \in Sessions
    <3>1. /\ at'[t] = "ask" /\ session'[t] = s /\ at'[c] = "serving"
          /\ \A q \in Callers \ {c, t} : at'[q] = at[q] /\ session'[q] = session[q]
      BY <1>22, <2>2 DEF Types, Callers, AskAsync
    <3>2. "serving" \notin Line \cup {"ask"}
      BY DEF Line, Holding
    <3> QED BY <3>1, <3>2 DEF Types
  <2> QED BY <1>22, <2>1, <2>3, <2>4, <2>5, <2>6 DEF Types, AskAsync
<1>23. CASE ObservePhase
  <2>1. active \in Tasks
    BY <1>23 DEF Types, ObservePhase
  <2>2. tasks' \in [Tasks -> [status : Statuses, phase : Phases]]
    <3>1. PICK ph \in {"validating", "revising"} :
              tasks' = [tasks EXCEPT ![active].phase = ph]
      BY <1>23, <2>1 DEF ObservePhase
    <3>2. ph \in Phases
      BY DEF Phases
    <3> QED BY <2>1, <3>1, <3>2 DEF Types
  <2> QED BY <1>23, <2>2 DEF Types, ObservePhase
<1>24. CASE Stop
  BY <1>24 DEF Types, Places, Line, Holding, Callers, Stop
<1>25. CASE LeaveAcceptLoop
  BY <1>25 DEF Types, Places, Line, Holding, Callers, LeaveAcceptLoop
<1>26. CASE ShutClients
  BY <1>26 DEF Types, Places, Line, Holding, Callers, ShutClients, AcceptJoined
<1>27. CASE JoinClients
  BY <1>27
  DEF Types, Places, Line, Holding, Callers, JoinClients, ClientsEnded
<1>28. CASE JoinWorkers
  BY <1>28 DEF Types, Places, Line, Holding, Callers, JoinWorkers
<1>29. CASE UNCHANGED vars
  BY <1>29 DEF Types, Places, Line, Holding, Callers
<1> QED BY <1>1, <1>2, <1>3, <1>4, <1>5, <1>6, <1>7, <1>8, <1>9,
        <1>10, <1>11, <1>12, <1>13, <1>14, <1>15, <1>16, <1>17, <1>18, <1>19,
        <1>20, <1>21, <1>22, <1>23, <1>24, <1>25, <1>26, <1>27, <1>28, <1>29
        DEF Next, TurnStep, WorkerStep, ClientStep, Request, StopStep, Stopped

(***************************************************************************)
(* The ticket line.                                                        *)
(***************************************************************************)
\* A line stays walkable when a ticket is drawn.
LEMMA WalkDraw ==
    ASSUME NEW l \in Lane, NEW k \in Lane, Walkable(l),
           l.abandoned \subseteq (l.serving + 1)..(l.next - 1),
           k.serving = l.serving, k.next = l.next + 1,
           k.abandoned = l.abandoned
    PROVE  Walkable(k)
<1>1. l.serving \in Nat /\ l.next \in Nat
  BY DEF Lane
<1> SUFFICES ASSUME NEW m \in (l.serving + 1)..(l.next + 1)
             PROVE  \E n \in m..(l.next + 1) :
                       n \notin l.abandoned /\ m..(n - 1) \subseteq l.abandoned
  BY DEF Walkable
<1>2. CASE m = l.next + 1
  BY <1>1, <1>2
<1>3. CASE m \in (l.serving + 1)..l.next
  <2>1. PICK n \in m..l.next :
           n \notin l.abandoned /\ m..(n - 1) \subseteq l.abandoned
    BY <1>3 DEF Walkable
  <2>2. n \in m..(l.next + 1)
    BY <1>1, <2>1
  <2> QED BY <2>1, <2>2
<1> QED BY <1>1, <1>2, <1>3

\* A line stays walkable when a ticket is abandoned.
LEMMA WalkGiveUp ==
    ASSUME NEW l \in Lane, NEW k \in Lane, Walkable(l),
           NEW x \in (l.serving + 1)..(l.next - 1),
           k.serving = l.serving, k.next = l.next,
           k.abandoned = l.abandoned \cup {x}
    PROVE  Walkable(k)
<1>1. l.serving \in Nat /\ l.next \in Nat
  BY DEF Lane
<1> SUFFICES ASSUME NEW m \in (l.serving + 1)..l.next
             PROVE  \E n \in m..l.next : /\ n \notin l.abandoned \cup {x}
                                         /\ m..(n - 1) \subseteq l.abandoned \cup {x}
  BY DEF Walkable
<1>2. PICK n \in m..l.next :
         n \notin l.abandoned /\ m..(n - 1) \subseteq l.abandoned
  BY DEF Walkable
<1>3. CASE n # x
  BY <1>2, <1>3
<1>4. CASE n = x
  <2>1. x + 1 \in (l.serving + 1)..l.next
    BY <1>1
  <2>2. PICK o \in (x + 1)..l.next :
           o \notin l.abandoned /\ (x + 1)..(o - 1) \subseteq l.abandoned
    BY <2>1 DEF Walkable
  <2>3. o \in m..l.next /\ o # x
    BY <1>1, <1>2, <1>4, <2>2
  <2>4. ASSUME NEW i \in m..(o - 1)
        PROVE  i \in l.abandoned \cup {x}
    <3>1. i \in m..(n - 1) \/ i = x \/ i \in (x + 1)..(o - 1)
      BY <1>1, <1>2, <1>4, <2>2, <2>4
    <3> QED BY <1>2, <2>2, <3>1
  <2> QED BY <2>2, <2>3, <2>4
<1> QED BY <1>3, <1>4

\* A line stays walkable when a later ticket is served.
LEMMA WalkRelease ==
    ASSUME NEW l \in Lane, NEW k \in Lane, Walkable(l),
           NEW n \in (l.serving + 1)..l.next,
           k.serving = n, k.next = l.next,
           k.abandoned = {a \in l.abandoned : a > n}
    PROVE  Walkable(k)
<1>1. l.serving \in Nat /\ l.next \in Nat
  BY DEF Lane
<1> SUFFICES ASSUME NEW m \in (n + 1)..l.next
             PROVE  \E o \in m..l.next :
                       /\ o \notin {a \in l.abandoned : a > n}
                       /\ m..(o - 1) \subseteq {a \in l.abandoned : a > n}
  BY DEF Walkable
<1>2. m \in (l.serving + 1)..l.next
  BY <1>1
<1>3. PICK o \in m..l.next :
         o \notin l.abandoned /\ m..(o - 1) \subseteq l.abandoned
  BY <1>2 DEF Walkable
<1>4. \A i \in m..(o - 1) : i > n
  BY <1>1, <1>3
<1> QED BY <1>3, <1>4

\* The callers of a lane are finitely many.
LEMMA WaitingFinite == \A s : IsFiniteSet(Waiting(s))
<1>1. IsFiniteSet(Callers)
  BY BridgeAssumption, FS_Union DEF Callers
<1>2. ASSUME NEW s
      PROVE  IsFiniteSet(Waiting(s))
  <2>1. Waiting(s) \subseteq Callers
    BY DEF Waiting
  <2> QED BY <1>1, <2>1, FS_Subset
<1> QED BY <1>2

\* A step that moves no caller into or out of a line, and no caller in line on
\* to another point but within its turn, keeps the line.
LEMMA LineFrame ==
    ASSUME Types, Types', Lined, UNCHANGED <<lanes, ticket>>,
           \A p \in Callers :
              \/ at[p] \notin Line /\ at'[p] \notin Line
              \/ /\ at[p] \in Holding /\ at'[p] \in Holding
                 /\ session'[p] = session[p]
              \/ at'[p] = at[p] /\ session'[p] = session[p]
    PROVE  Lined'
<1>1. \A p \in Callers :
         /\ at'[p] \in Line <=> at[p] \in Line
         /\ at[p] \in Line => session'[p] = session[p]
         /\ at'[p] \in Holding \cup {"first"} => at[p] \in Holding \cup {"first"}
         /\ at'[p] = "waiting" <=> at[p] = "waiting"
  BY DEF Line, Holding
<1>2. Issued'
  BY <1>1 DEF Lined, Issued
<1>3. Called'
  BY <1>1 DEF Lined, Called, Line
<1>4. Covered'
  BY <1>1 DEF Lined, Covered
<1>5. Shaped'
  BY DEF Lined, Shaped
<1>6. Counted'
  <2>1. ASSUME NEW s \in Sessions
        PROVE  Waiting(s)' = Waiting(s)
    BY <1>1 DEF Waiting, Line
  <2> QED BY <2>1 DEF Lined, Counted
<1> QED BY <1>2, <1>3, <1>4, <1>5, <1>6 DEF Lined

\* Drawing a ticket keeps the line.
LEMMA DrawStep ==
    ASSUME Types, Lined, NEW p \in Callers, TakeTicket(p)
    PROVE  Lined'
<1> DEFINE s == session[p]
           l == lanes[s]
           k == lanes'[s]
<1>1. /\ at[p] = "ask" /\ s \in Sessions /\ l \in Lane /\ k \in Lane
      /\ k.next = l.next + 1
      /\ k.serving = l.serving
      /\ k.abandoned = l.abandoned
      /\ k.waiters = IF l.next = l.serving THEN l.waiters ELSE l.waiters + 1
      /\ \A r \in Sessions : r # s => lanes'[r] = lanes[r]
      /\ ticket' = [ticket EXCEPT ![p] = l.next]
      /\ at' = [at EXCEPT ![p] = IF l.next = l.serving THEN "first"
                                 ELSE "waiting"]
      /\ UNCHANGED session
  BY DrawFacts
<1>2. /\ l.next \in Nat /\ l.serving \in Nat /\ l.serving <= l.next
      /\ l.abandoned \subseteq (l.serving + 1)..(l.next - 1)
      /\ l.next \notin l.abandoned
  <2>1. l.next \in Nat /\ l.serving \in Nat
    BY <1>1 DEF Lane
  <2>2. l.abandoned \subseteq (l.serving + 1)..(l.next - 1)
    BY <1>1 DEF Lined, Shaped
  <2>3. l.serving <= l.next
    BY <1>1, <2>1 DEF Lined, Shaped, EmptyLane
  <2> QED BY <2>1, <2>2, <2>3
<1>3. /\ at[p] \notin Line /\ ticket'[p] = l.next
      /\ \A q \in Callers : q # p => /\ at'[q] = at[q]
                                     /\ ticket'[q] = ticket[q]
  BY <1>1 DEF Types, Line, Holding
<1>4. \A q \in Callers : at[q] \in Line => session[q] \in Sessions
  BY DEF Types
<1>5. Issued'
  <2>1. ASSUME NEW q \in Callers, at'[q] \in Line
        PROVE  /\ ticket'[q] \in lanes'[session[q]].serving
                                    ..(lanes'[session[q]].next - 1)
               /\ ticket'[q] \notin lanes'[session[q]].abandoned
    <3>1. CASE q = p
      BY <1>1, <1>2, <1>3, <3>1
    <3>2. CASE q # p
      <4>1. /\ session[q] \in Sessions
            /\ ticket[q] \in lanes[session[q]].serving
                                ..(lanes[session[q]].next - 1)
            /\ ticket[q] \notin lanes[session[q]].abandoned
            /\ ticket'[q] = ticket[q]
        BY <1>3, <1>4, <2>1, <3>2 DEF Lined, Issued
      <4>2. CASE session[q] = s
        BY <1>1, <1>2, <4>1, <4>2
      <4>3. CASE session[q] # s
        BY <1>1, <4>1, <4>3
      <4> QED BY <4>2, <4>3
    <3> QED BY <3>1, <3>2
  <2>2. ASSUME NEW q \in Callers, q # p, at'[q] \in Line, session[q] = s
        PROVE  ticket'[q] # l.next
    <3>1. ticket[q] \in l.serving..(l.next - 1) /\ ticket'[q] = ticket[q]
      BY <1>3, <2>2 DEF Lined, Issued
    <3> QED BY <1>2, <3>1
  <2>3. ASSUME NEW q \in Callers, NEW r \in Callers, q # r,
               at'[q] \in Line, at'[r] \in Line, session[q] = session[r]
        PROVE  ticket'[q] # ticket'[r]
    <3>1. CASE q # p /\ r # p
      BY <1>3, <2>3, <3>1 DEF Lined, Issued
    <3>2. CASE q = p \/ r = p
      BY <1>3, <2>2, <2>3, <3>2
    <3> QED BY <3>1, <3>2
  <2> QED BY <1>1, <2>1, <2>3 DEF Issued
<1>6. Called'
  <2> SUFFICES ASSUME NEW q \in Callers, at'[q] \in Holding \cup {"first"}
               PROVE  ticket'[q] = lanes'[session[q]].serving
    BY <1>1 DEF Called
  <2>1. CASE q = p
    <3>1. l.next = l.serving
      BY <1>1, <2>1 DEF Types, Holding
    <3> QED BY <1>1, <1>3, <2>1, <3>1
  <2>2. CASE q # p
    <3>1. ticket[q] = lanes[session[q]].serving /\ session[q] \in Sessions
      BY <1>3, <1>4, <2>2 DEF Lined, Called, Line
    <3> QED BY <1>1, <1>3, <2>2, <3>1
  <2> QED BY <2>1, <2>2
<1>7. Covered'
  <2> SUFFICES ASSUME NEW r \in Sessions,
                      NEW i \in lanes'[r].serving..(lanes'[r].next - 1),
                      i \notin lanes'[r].abandoned
               PROVE  \E q \in Callers : /\ at'[q] \in Line /\ session[q] = r
                                         /\ ticket'[q] = i
    BY <1>1 DEF Covered
  <2>1. CASE r = s /\ i = l.next
    BY <1>1, <1>3, <2>1 DEF Types, Line
  <2>2. CASE ~(r = s /\ i = l.next)
    <3>1. i \in lanes[r].serving..(lanes[r].next - 1) /\ i \notin lanes[r].abandoned
      BY <1>1, <1>2, <2>2
    <3>2. PICK q \in Callers : at[q] \in Line /\ session[q] = r /\ ticket[q] = i
      BY <3>1 DEF Lined, Covered
    <3> QED BY <1>3, <3>2
  <2> QED BY <2>1, <2>2
<1>8. Shaped'
  <2>1. Walkable(k)
    BY <1>1, <1>2, WalkDraw DEF Lined, Shaped
  <2>2. k.serving < k.next /\ k.abandoned \subseteq (k.serving + 1)..(k.next - 1)
    BY <1>1, <1>2
  <2> QED BY <1>1, <2>1, <2>2 DEF Lined, Shaped
<1>9. Counted'
  <2>1. ASSUME NEW r \in Sessions, r # s
        PROVE  lanes'[r].waiters = Cardinality(Waiting(r))'
    <3>1. Waiting(r)' = Waiting(r)
      BY <1>1, <1>3, <2>1 DEF Waiting
    <3> QED BY <1>1, <2>1, <3>1 DEF Lined, Counted
  <2>2. k.waiters = Cardinality(Waiting(s)')
    <3>1. CASE l.next = l.serving
      <4>1. at'[p] = "first"
        BY <1>1, <3>1 DEF Types
      <4>2. Waiting(s)' = Waiting(s)
        BY <1>1, <1>3, <4>1 DEF Waiting
      <4> QED BY <1>1, <3>1, <4>2 DEF Lined, Counted
    <3>2. CASE l.next # l.serving
      <4>1. at'[p] = "waiting"
        BY <1>1, <3>2 DEF Types
      <4>2. Waiting(s)' = Waiting(s) \cup {p} /\ p \notin Waiting(s)
        BY <1>1, <1>3, <4>1 DEF Waiting
      <4>3. Cardinality(Waiting(s) \cup {p}) = Cardinality(Waiting(s)) + 1
        BY <4>2, WaitingFinite, FS_AddElement
      <4> QED BY <1>1, <3>2, <4>2, <4>3 DEF Lined, Counted
    <3> QED BY <3>1, <3>2
  <2> QED BY <1>1, <2>1, <2>2 DEF Counted, Waiting
<1> QED BY <1>5, <1>6, <1>7, <1>8, <1>9 DEF Lined

\* Admitting a caller keeps the line.
LEMMA AdmitStep ==
    ASSUME Types, Lined, NEW p \in Callers, Admit(p)
    PROVE  Lined'
<1> DEFINE s == session[p]
           l == lanes[s]
           k == lanes'[s]
<1>1. /\ at[p] \in {"first", "waiting"} /\ ticket[p] = l.serving
      /\ s \in Sessions /\ l \in Lane /\ k \in Lane
      /\ k.next = l.next /\ k.serving = l.serving
      /\ k.abandoned = l.abandoned
      /\ k.waiters = WaitersAfter(p)
      /\ \A r \in Sessions : r # s => lanes'[r] = lanes[r]
      /\ at' = [at EXCEPT ![p] = IF p \in Tasks THEN "admitted" ELSE "turn"]
      /\ UNCHANGED <<session, ticket>>
  BY AdmitFacts DEF Lined
<1>2. /\ \A r \in Sessions : /\ lanes'[r].next = lanes[r].next
                             /\ lanes'[r].serving = lanes[r].serving
                             /\ lanes'[r].abandoned = lanes[r].abandoned
      /\ at'[p] \in {"admitted", "turn"} /\ at[p] \in Line
      /\ \A q \in Callers : q # p => at'[q] = at[q]
      /\ \A q \in Callers : at'[q] \in Line <=> at[q] \in Line
      /\ \A q \in Callers : at[q] \in Line => session[q] \in Sessions
  BY <1>1 DEF Types, Line, Holding
<1>3. Issued'
  BY <1>1, <1>2 DEF Lined, Issued
<1>4. Called'
  BY <1>1, <1>2 DEF Lined, Called, Line
<1>5. Covered'
  BY <1>1, <1>2 DEF Lined, Covered
<1>6. Shaped'
  <2>1. l.serving < l.next
    BY <1>2, HoldersLane DEF Lined
  <2>2. \A r \in Sessions : Walkable(lanes'[r])
    BY <1>2 DEF Lined, Shaped, Walkable
  <2> QED BY <1>1, <1>2, <2>1, <2>2 DEF Lined, Shaped
<1>7. Counted'
  <2>1. ASSUME NEW r \in Sessions, r # s
        PROVE  lanes'[r].waiters = Cardinality(Waiting(r))'
    <3>1. Waiting(r)' = Waiting(r)
      BY <1>1, <1>2, <2>1 DEF Waiting
    <3> QED BY <1>1, <2>1, <3>1 DEF Lined, Counted
  <2>2. k.waiters = Cardinality(Waiting(s)')
    <3>1. CASE at[p] = "first"
      <4>1. Waiting(s)' = Waiting(s)
        BY <1>1, <1>2, <3>1 DEF Waiting
      <4> QED BY <1>1, <3>1, <4>1 DEF Lined, Counted, WaitersAfter
    <3>2. CASE at[p] = "waiting"
      <4>1. Waiting(s)' = Waiting(s) \ {p} /\ p \in Waiting(s)
        BY <1>1, <1>2, <3>2 DEF Waiting
      <4>2. Cardinality(Waiting(s) \ {p}) = Cardinality(Waiting(s)) - 1
        BY <4>1, WaitingFinite, FS_RemoveElement
      <4> QED BY <1>1, <3>2, <4>1, <4>2 DEF Lined, Counted, WaitersAfter
    <3> QED BY <1>1, <3>1, <3>2
  <2> QED BY <1>1, <2>1, <2>2 DEF Counted, Waiting
<1> QED BY <1>3, <1>4, <1>5, <1>6, <1>7 DEF Lined

\* Giving up keeps the line: the ticket is left in abandoned, and it is not the
\* one being served.
LEMMA GiveUpStep ==
    ASSUME Types, Lined, NEW p \in Callers, GiveUp(p)
    PROVE  Lined'
<1> DEFINE s == session[p]
           l == lanes[s]
           k == lanes'[s]
<1>1. /\ at[p] = "waiting" /\ ticket[p] # l.serving
      /\ s \in Sessions /\ l \in Lane /\ k \in Lane
      /\ k.next = l.next /\ k.serving = l.serving
      /\ k.abandoned = l.abandoned \cup {ticket[p]}
      /\ k.waiters = l.waiters - 1
      /\ \A r \in Sessions : r # s => lanes'[r] = lanes[r]
      /\ at' = [at EXCEPT ![p] = IF p \in Tasks THEN "busy" ELSE "serving"]
      /\ UNCHANGED <<session, ticket>>
  BY GiveUpFacts DEF Lined
<1>2. /\ \A r \in Sessions : /\ lanes'[r].next = lanes[r].next
                             /\ lanes'[r].serving = lanes[r].serving
      /\ at'[p] \notin Line /\ at'[p] # "waiting" /\ at[p] \in Line
      /\ \A q \in Callers : q # p => at'[q] = at[q]
      /\ \A q \in Callers : at[q] \in Line => session[q] \in Sessions
  BY <1>1 DEF Types, Line, Holding
<1>3. ticket[p] \in (l.serving + 1)..(l.next - 1)
  <2>1. ticket[p] \in l.serving..(l.next - 1)
    BY <1>2 DEF Lined, Issued
  <2>2. l.serving \in Nat /\ l.next \in Nat
    BY <1>1 DEF Lane
  <2> QED BY <1>1, <2>1, <2>2
<1>4. Issued'
  <2>1. ASSUME NEW q \in Callers, at'[q] \in Line
        PROVE  /\ ticket[q] \in lanes'[session[q]].serving
                                    ..(lanes'[session[q]].next - 1)
               /\ ticket[q] \notin lanes'[session[q]].abandoned
    <3>1. /\ q # p /\ at[q] \in Line /\ session[q] \in Sessions
          /\ ticket[q] \in lanes[session[q]].serving
                              ..(lanes[session[q]].next - 1)
          /\ ticket[q] \notin lanes[session[q]].abandoned
          /\ session[q] = s => ticket[q] # ticket[p]
      BY <1>2, <2>1 DEF Lined, Issued
    <3> QED BY <1>1, <1>2, <3>1
  <2> QED BY <1>1, <1>2, <2>1 DEF Lined, Issued
<1>5. Called'
  BY <1>1, <1>2 DEF Lined, Called, Line
<1>6. Covered'
  <2> SUFFICES ASSUME NEW r \in Sessions,
                      NEW i \in lanes'[r].serving..(lanes'[r].next - 1),
                      i \notin lanes'[r].abandoned
               PROVE  \E q \in Callers : /\ at'[q] \in Line /\ session[q] = r
                                         /\ ticket[q] = i
    BY <1>1 DEF Covered
  <2>1. /\ i \in lanes[r].serving..(lanes[r].next - 1)
        /\ i \notin lanes[r].abandoned
        /\ r = s => i # ticket[p]
    BY <1>1, <1>2
  <2>2. PICK q \in Callers : at[q] \in Line /\ session[q] = r /\ ticket[q] = i
    BY <2>1 DEF Lined, Covered
  <2> QED BY <1>2, <2>1, <2>2
<1>7. Shaped'
  <2>1. Walkable(k)
    BY <1>1, <1>3, WalkGiveUp DEF Lined, Shaped
  <2>2. l.serving < l.next
    BY <1>2, HoldersLane DEF Lined
  <2>3. k.abandoned \subseteq (k.serving + 1)..(k.next - 1)
    BY <1>1, <1>3 DEF Lined, Shaped
  <2> QED BY <1>1, <2>1, <2>2, <2>3 DEF Lined, Shaped
<1>8. Counted'
  <2>1. ASSUME NEW r \in Sessions, r # s
        PROVE  lanes'[r].waiters = Cardinality(Waiting(r))'
    <3>1. Waiting(r)' = Waiting(r)
      BY <1>1, <1>2, <2>1 DEF Waiting
    <3> QED BY <1>1, <2>1, <3>1 DEF Lined, Counted
  <2>2. k.waiters = Cardinality(Waiting(s)')
    <3>1. Waiting(s)' = Waiting(s) \ {p} /\ p \in Waiting(s)
      BY <1>1, <1>2 DEF Waiting
    <3>2. Cardinality(Waiting(s) \ {p}) = Cardinality(Waiting(s)) - 1
      BY <3>1, WaitingFinite, FS_RemoveElement
    <3> QED BY <1>1, <3>1, <3>2 DEF Lined, Counted
  <2> QED BY <1>1, <2>1, <2>2 DEF Counted, Waiting
<1> QED BY <1>4, <1>5, <1>6, <1>7, <1>8 DEF Lined

\* The end of a turn keeps the line: whoever is in it has a ticket the lane has
\* not passed, and the lane is erased only when nobody is.
LEMMA EndStep ==
    ASSUME Types, Lined, NEW p \in Callers, EndTurn(p)
    PROVE  Lined'
<1> DEFINE s == session[p]
           l == lanes[s]
           k == lanes'[s]
           n == NextServing(l)
<1>1. /\ at[p] \in {"turn", "detached"} /\ s \in Sessions
      /\ l \in Lane /\ Walkable(l) /\ l.serving < l.next
      /\ k \in Lane /\ k = Released(l)
      /\ \A r \in Sessions : r # s => lanes'[r] = lanes[r]
      /\ at' = [at EXCEPT ![p] = IF p \in Tasks THEN "ended turn" ELSE "serving"]
      /\ UNCHANGED <<session, ticket>>
  BY EndFacts DEF Lined
<1>2. /\ at'[p] \notin Line /\ at'[p] # "waiting"
      /\ at[p] \in Line /\ at[p] \in Holding
      /\ \A q \in Callers : q # p => at'[q] = at[q]
      /\ \A q \in Callers : at[q] \in Line => session[q] \in Sessions
  BY <1>1 DEF Types, Line, Holding
<1>3. /\ n \in (l.serving + 1)..l.next /\ n \notin l.abandoned
      /\ (l.serving + 1)..(n - 1) \subseteq l.abandoned
      /\ l.serving \in Nat /\ l.next \in Nat
  BY <1>1, NextServingFacts DEF Lane
<1>4. /\ n = l.next => k = EmptyLane
      /\ n # l.next => /\ k.serving = n /\ k.next = l.next
                       /\ k.waiters = l.waiters
                       /\ k.abandoned = {a \in l.abandoned : a > n}
  BY <1>1, ReleasedFacts
<1> HIDE DEF n
<1>5. ticket[p] = l.serving
  BY <1>2 DEF Lined, Called
<1>6. ASSUME NEW q \in Callers, q # p, at[q] \in Line, session[q] = s
      PROVE  ticket[q] \in n..(l.next - 1) /\ ticket[q] \notin l.abandoned
  <2>1. /\ ticket[q] \in l.serving..(l.next - 1)
        /\ ticket[q] \notin l.abandoned /\ ticket[q] # l.serving
    BY <1>2, <1>5, <1>6 DEF Lined, Issued
  <2>2. ticket[q] \notin (l.serving + 1)..(n - 1)
    BY <1>3, <2>1
  <2> QED BY <1>3, <2>1, <2>2
<1>7. n = l.next => \A q \in Callers : at'[q] \in Line => session[q] # s
  <2> SUFFICES ASSUME n = l.next, NEW q \in Callers, at'[q] \in Line,
                      session[q] = s
               PROVE  FALSE
    OBVIOUS
  <2>1. ticket[q] \in n..(l.next - 1)
    BY <1>2, <1>6
  <2> QED BY <1>3, <2>1
<1>8. Issued'
  <2>1. ASSUME NEW q \in Callers, at'[q] \in Line
        PROVE  /\ ticket[q] \in lanes'[session[q]].serving
                                    ..(lanes'[session[q]].next - 1)
               /\ ticket[q] \notin lanes'[session[q]].abandoned
    <3>1. q # p /\ at[q] \in Line /\ session[q] \in Sessions
      BY <1>2, <2>1
    <3>2. CASE session[q] = s
      BY <1>4, <1>6, <1>7, <2>1, <3>1, <3>2
    <3>3. CASE session[q] # s
      BY <1>1, <3>1, <3>3 DEF Lined, Issued
    <3> QED BY <3>2, <3>3
  <2> QED BY <1>1, <1>2, <2>1 DEF Lined, Issued
<1>9. Called'
  <2> SUFFICES ASSUME NEW q \in Callers, at'[q] \in Holding \cup {"first"}
               PROVE  ticket[q] = lanes'[session[q]].serving
    BY <1>1 DEF Called
  <2>1. q # p /\ at'[q] = at[q] /\ at[q] \in Line
    BY <1>2 DEF Line
  <2>2. ticket[q] = lanes[session[q]].serving
    BY <2>1 DEF Lined, Called
  <2>3. session[q] # s
    BY <1>2, <1>5, <2>1, <2>2 DEF Lined, Issued
  <2> QED BY <1>1, <1>2, <2>1, <2>2, <2>3
<1>10. Covered'
  <2>0. UNCHANGED <<session, ticket>>
    BY <1>1
  <2> SUFFICES ASSUME NEW r \in Sessions,
                      NEW i \in lanes'[r].serving..(lanes'[r].next - 1),
                      i \notin lanes'[r].abandoned
               PROVE  \E q \in Callers : /\ at'[q] \in Line /\ session[q] = r
                                         /\ ticket[q] = i
    BY <2>0 DEF Covered
  <2>1. CASE r # s
    <3>1. PICK q \in Callers : at[q] \in Line /\ session[q] = r /\ ticket[q] = i
      BY <1>1, <2>1 DEF Lined, Covered
    <3> QED BY <1>2, <2>1, <3>1
  <2>2. CASE r = s
    <3>1. n # l.next
      <4>1. SUFFICES ASSUME n = l.next
                     PROVE  FALSE
        OBVIOUS
      <4>2. i \in 0..(0 - 1)
        BY <1>4, <2>2, <4>1 DEF EmptyLane
      <4> QED BY <4>2
    <3>2. i \in n..(l.next - 1) /\ ~(i \in l.abandoned /\ i > n)
      BY <1>4, <2>2, <3>1
    <3>3. i \in l.serving..(l.next - 1) /\ i \notin l.abandoned /\ i # l.serving
      BY <1>3, <3>2
    <3>4. PICK q \in Callers : at[q] \in Line /\ session[q] = s /\ ticket[q] = i
      BY <1>1, <3>3 DEF Lined, Covered
    <3> QED BY <1>2, <1>5, <2>2, <3>3, <3>4
  <2> QED BY <2>1, <2>2
<1>11. Shaped'
  <2>1. CASE n = l.next
    <3>1. /\ k = EmptyLane /\ Walkable(EmptyLane)
          /\ EmptyLane.abandoned = {}
      BY <1>4, <2>1 DEF Walkable, EmptyLane
    <3> QED BY <1>1, <3>1 DEF Lined, Shaped
  <2>2. CASE n # l.next
    <3>1. Walkable(k)
      BY <1>1, <1>3, <1>4, <2>2, WalkRelease
    <3>2. k.serving < k.next
      BY <1>3, <1>4, <2>2
    <3>3. k.abandoned \subseteq (k.serving + 1)..(k.next - 1)
      <4>1. l.abandoned \subseteq (l.serving + 1)..(l.next - 1)
        BY <1>1 DEF Lined, Shaped
      <4> QED BY <1>3, <1>4, <2>2, <4>1
    <3> QED BY <1>1, <3>1, <3>2, <3>3 DEF Lined, Shaped
  <2> QED BY <2>1, <2>2
<1>12. Counted'
  <2>1. ASSUME NEW r \in Sessions
        PROVE  Waiting(r)' = Waiting(r)
    BY <1>1, <1>2 DEF Waiting
  <2>2. CASE n = l.next
    <3>1. Waiting(s)' = {}
      BY <1>1, <1>7, <2>2 DEF Waiting, Line
    <3>2. k.waiters = 0
      BY <1>4, <2>2 DEF EmptyLane
    <3>3. k.waiters = Cardinality(Waiting(s)')
      BY <3>1, <3>2, FS_EmptySet
    <3> QED BY <1>1, <2>1, <3>3 DEF Lined, Counted
  <2>3. CASE n # l.next
    <3>1. k.waiters = l.waiters
      BY <1>4, <2>3
    <3> QED BY <1>1, <2>1, <3>1 DEF Lined, Counted
  <2> QED BY <2>2, <2>3
<1> QED BY <1>8, <1>9, <1>10, <1>11, <1>12 DEF Lined

\* Every action keeps the line.
LEMMA LinedStep ==
    ASSUME Types, Types', Lined, [Next]_vars
    PROVE  Lined'
<1>1. ASSUME NEW p \in Callers, TakeTicket(p)
      PROVE  Lined'
  BY <1>1, DrawStep
<1>2. ASSUME NEW p \in Callers, Admit(p)
      PROVE  Lined'
  BY <1>2, AdmitStep
<1>3. ASSUME NEW p \in Callers, GiveUp(p)
      PROVE  Lined'
  BY <1>3, GiveUpStep
<1>4. ASSUME NEW p \in Callers, p \in Conns \/ at[p] = "detached", EndTurn(p)
      PROVE  Lined'
  BY <1>4, EndStep
<1>5. ASSUME NEW t \in Tasks, MarkRunning(t)
      PROVE  Lined'
  BY <1>5, LineFrame
  DEF Types, Line, Holding, Callers, MarkRunning, SetTask, Go
<1>6. ASSUME NEW t \in Tasks, AttachPhaseObserver(t)
      PROVE  Lined'
  BY <1>6, LineFrame
  DEF Types, Line, Holding, Callers, AttachPhaseObserver, Go
<1>7. ASSUME NEW t \in Tasks, DetachPhaseObserver(t)
      PROVE  Lined'
  BY <1>7, LineFrame
  DEF Types, Line, Holding, Callers, DetachPhaseObserver, Detached, Go
<1>8. ASSUME NEW t \in Tasks, CommitFinalState(t)
      PROVE  Lined'
  BY <1>8, LineFrame
  DEF Types, Line, Holding, Callers, CommitFinalState, SetTask,
      FinalState, Suffix, Go
<1>9. ASSUME NEW t \in Tasks, NotifyClient(t)
      PROVE  Lined'
  BY <1>9, LineFrame DEF Types, Line, Holding, Callers, NotifyClient, Go
<1>10. ASSUME NEW t \in Tasks, CleanupExpired(t)
       PROVE  Lined'
  BY <1>10, LineFrame DEF Types, Line, Holding, Callers, CleanupExpired, Go
<1>11. ASSUME NEW t \in Tasks, FailBusy(t)
       PROVE  Lined'
  BY <1>11, LineFrame DEF Types, Line, Holding, Callers, FailBusy, SetTask, Go
<1>12. ASSUME NEW t \in Tasks, FailBusySentinel(t)
       PROVE  Lined'
  BY <1>12, LineFrame DEF Types, Line, Holding, Callers, FailBusySentinel, Go
<1>13. ASSUME NEW c \in Conns, Accept(c)
       PROVE  Lined'
  BY <1>13, LineFrame DEF Types, Line, Holding, Callers, Accept, FreeFds, Go
<1>14. ASSUME NEW c \in Conns, Subscribe(c)
       PROVE  Lined'
  BY <1>14, LineFrame DEF Types, Line, Holding, Callers, Subscribe, Go
<1>15. ASSUME NEW c \in Conns, ServeOn(c)
       PROVE  Lined'
  BY <1>15, LineFrame DEF Types, Line, Holding, Callers, ServeOn, Go
<1>16. ASSUME NEW c \in Conns, Unsubscribe(c)
       PROVE  Lined'
  BY <1>16, LineFrame DEF Types, Line, Holding, Callers, Unsubscribe, Go
<1>17. ASSUME NEW c \in Conns, CloseClient(c)
       PROVE  Lined'
  BY <1>17, LineFrame DEF Types, Line, Holding, Callers, CloseClient, Go
<1>18. ASSUME NEW c \in Conns, StopPolling(c)
       PROVE  Lined'
  BY <1>18, LineFrame DEF Types, Line, Holding, Callers, StopPolling, Go
<1>19. ASSUME NEW c \in Conns, Eof(c)
       PROVE  Lined'
  BY <1>19, LineFrame DEF Types, Line, Holding, Callers, Eof, Go
<1>20. ASSUME NEW c \in Conns, NEW s \in Sessions, Ask(c, s)
       PROVE  Lined'
  BY <1>20, LineFrame DEF Types, Line, Holding, Callers, Ask, Receives, Go
<1>21. ASSUME NEW c \in Conns, NEW s \in Sessions, MarkCancelling(c, s)
       PROVE  Lined'
  BY <1>21, LineFrame
  DEF Types, Line, Holding, Callers, MarkCancelling, Receives,
      Cancellable, Go
<1>22. ASSUME NEW c \in Conns, NEW s \in Sessions, NEW t \in Tasks,
              AskAsync(c, s, t)
       PROVE  Lined'
  <2>1. /\ at[t] = "new" /\ at[c] = "reading"
        /\ at' = [at EXCEPT ![t] = "ask", ![c] = "serving"]
        /\ session' = [session EXCEPT ![t] = s]
        /\ UNCHANGED <<lanes, ticket>>
    BY <1>22 DEF AskAsync, Receives
  <2>2. \A q \in Callers :
           \/ at[q] \notin Line /\ at'[q] \notin Line
           \/ at'[q] = at[q] /\ session'[q] = session[q]
    BY <2>1 DEF Types, Line, Holding, Callers
  <2> QED BY <2>1, <2>2, LineFrame
<1>23. CASE ObservePhase
  BY <1>23, LineFrame DEF Types, Line, Holding, Callers, ObservePhase
<1>24. CASE Stop
  BY <1>24, LineFrame DEF Types, Line, Holding, Callers, Stop
<1>25. CASE LeaveAcceptLoop
  BY <1>25, LineFrame DEF Types, Line, Holding, Callers, LeaveAcceptLoop
<1>26. CASE ShutClients
  BY <1>26, LineFrame DEF Types, Line, Holding, Callers, ShutClients, AcceptJoined
<1>27. CASE JoinClients
  BY <1>27, LineFrame
  DEF Types, Line, Holding, Callers, JoinClients, ClientsEnded
<1>28. CASE JoinWorkers
  BY <1>28, LineFrame DEF Types, Line, Holding, Callers, JoinWorkers
<1>29. CASE UNCHANGED vars
  BY <1>29, LineFrame DEF Types, Line, Holding, Callers
<1> QED BY <1>1, <1>2, <1>3, <1>4, <1>5, <1>6, <1>7, <1>8, <1>9,
        <1>10, <1>11, <1>12, <1>13, <1>14, <1>15, <1>16, <1>17, <1>18, <1>19,
        <1>20, <1>21, <1>22, <1>23, <1>24, <1>25, <1>26, <1>27, <1>28, <1>29
        DEF Next, TurnStep, WorkerStep, ClientStep, Request, StopStep, Stopped

(***************************************************************************)
(* Tasks, and stop().                                                      *)
(***************************************************************************)
\* Every action keeps a task that is over final, and the observed task in its
\* turn.
LEMMA OverStep ==
    ASSUME Types, Over, [Next]_vars
    PROVE  Over'
<1>0. None \notin Callers /\ Conns \cap Tasks = {}
      /\ Conns \subseteq Callers /\ Tasks \subseteq Callers
  BY BridgeAssumption DEF Callers
<1>1. ASSUME NEW p \in Callers, TakeTicket(p)
      PROVE  Over'
  <2>1. /\ at[p] = "ask" /\ \A q \in Callers : q # p => at'[q] = at[q]
        /\ at'[p] \in {"first", "waiting"} /\ UNCHANGED <<tasks, active>>
    BY <1>1 DEF Types, TakeTicket, Go
  <2> QED BY <1>0, <2>1 DEF Over
<1>2. ASSUME NEW p \in Callers, Admit(p)
      PROVE  Over'
  BY <1>2, <1>0 DEF Types, Over, Admit, Go
<1>3. ASSUME NEW p \in Callers, GiveUp(p)
      PROVE  Over'
  BY <1>3, <1>0 DEF Types, Over, GiveUp, Go
<1>4. ASSUME NEW p \in Callers, p \in Conns \/ at[p] = "detached", EndTurn(p)
      PROVE  Over'
  <2>1. /\ at[p] \in {"turn", "detached"} /\ (p \in Tasks => at[p] = "detached")
        /\ at' = [at EXCEPT ![p] = IF p \in Tasks THEN "ended turn" ELSE "serving"]
        /\ UNCHANGED <<tasks, active>>
    BY <1>4, <1>0 DEF EndTurn, Go
  <2> QED BY <1>0, <2>1 DEF Types, Over
<1>5. ASSUME NEW t \in Tasks, MarkRunning(t)
      PROVE  Over'
  <2>1. /\ at[t] = "admitted" /\ at' = [at EXCEPT ![t] = "running"]
        /\ \A u \in Tasks : u # t => tasks'[u] = tasks[u]
        /\ UNCHANGED active
    BY <1>5 DEF Types, MarkRunning, SetTask, Go
  <2> QED BY <1>0, <2>1 DEF Types, Over
<1>6. ASSUME NEW t \in Tasks, AttachPhaseObserver(t)
      PROVE  Over'
  BY <1>6, <1>0 DEF Types, Over, AttachPhaseObserver, Go
<1>7. ASSUME NEW t \in Tasks, DetachPhaseObserver(t)
      PROVE  Over'
  BY <1>7, <1>0 DEF Types, Over, DetachPhaseObserver, Detached, Go
<1>8. ASSUME NEW t \in Tasks, CommitFinalState(t)
      PROVE  Over'
  <2>1. at' = [at EXCEPT ![t] = "committed"] /\ UNCHANGED active
        /\ at[t] = "ended turn"
    BY <1>8 DEF CommitFinalState, Go
  <2>2. PICK f \in FinalState : tasks' = SetTask(t, f[1], f[2])
    BY <1>8 DEF CommitFinalState
  <2>3. f[1] \in {"done", "error"}
    BY <2>2 DEF FinalState
  <2>4. /\ tasks'[t].status \in {"none", "done", "error"}
        /\ \A u \in Tasks : u # t => tasks'[u] = tasks[u]
    BY <2>2, <2>3 DEF Types, SetTask, Registered
  <2> QED BY <1>0, <2>1, <2>4 DEF Types, Over
<1>9. ASSUME NEW t \in Tasks, NotifyClient(t)
      PROVE  Over'
  BY <1>9, <1>0 DEF Types, Over, NotifyClient, Go
<1>10. ASSUME NEW t \in Tasks, CleanupExpired(t)
       PROVE  Over'
  <2>1. /\ at' = [at EXCEPT ![t] = "ended"] /\ UNCHANGED active
        /\ at[t] = "notified"
    BY <1>10 DEF CleanupExpired, Go
  <2>2. \A u \in Tasks : tasks'[u] = tasks[u] \/ tasks'[u].status = "none"
    BY <1>10 DEF CleanupExpired, NoTask
  <2> QED BY <1>0, <2>1, <2>2 DEF Types, Over
<1>11. ASSUME NEW t \in Tasks, FailBusy(t)
       PROVE  Over'
  <2>1. /\ at[t] = "busy" /\ at' = [at EXCEPT ![t] = "failing"]
        /\ \A u \in Tasks : u # t => tasks'[u] = tasks[u]
        /\ UNCHANGED active
    BY <1>11 DEF Types, FailBusy, SetTask, Go
  <2> QED BY <1>0, <2>1 DEF Types, Over
<1>12. ASSUME NEW t \in Tasks, FailBusySentinel(t)
       PROVE  Over'
  <2>1. at' = [at EXCEPT ![t] = "ended"] /\ UNCHANGED active
        /\ at[t] = "failing"
    BY <1>12 DEF FailBusySentinel, Go
  <2>2. /\ tasks'[t].status \in {"none", "error"}
        /\ \A u \in Tasks : u # t => tasks'[u] = tasks[u]
    BY <1>12 DEF Types, FailBusySentinel, Registered
  <2> QED BY <1>0, <2>1, <2>2 DEF Types, Over
<1>13. ASSUME NEW c \in Conns, Accept(c)
       PROVE  Over'
  BY <1>13, <1>0 DEF Types, Over, Accept, FreeFds, Go
<1>14. ASSUME NEW c \in Conns, Subscribe(c)
       PROVE  Over'
  BY <1>14, <1>0 DEF Types, Over, Subscribe, Go
<1>15. ASSUME NEW c \in Conns, ServeOn(c)
       PROVE  Over'
  BY <1>15, <1>0 DEF Types, Over, ServeOn, Go
<1>16. ASSUME NEW c \in Conns, Unsubscribe(c)
       PROVE  Over'
  BY <1>16, <1>0 DEF Types, Over, Unsubscribe, Go
<1>17. ASSUME NEW c \in Conns, CloseClient(c)
       PROVE  Over'
  BY <1>17, <1>0 DEF Types, Over, CloseClient, Go
<1>18. ASSUME NEW c \in Conns, StopPolling(c)
       PROVE  Over'
  BY <1>18, <1>0 DEF Types, Over, StopPolling, Go
<1>19. ASSUME NEW c \in Conns, Eof(c)
       PROVE  Over'
  BY <1>19, <1>0 DEF Types, Over, Eof, Go
<1>20. ASSUME NEW c \in Conns, NEW s \in Sessions, Ask(c, s)
       PROVE  Over'
  BY <1>20, <1>0 DEF Types, Over, Ask, Receives, Go
<1>21. ASSUME NEW c \in Conns, NEW s \in Sessions, MarkCancelling(c, s)
       PROVE  Over'
  <2>1. \A u \in Tasks : tasks[u].status \notin {"queued", "running"} =>
                            tasks'[u] = tasks[u]
    BY <1>21 DEF MarkCancelling, Cancellable
  <2>2. /\ UNCHANGED active
        /\ \A u \in Tasks : at'[u] = at[u]
    BY <1>21, <1>0 DEF Types, MarkCancelling, Go
  <2> QED BY <2>1, <2>2 DEF Over
<1>22. ASSUME NEW c \in Conns, NEW s \in Sessions, NEW t \in Tasks,
              AskAsync(c, s, t)
       PROVE  Over'
  <2>1. /\ \A u \in Tasks : u # t => tasks'[u] = tasks[u] /\ at'[u] = at[u]
        /\ at[t] = "new" /\ at'[t] = "ask" /\ UNCHANGED active
    BY <1>22, <1>0 DEF Types, AskAsync
  <2> QED BY <2>1 DEF Over
<1>23. CASE ObservePhase
  <2>1. UNCHANGED <<at, active>> /\ active \in Tasks /\ at[active] = "turn"
    BY <1>23 DEF Types, Over, ObservePhase
  <2>2. \A u \in Tasks : u # active => tasks'[u] = tasks[u]
    BY <1>23 DEF Types, ObservePhase
  <2> QED BY <2>1, <2>2 DEF Over
<1>24. CASE Stop
  BY <1>24, <1>0 DEF Types, Over, Stop
<1>25. CASE LeaveAcceptLoop
  BY <1>25, <1>0 DEF Types, Over, LeaveAcceptLoop
<1>26. CASE ShutClients
  BY <1>26, <1>0 DEF Types, Over, ShutClients, AcceptJoined
<1>27. CASE JoinClients
  BY <1>27, <1>0 DEF Types, Over, JoinClients, ClientsEnded
<1>28. CASE JoinWorkers
  BY <1>28, <1>0 DEF Types, Over, JoinWorkers
<1>29. CASE UNCHANGED vars
  BY <1>29, <1>0 DEF Types, Over
<1> QED BY <1>1, <1>2, <1>3, <1>4, <1>5, <1>6, <1>7, <1>8, <1>9,
        <1>10, <1>11, <1>12, <1>13, <1>14, <1>15, <1>16, <1>17, <1>18, <1>19,
        <1>20, <1>21, <1>22, <1>23, <1>24, <1>25, <1>26, <1>27, <1>28, <1>29
        DEF Next, TurnStep, WorkerStep, ClientStep, Request, StopStep, Stopped

\* Every action leaves the threads stop() has joined alone.
LEMMA JoinedStep ==
    ASSUME Types, Joined, [Next]_vars
    PROVE  Joined'
<1>0. /\ Conns \cap Tasks = {}
      /\ Conns \subseteq Callers /\ Tasks \subseteq Callers
  BY BridgeAssumption DEF Callers
<1>1. ASSUME NEW p \in Callers, TakeTicket(p)
      PROVE  Joined'
  BY <1>1, <1>0 DEF Types, Joined, TakeTicket, Go
<1>2. ASSUME NEW p \in Callers, Admit(p)
      PROVE  Joined'
  BY <1>2, <1>0 DEF Types, Joined, Admit, Go
<1>3. ASSUME NEW p \in Callers, GiveUp(p)
      PROVE  Joined'
  BY <1>3, <1>0 DEF Types, Joined, GiveUp, Go
<1>4. ASSUME NEW p \in Callers, p \in Conns \/ at[p] = "detached", EndTurn(p)
      PROVE  Joined'
  BY <1>4, <1>0 DEF Types, Joined, EndTurn, Go
<1>5. ASSUME NEW t \in Tasks, MarkRunning(t)
      PROVE  Joined'
  BY <1>5, <1>0 DEF Types, Joined, MarkRunning, SetTask, Go
<1>6. ASSUME NEW t \in Tasks, AttachPhaseObserver(t)
      PROVE  Joined'
  BY <1>6, <1>0 DEF Types, Joined, AttachPhaseObserver, Go
<1>7. ASSUME NEW t \in Tasks, DetachPhaseObserver(t)
      PROVE  Joined'
  BY <1>7, <1>0 DEF Types, Joined, DetachPhaseObserver, Detached, Go
<1>8. ASSUME NEW t \in Tasks, CommitFinalState(t)
      PROVE  Joined'
  BY <1>8, <1>0
  DEF Types, Joined, CommitFinalState, SetTask, FinalState, Suffix, Go
<1>9. ASSUME NEW t \in Tasks, NotifyClient(t)
      PROVE  Joined'
  BY <1>9, <1>0 DEF Types, Joined, NotifyClient, Go
<1>10. ASSUME NEW t \in Tasks, CleanupExpired(t)
       PROVE  Joined'
  BY <1>10, <1>0 DEF Types, Joined, CleanupExpired, Go
<1>11. ASSUME NEW t \in Tasks, FailBusy(t)
       PROVE  Joined'
  BY <1>11, <1>0 DEF Types, Joined, FailBusy, SetTask, Go
<1>12. ASSUME NEW t \in Tasks, FailBusySentinel(t)
       PROVE  Joined'
  BY <1>12, <1>0 DEF Types, Joined, FailBusySentinel, Go
<1>13. ASSUME NEW c \in Conns, Accept(c)
       PROVE  Joined'
  BY <1>13, <1>0 DEF Types, Joined, Accept, FreeFds, Go
<1>14. ASSUME NEW c \in Conns, Subscribe(c)
       PROVE  Joined'
  BY <1>14, <1>0 DEF Types, Joined, Subscribe, Go
<1>15. ASSUME NEW c \in Conns, ServeOn(c)
       PROVE  Joined'
  BY <1>15, <1>0 DEF Types, Joined, ServeOn, Go
<1>16. ASSUME NEW c \in Conns, Unsubscribe(c)
       PROVE  Joined'
  BY <1>16, <1>0 DEF Types, Joined, Unsubscribe, Go
<1>17. ASSUME NEW c \in Conns, CloseClient(c)
       PROVE  Joined'
  BY <1>17, <1>0 DEF Types, Joined, CloseClient, Go
<1>18. ASSUME NEW c \in Conns, StopPolling(c)
       PROVE  Joined'
  BY <1>18, <1>0 DEF Types, Joined, StopPolling, Go
<1>19. ASSUME NEW c \in Conns, Eof(c)
       PROVE  Joined'
  BY <1>19, <1>0 DEF Types, Joined, Eof, Go
<1>20. ASSUME NEW c \in Conns, NEW s \in Sessions, Ask(c, s)
       PROVE  Joined'
  BY <1>20, <1>0 DEF Types, Joined, Ask, Receives, Go
<1>21. ASSUME NEW c \in Conns, NEW s \in Sessions, MarkCancelling(c, s)
       PROVE  Joined'
  BY <1>21, <1>0 DEF Types, Joined, MarkCancelling, Receives, Cancellable, Go
<1>22. ASSUME NEW c \in Conns, NEW s \in Sessions, NEW t \in Tasks,
              AskAsync(c, s, t)
       PROVE  Joined'
  BY <1>22, <1>0 DEF Types, Joined, AskAsync, Receives
<1>23. CASE ObservePhase
  BY <1>23, <1>0 DEF Types, Joined, ObservePhase
<1>24. CASE Stop
  BY <1>24, <1>0 DEF Types, Joined, Stop
<1>25. CASE LeaveAcceptLoop
  BY <1>25, <1>0 DEF Types, Joined, LeaveAcceptLoop
<1>26. CASE ShutClients
  BY <1>26, <1>0 DEF Types, Joined, ShutClients, AcceptJoined
<1>27. CASE JoinClients
  BY <1>27, <1>0 DEF Types, Joined, JoinClients, ClientsEnded
<1>28. CASE JoinWorkers
  BY <1>28, <1>0 DEF Types, Joined, JoinWorkers
<1>29. CASE UNCHANGED vars
  BY <1>29, <1>0 DEF Types, Joined
<1> QED BY <1>1, <1>2, <1>3, <1>4, <1>5, <1>6, <1>7, <1>8, <1>9,
        <1>10, <1>11, <1>12, <1>13, <1>14, <1>15, <1>16, <1>17, <1>18, <1>19,
        <1>20, <1>21, <1>22, <1>23, <1>24, <1>25, <1>26, <1>27, <1>28, <1>29
        DEF Next, TurnStep, WorkerStep, ClientStep, Request, StopStep, Stopped

(***************************************************************************)
(* The theorems.                                                           *)
(***************************************************************************)
\* Initially every lane is empty, no task exists and stop() was not called.
LEMMA InvInit == Init => Inv
<1> SUFFICES ASSUME Init
             PROVE  Inv
  OBVIOUS
<1>1. \A p \in Callers : at[p] = "new"
  BY DEF Init
<1>2. \A s \in Sessions : lanes[s] = EmptyLane
  BY DEF Init
<1>3. Issued /\ Called
  BY <1>1 DEF Issued, Called, Line, Holding
<1>4. Covered
  <2>1. \A s \in Sessions : lanes[s].serving = 0 /\ lanes[s].next = 0
    BY <1>2 DEF EmptyLane
  <2>2. 0..(0 - 1) = {}
    OBVIOUS
  <2> QED BY <2>1, <2>2 DEF Covered
<1>5. Shaped
  <2>1. Walkable(EmptyLane) /\ EmptyLane.abandoned = {}
    BY DEF Walkable, EmptyLane
  <2> QED BY <1>2, <2>1 DEF Shaped
<1>6. Counted
  <2>1. \A s \in Sessions : Waiting(s) = {}
    BY <1>1 DEF Waiting
  <2>2. \A s \in Sessions : lanes[s].waiters = 0
    BY <1>2 DEF EmptyLane
  <2> QED BY <2>1, <2>2, FS_EmptySet DEF Counted
<1>7. Over
  BY <1>1, BridgeAssumption DEF Init, Over, Callers
<1>8. Joined
  BY DEF Init, Joined
<1> QED BY <1>3, <1>4, <1>5, <1>6, <1>7, <1>8 DEF Inv, Lined

\* The types, the ticket line, the tasks and the join of stop() hold together
\* in every reachable state.
LEMMA Invariance == Spec => [](Types /\ Inv)
<1>1. Types /\ Inv /\ [Next]_vars => (Types /\ Inv)'
  <2> SUFFICES ASSUME Types, Inv, [Next]_vars
               PROVE  Types' /\ Inv'
    OBVIOUS
  <2>1. Types'
    BY TypeStep DEF Inv, Lined
  <2> QED BY <2>1, LinedStep, OverStep, JoinedStep DEF Inv
<1> QED BY <1>1, TypeInit, InvInit, PTL DEF Spec

\* Type correctness, with the count of waiters: waiters, a size_t, is never
\* decremented below zero and never exceeds the number of callers.
THEOREM TypeCorrect == Spec => []TypeOK
<1>1. Types /\ Inv => TypeOK
  <2> SUFFICES ASSUME Types, Inv
               PROVE  TypeOK
    OBVIOUS
  <2>1. ASSUME NEW s \in Sessions
        PROVE  /\ lanes[s].next \in Nat /\ lanes[s].serving \in 0..lanes[s].next
               /\ lanes[s].busy \in BOOLEAN
               /\ lanes[s].abandoned \subseteq lanes[s].serving..lanes[s].next
    <3>1. lanes[s] \in Lane /\ lanes[s].next \in Nat /\ lanes[s].serving \in Nat
          /\ lanes[s].busy \in BOOLEAN
      BY DEF Types, Lane
    <3>2. lanes[s].serving <= lanes[s].next
      BY <3>1 DEF Inv, Lined, Shaped, EmptyLane
    <3>3. lanes[s].abandoned \subseteq (lanes[s].serving + 1)..(lanes[s].next - 1)
      BY DEF Inv, Lined, Shaped
    <3> QED BY <3>1, <3>2, <3>3
  <2>2. ASSUME NEW s \in Sessions
        PROVE  lanes[s].waiters \in 0..Cardinality(Callers)
    <3>1. IsFiniteSet(Callers) /\ Waiting(s) \subseteq Callers
      BY BridgeAssumption, FS_Union DEF Callers, Waiting
    <3>2. /\ Cardinality(Waiting(s)) <= Cardinality(Callers)
          /\ Cardinality(Waiting(s)) \in Nat /\ Cardinality(Callers) \in Nat
      BY <3>1, FS_Subset, FS_CardinalityType, WaitingFinite
    <3> QED BY <3>2 DEF Inv, Lined, Counted
  <2>3. \A t \in Tasks : tasks[t].status \in Statuses
    BY DEF Types
  <2> QED BY <2>1, <2>2, <2>3 DEF Types, TypeOK, Places, Statuses
<1> QED BY <1>1, Invariance, PTL

\* Two callers never hold the turn of one session at the same time, however
\* many callers draw, wait, give up and end.
THEOREM Exclusion == Spec => []LaneExclusion
<1>1. Types /\ Inv => LaneExclusion
  BY DEF Inv, Lined, Issued, Called, LaneExclusion, Line
<1> QED BY <1>1, Invariance, PTL

\* No lane stalls on a ticket its owner gave up: the ticket being served
\* belongs to a caller that holds the turn or waits for it.
THEOREM NoStall == Spec => []NoLostTicket
<1>1. Types /\ Inv => NoLostTicket
  <2> SUFFICES ASSUME Types, Inv, NEW s \in Sessions, lanes[s] # EmptyLane
               PROVE  \E p \in Callers :
                         /\ session[p] = s /\ ticket[p] = lanes[s].serving
                         /\ at[p] \in Line
    BY DEF NoLostTicket, Line
  <2>1. /\ lanes[s].serving \in Nat /\ lanes[s].next \in Nat
        /\ lanes[s].serving < lanes[s].next
        /\ lanes[s].abandoned
              \subseteq (lanes[s].serving + 1)..(lanes[s].next - 1)
    BY DEF Types, Lane, Inv, Lined, Shaped
  <2>2. /\ lanes[s].serving \in lanes[s].serving..(lanes[s].next - 1)
        /\ lanes[s].serving \notin lanes[s].abandoned
    BY <2>1
  <2> QED BY <2>2 DEF Inv, Lined, Covered
<1> QED BY <1>1, Invariance, PTL

\* After stop() has returned, no thread of the bridge is left to touch it: the
\* connection accepted and the lines dispatched after running_ was cleared are
\* waited for like the others.
THEOREM StopIsQuiet == Spec => []StoppedQuiet
<1>1. Types /\ Inv => StoppedQuiet
  BY DEF Inv, Joined, StoppedQuiet, Callers
<1> QED BY <1>1, Invariance, PTL

\* A task that is over keeps what it reports, or leaves the registry.
LEMMA FinalStep ==
    ASSUME Types, Over, [Next]_vars, NEW u \in Tasks,
           at[u] \in {"committed", "notified", "ended"}
    PROVE  tasks'[u] \in {tasks[u], NoTask}
<1>0. tasks[u].status \notin {"queued", "running"} /\ active # u
  BY DEF Over
<1>1. ASSUME NEW p \in Callers, TakeTicket(p)
      PROVE  tasks'[u] \in {tasks[u], NoTask}
  BY <1>1, <1>0 DEF Types, TakeTicket, Go
<1>2. ASSUME NEW p \in Callers, Admit(p)
      PROVE  tasks'[u] \in {tasks[u], NoTask}
  BY <1>2, <1>0 DEF Types, Admit, Go
<1>3. ASSUME NEW p \in Callers, GiveUp(p)
      PROVE  tasks'[u] \in {tasks[u], NoTask}
  BY <1>3, <1>0 DEF Types, GiveUp, Go
<1>4. ASSUME NEW p \in Callers, p \in Conns \/ at[p] = "detached", EndTurn(p)
      PROVE  tasks'[u] \in {tasks[u], NoTask}
  BY <1>4, <1>0 DEF Types, EndTurn, Go
<1>5. ASSUME NEW t \in Tasks, MarkRunning(t)
      PROVE  tasks'[u] \in {tasks[u], NoTask}
  BY <1>5, <1>0 DEF Types, MarkRunning, SetTask, Go
<1>6. ASSUME NEW t \in Tasks, AttachPhaseObserver(t)
      PROVE  tasks'[u] \in {tasks[u], NoTask}
  BY <1>6, <1>0 DEF Types, AttachPhaseObserver, Go
<1>7. ASSUME NEW t \in Tasks, DetachPhaseObserver(t)
      PROVE  tasks'[u] \in {tasks[u], NoTask}
  BY <1>7, <1>0 DEF Types, DetachPhaseObserver, Detached, Go
<1>8. ASSUME NEW t \in Tasks, CommitFinalState(t)
      PROVE  tasks'[u] \in {tasks[u], NoTask}
  BY <1>8, <1>0 DEF Types, CommitFinalState, SetTask, FinalState, Suffix, Go
<1>9. ASSUME NEW t \in Tasks, NotifyClient(t)
      PROVE  tasks'[u] \in {tasks[u], NoTask}
  BY <1>9, <1>0 DEF Types, NotifyClient, Go
<1>10. ASSUME NEW t \in Tasks, CleanupExpired(t)
       PROVE  tasks'[u] \in {tasks[u], NoTask}
  BY <1>10, <1>0 DEF Types, CleanupExpired, Go
<1>11. ASSUME NEW t \in Tasks, FailBusy(t)
       PROVE  tasks'[u] \in {tasks[u], NoTask}
  BY <1>11, <1>0 DEF Types, FailBusy, SetTask, Go
<1>12. ASSUME NEW t \in Tasks, FailBusySentinel(t)
       PROVE  tasks'[u] \in {tasks[u], NoTask}
  BY <1>12, <1>0 DEF Types, FailBusySentinel, Go
<1>13. ASSUME NEW c \in Conns, Accept(c)
       PROVE  tasks'[u] \in {tasks[u], NoTask}
  BY <1>13, <1>0 DEF Types, Accept, FreeFds, Go
<1>14. ASSUME NEW c \in Conns, Subscribe(c)
       PROVE  tasks'[u] \in {tasks[u], NoTask}
  BY <1>14, <1>0 DEF Types, Subscribe, Go
<1>15. ASSUME NEW c \in Conns, ServeOn(c)
       PROVE  tasks'[u] \in {tasks[u], NoTask}
  BY <1>15, <1>0 DEF Types, ServeOn, Go
<1>16. ASSUME NEW c \in Conns, Unsubscribe(c)
       PROVE  tasks'[u] \in {tasks[u], NoTask}
  BY <1>16, <1>0 DEF Types, Unsubscribe, Go
<1>17. ASSUME NEW c \in Conns, CloseClient(c)
       PROVE  tasks'[u] \in {tasks[u], NoTask}
  BY <1>17, <1>0 DEF Types, CloseClient, Go
<1>18. ASSUME NEW c \in Conns, StopPolling(c)
       PROVE  tasks'[u] \in {tasks[u], NoTask}
  BY <1>18, <1>0 DEF Types, StopPolling, Go
<1>19. ASSUME NEW c \in Conns, Eof(c)
       PROVE  tasks'[u] \in {tasks[u], NoTask}
  BY <1>19, <1>0 DEF Types, Eof, Go
<1>20. ASSUME NEW c \in Conns, NEW s \in Sessions, Ask(c, s)
       PROVE  tasks'[u] \in {tasks[u], NoTask}
  BY <1>20, <1>0 DEF Types, Ask, Receives, Go
<1>21. ASSUME NEW c \in Conns, NEW s \in Sessions, MarkCancelling(c, s)
       PROVE  tasks'[u] \in {tasks[u], NoTask}
  BY <1>21, <1>0 DEF Types, MarkCancelling, Receives, Cancellable, Go
<1>22. ASSUME NEW c \in Conns, NEW s \in Sessions, NEW t \in Tasks,
              AskAsync(c, s, t)
       PROVE  tasks'[u] \in {tasks[u], NoTask}
  BY <1>22, <1>0 DEF Types, AskAsync, Receives
<1>23. CASE ObservePhase
  BY <1>23, <1>0 DEF Types, ObservePhase
<1>24. CASE Stop
  BY <1>24, <1>0 DEF Types, Stop
<1>25. CASE LeaveAcceptLoop
  BY <1>25, <1>0 DEF Types, LeaveAcceptLoop
<1>26. CASE ShutClients
  BY <1>26, <1>0 DEF Types, ShutClients, AcceptJoined
<1>27. CASE JoinClients
  BY <1>27, <1>0 DEF Types, JoinClients, ClientsEnded
<1>28. CASE JoinWorkers
  BY <1>28, <1>0 DEF Types, JoinWorkers
<1>29. CASE UNCHANGED vars
  BY <1>29, <1>0 DEF Types
<1> QED BY <1>1, <1>2, <1>3, <1>4, <1>5, <1>6, <1>7, <1>8, <1>9,
        <1>10, <1>11, <1>12, <1>13, <1>14, <1>15, <1>16, <1>17, <1>18, <1>19,
        <1>20, <1>21, <1>22, <1>23, <1>24, <1>25, <1>26, <1>27, <1>28, <1>29
        DEF Next, TurnStep, WorkerStep, ClientStep, Request, StopStep, Stopped

\* What a task reports once it is final stays: neither a late phase callback
\* nor a cancellation changes it while it is in the registry.
THEOREM FinalStays == Spec => TaskFinal
<1> DEFINE Final == \A t \in Tasks :
                       at[t] \in {"committed", "notified", "ended"} =>
                           tasks'[t] \in {tasks[t], NoTask}
<1>1. Types /\ Inv /\ [Next]_vars => [Final]_vars
  BY FinalStep DEF Inv
<1>2. [](Types /\ Inv) /\ [][Next]_vars => [][Final]_vars
  BY <1>1, PTL
<1> QED BY <1>2, Invariance, PTL DEF Spec, TaskFinal
==============================================================================
