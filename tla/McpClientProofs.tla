--------------------------- MODULE McpClientProofs ---------------------------
(***************************************************************************)
(* Proofs about McpClient, for any run threads, retries, calls and faults. *)
(* A line carries the id of one request: while the request is under way no *)
(* other thread's line has its id, so whatever order the child answers in, *)
(* a matching answer is the requester's own.                               *)
(***************************************************************************)
EXTENDS McpClient, FiniteSetTheorems, SequenceTheorems, TLAPS

Places == {"idle", "queued", "write", "write failed", "read", "got", "open",
           "failed", "aborted"}
Statuses == {"none", "connected", "disconnected", "reconnecting", "error"}
Admins == {"registered", "joining", "erased", "unwatched", "gone", "aborted"}

Types ==
    /\ connected \in BOOLEAN /\ cancel \in BOOLEAN /\ desynced \in BOOLEAN
    /\ pump \in BOOLEAN /\ running \in BOOLEAN
    /\ io \in Threads \cup {None}
    /\ child \in {"none", "alive", "dead"}
    /\ owed \in SUBSET Lines /\ IsFiniteSet(owed)
    /\ pipe \in Seq(Lines)
    /\ pc \in [Threads -> Places]
    /\ id \in [Threads -> Nat]
    /\ kind \in [Threads -> {"call", "init", "list", "refresh"}]
    /\ resp \in [Threads -> Lines]
    /\ cancelled \in SUBSET Runs
    /\ entry \in [status : Statuses, attempt : Nat]
    /\ admin \in Admins
    /\ bounds \in [calls : Nat, faults : Nat]
    /\ foreign \in SUBSET (Threads \X (Threads \cup {None}))

\* Control points at which a thread has a request under way.
Requesting == {"queued", "write", "write failed", "read", "got"}

\* io_mutex_ is held exactly by the thread that writes or reads.
Locked ==
    \A p \in Threads : pc[p] \in {"write", "write failed", "read"} <=> io = p

\* The lines there are: owed, in the pipe, or read.
AllLines == owed \cup {pipe[i] : i \in DOMAIN pipe}
                 \cup {resp[p] : p \in Threads}

\* A request has an id of its own, and a line with that id is its answer.
Answers ==
    /\ \A p \in Threads : pc[p] \in Requesting => id[p] # 0
    /\ \A p, q \in Threads : id[p] = id[q] /\ id[p] # 0 => p = q
    /\ \A p \in Threads : \A r \in AllLines :
          r.id = id[p] /\ id[p] # 0 => r.by = p

\* The monitor counts an attempt only when max_retries_ allowed it.
Retries ==
    /\ pc[Monitor] \notin {"idle", "aborted"} => ~Exhausted(entry.attempt)
    /\ MaxRetries # 0 => entry.attempt <= MaxRetries

\* Once the server is unwatched, or the monitor stopped and joined, the monitor
\* does not touch it any more; the disconnect then leaves nothing.
Removal ==
    /\ admin = "joining" => ~running
    /\ admin \in {"unwatched", "gone"} =>
          pc[Monitor] = "idle" /\ (~running \/ entry.status = "none")
    /\ admin = "gone" => ~connected /\ child = "none" /\ ~pump /\ owed = {}

(***************************************************************************)
(* Identifiers.                                                            *)
(***************************************************************************)
\* The values a function takes on a finite set are finitely many.
LEMMA FiniteValues ==
    ASSUME NEW S, IsFiniteSet(S), NEW f, f = [x \in S |-> f[x]]
    PROVE  IsFiniteSet({f[x] : x \in S})
<1>1. f \in Surjection(S, {f[x] : x \in S})
  BY DEF Surjection
<1> QED BY <1>1, FS_Surjection

\* Finitely many ids are referred to: by a thread, a response, the child or
\* the pipe.
LEMMA IdsFinite ==
    ASSUME Types
    PROVE  IsFiniteSet(IdsInUse)
<1>1. IsFiniteSet(Threads)
  BY McpClientAssumption, FS_AddElement DEF Threads
<1>2. IsFiniteSet({id[p] : p \in Threads})
  <2>1. id = [p \in Threads |-> id[p]]
    BY DEF Types
  <2> QED BY ONLY <1>1, <2>1, FiniteValues
<1>3. IsFiniteSet({resp[p].id : p \in Threads})
  <2> DEFINE f == [p \in Threads |-> resp[p].id]
  <2>1. IsFiniteSet({f[p] : p \in Threads})
    <3>1. f = [p \in Threads |-> f[p]]
      OBVIOUS
    <3> HIDE DEF f
    <3> QED BY <3>1, <1>1, FiniteValues
  <2> QED BY <2>1
<1>4. IsFiniteSet({r.id : r \in owed})
  <2> DEFINE f == [r \in owed |-> r.id]
  <2>0. IsFiniteSet(owed)
    BY DEF Types
  <2>1. IsFiniteSet({f[r] : r \in owed})
    <3>1. f = [r \in owed |-> f[r]]
      OBVIOUS
    <3> HIDE DEF f
    <3> QED BY <3>1, <2>0, FiniteValues
  <2> QED BY <2>1
<1>5. IsFiniteSet({pipe[i].id : i \in DOMAIN pipe})
  <2>1. DOMAIN pipe = 1..Len(pipe) /\ Len(pipe) \in Int
    BY DEF Types
  <2>2. IsFiniteSet(DOMAIN pipe)
    BY <2>1, FS_Interval
  <2> DEFINE f == [i \in DOMAIN pipe |-> pipe[i].id]
  <2>3. IsFiniteSet({f[i] : i \in DOMAIN pipe})
    <3>1. f = [i \in DOMAIN pipe |-> f[i]]
      OBVIOUS
    <3> HIDE DEF f
    <3> QED BY <3>1, <2>2, FiniteValues
  <2> QED BY <2>3
<1> HIDE DEF Threads
<1> QED BY <1>2, <1>3, <1>4, <1>5, FS_Union DEF IdsInUse

\* The next id is positive and nothing refers to it: one of the first n + 1
\* numbers is not among n ids.
LEMMA NextIdFresh ==
    ASSUME Types
    PROVE  /\ NextId \in Nat /\ NextId # 0
           /\ \A p \in Threads : id[p] # NextId
           /\ \A r \in AllLines : r.id # NextId
<1> DEFINE n == Cardinality(IdsInUse)
<1>1. IsFiniteSet(IdsInUse) /\ n \in Nat
  BY IdsFinite, FS_CardinalityType
<1>2. \E k \in 1..(n + 1) : k \notin IdsInUse
  <2> SUFFICES ASSUME 1..(n + 1) \subseteq IdsInUse
               PROVE  FALSE
    OBVIOUS
  <2>1. Cardinality(1..(n + 1)) <= n
    BY <1>1, FS_Subset
  <2> HIDE DEF n
  <2>2. Cardinality(1..(n + 1)) = n + 1
    BY <1>1, FS_Interval
  <2> QED BY <1>1, <2>1, <2>2
<1>3. NextId \in 1..(n + 1) /\ NextId \notin IdsInUse
  <2> DEFINE P(k) == k \notin IdsInUse
  <2>1. NextId = CHOOSE k \in 1..(n + 1) : P(k)
    BY DEF NextId
  <2>2. \E k \in 1..(n + 1) : P(k)
    BY <1>2
  <2> HIDE DEF P, n
  <2>3. NextId \in 1..(n + 1) /\ P(NextId)
    BY <2>1, <2>2, Zenon
  <2> QED BY <2>3 DEF P
<1>4. NextId \in Nat /\ NextId # 0
  <2> HIDE DEF n
  <2> QED BY <1>1, <1>3
<1>5. \A p \in Threads : id[p] \in IdsInUse
  BY DEF IdsInUse
<1>6. \A r \in AllLines : r.id \in IdsInUse
  BY DEF IdsInUse, AllLines
<1> QED BY <1>3, <1>4, <1>5, <1>6

(***************************************************************************)
(* Types.                                                                  *)
(***************************************************************************)
\* Removing its first element leaves the others of a sequence, one place
\* earlier.
LEMMA TailFacts ==
    ASSUME NEW S, NEW q \in Seq(S), q # <<>>
    PROVE  /\ Head(q) \in S /\ Tail(q) \in Seq(S)
           /\ Head(q) = q[1] /\ 1 \in DOMAIN q
           /\ \A i \in DOMAIN Tail(q) : i + 1 \in DOMAIN q
                                        /\ Tail(q)[i] = q[i + 1]
OBVIOUS

\* An answer handed over is by a thread or by nobody.
LEMMA DeliverType ==
    ASSUME Types, NEW p \in Threads, Deliver(p)
    PROVE  foreign' \in SUBSET (Threads \X (Threads \cup {None}))
<1>1. resp[p].by \in Threads \cup {None}
  BY DEF Types, Lines
<1> QED BY <1>1 DEF Types, Deliver

\* A new request is typed.
LEMMA RequestType ==
    ASSUME Types, NEW p \in Threads,
           NEW k \in {"init", "list", "refresh", "call"}, NewRequest(p, k)
    PROVE  /\ pc' \in [Threads -> Places] /\ id' \in [Threads -> Nat]
           /\ kind' \in [Threads -> {"call", "init", "list", "refresh"}]
           /\ resp' \in [Threads -> Lines]
<1>1. Empty \in Lines
  BY DEF Lines, Empty, Threads
<1>2. NextId \in Nat
  BY NextIdFresh
<1> QED BY <1>1, <1>2 DEF Types, NewRequest, Go, Places

\* The end of a request leaves the thread typed.
LEMMA EndRequestType ==
    ASSUME Types, NEW p \in Threads, EndRequest(p)
    PROVE  /\ pc' \in [Threads -> Places] /\ id' \in [Threads -> Nat]
           /\ kind' \in [Threads -> {"call", "init", "list", "refresh"}]
           /\ resp' \in [Threads -> Lines]
<1>1. Empty \in Lines
  BY DEF Lines, Empty, Threads
<1> QED BY <1>1 DEF Types, EndRequest, Go, Places

\* The first states are typed.
LEMMA TypesInit == Init => Types
<1> SUFFICES ASSUME Init PROVE Types
  OBVIOUS
<1>1. Empty \in Lines
  BY DEF Lines, Empty, Threads
<1>2. IsFiniteSet({})
  BY FS_EmptySet
<1>3. bounds \in [calls : Nat, faults : Nat]
  BY McpClientAssumption DEF Init
<1>4. pipe \in Seq(Lines)
  BY EmptySeq DEF Init
<1>5. entry \in [status : Statuses, attempt : Nat]
  BY DEF Init, Statuses
<1>6. /\ pc \in [Threads -> Places] /\ id \in [Threads -> Nat]
      /\ kind \in [Threads -> {"call", "init", "list", "refresh"}]
      /\ resp \in [Threads -> Lines]
  BY <1>1 DEF Init, Places
<1> QED BY <1>2, <1>3, <1>4, <1>5, <1>6 DEF Init, Types, Admins

\* Every action keeps the types.
LEMMA TypesStep ==
    ASSUME Types, [Next]_vars
    PROVE  Types'
<1>a. Runs \subseteq Threads /\ Monitor \in Threads /\ None \notin Threads
      /\ Monitor \notin Runs
  BY McpClientAssumption DEF Threads
<1>b. <<>> \in Seq(Lines) /\ IsFiniteSet({})
  BY EmptySeq, FS_EmptySet
<1>1. ASSUME NEW p \in Threads, Write(p)
       PROVE  Types'
  <2>1. [id |-> id[p], by |-> p] \in Lines
    BY <1>a, <1>1 DEF Types, Lines
  <2>2. owed' \in SUBSET Lines /\ IsFiniteSet(owed')
    <3> DEFINE l == [id |-> id[p], by |-> p]
    <3>1. owed' = owed \cup {l}
      BY <1>1 DEF Write
    <3>2. IsFiniteSet(owed) /\ owed \in SUBSET Lines
      BY DEF Types
    <3> HIDE DEF l
    <3>3. IsFiniteSet(owed \cup {l})
      BY <3>2, FS_AddElement
    <3>4. owed' \in SUBSET Lines
      BY <2>1, <3>1, <3>2 DEF l
    <3> QED BY <3>1, <3>2, <3>3, <3>4
  <2> QED BY <1>1, <2>2 DEF Types, Write, Go, Places, monVars
<1>2. ASSUME NEW p \in Threads, WriteFailed(p)
       PROVE  Types'
  <2>1. pc' \in [Threads -> Places]
    BY <1>2 DEF Types, Places, WriteFailed, Go
  <2> QED BY <1>2, <2>1 DEF Types, WriteFailed, monVars
<1>3. ASSUME NEW p \in Threads, ReadLine(p)
       PROVE  Types'
  <2>1. Head(pipe) \in Lines /\ Tail(pipe) \in Seq(Lines)
    BY <1>3, TailFacts DEF Types, ReadLine
  <2> QED BY <1>3, <2>1 DEF Types, ReadLine, Go, Places, monVars
<1>4. ASSUME NEW p \in Threads, Abandon(p)
       PROVE  Types'
  <2>1. Fragment \in Lines
    BY DEF Lines, Fragment
  <2>2. pipe' \in Seq(Lines)
    <3>1. CASE pipe' = pipe
      BY <3>1 DEF Types
    <3>2. CASE pipe # <<>> /\ pipe' = [pipe EXCEPT ![1] = Fragment]
      <4>1. pipe \in Seq(Lines) /\ 1 \in 1..Len(pipe)
        BY <3>2, EmptySeq DEF Types
      <4> QED BY <3>2, <4>1, <2>1, ExceptSeq
    <3> QED BY <1>4, <3>1, <3>2 DEF Abandon
  <2> QED BY <1>4, <2>2 DEF Types, Abandon, Go, Places, monVars
<1>5. ASSUME NEW p \in Runs, EndCall(p)
       PROVE  Types'
  BY <1>a, <1>5, DeliverType, EndRequestType
  DEF Types, EndCall, linkVars, monVars
<1>6. ASSUME NEW p \in Runs, Execute(p)
       PROVE  Types'
  <2>1. bounds' \in [calls : Nat, faults : Nat]
    <3>1. bounds.calls \in Nat /\ bounds.calls > 0 /\ bounds.faults \in Nat
          /\ bounds = [calls |-> bounds.calls, faults |-> bounds.faults]
      BY <1>6 DEF Execute, Types
    <3>2. bounds' = [calls |-> bounds.calls - 1, faults |-> bounds.faults]
      BY <1>6, <3>1 DEF Execute
    <3> QED BY <3>1, <3>2
  <2> QED BY <1>a, <1>6, <2>1, RequestType DEF Types, Execute, linkVars, monVars
<1>7. ASSUME NEW p \in Runs, NextRun(p)
       PROVE  Types'
  <2>1. cancel' \in BOOLEAN /\ cancelled' \in SUBSET Runs
    BY <1>7 DEF Types, NextRun
  <2> QED BY <1>7, <2>1 DEF Types, NextRun, linkVars, reqVars, monVars
<1>8. CASE CheckServer
  <2>1. entry' \in [status : Statuses, attempt : Nat]
    <3>1. entry \in [status : Statuses, attempt : Nat]
      BY DEF Types
    <3>2. PICK e \in {entry, [entry EXCEPT !.attempt = 0]} : AttemptReconnect(e)
      BY <1>8 DEF CheckServer
    <3>3. e \in [status : Statuses, attempt : Nat]
      BY <3>1, <3>2
    <3>4. PICK s \in Statuses : entry' = [e EXCEPT !.status = s]
      BY <3>2 DEF AttemptReconnect, Statuses
    <3> QED BY <3>3, <3>4
  <2>2. pc' \in [Threads -> Places]
    BY <1>8 DEF Types, CheckServer, AttemptReconnect, Go, Places
  <2> QED BY <1>8, <2>1, <2>2 DEF Types, CheckServer, linkVars
<1>9. CASE Open
  <2>1. /\ pc' \in [Threads -> Places] /\ id' \in [Threads -> Nat]
        /\ kind' \in [Threads -> {"call", "init", "list", "refresh"}]
        /\ resp' \in [Threads -> Lines]
    BY <1>a, <1>9, RequestType DEF Types, Open, Go, Places
  <2>2. /\ connected' \in BOOLEAN /\ pump' \in BOOLEAN
        /\ child' \in {"none", "alive", "dead"}
        /\ owed' \in SUBSET Lines /\ pipe' \in Seq(Lines)
        /\ IsFiniteSet(owed')
    BY <1>9, <1>b DEF Types, Open, linkVars
  <2> QED BY <1>9, <2>1, <2>2 DEF Types, Open, monVars
<1>10. CASE OpenTerminates
  BY <1>10, FS_EmptySet DEF Types, OpenTerminates, Places, Admins
<1>11. CASE Initialized
  <2>1. /\ pc' \in [Threads -> Places] /\ id' \in [Threads -> Nat]
        /\ kind' \in [Threads -> {"call", "init", "list", "refresh"}]
        /\ resp' \in [Threads -> Lines]
    BY <1>a, <1>11, RequestType DEF Types, Initialized, Go, Places
  <2>2. /\ connected' \in BOOLEAN /\ pump' \in BOOLEAN
        /\ child' \in {"none", "alive", "dead"}
        /\ owed' \in SUBSET Lines /\ pipe' \in Seq(Lines)
        /\ IsFiniteSet(owed')
    BY <1>11, <1>b DEF Types, Initialized, CloseTransport, linkVars
  <2> QED BY <1>a, <1>11, <2>1, <2>2, DeliverType DEF Types, Initialized, monVars
<1>12. CASE Listed
  BY <1>a, <1>12, DeliverType, RequestType
  DEF Types, Listed, linkVars, monVars
<1>13. CASE ReconnectSuccess
  <2>1. entry' \in [status : Statuses, attempt : Nat]
    BY <1>13 DEF ReconnectSuccess, Statuses
  <2> QED BY <1>a, <1>13, <2>1, DeliverType, EndRequestType
          DEF Types, ReconnectSuccess, linkVars
<1>14. CASE ReconnectFailed
  <2>1. entry' \in [status : Statuses, attempt : Nat]
    <3>1. entry \in [status : Statuses, attempt : Nat]
      BY DEF Types
    <3>2. entry.attempt + 1 \in Nat
      BY <3>1
    <3>3. entry' = [entry EXCEPT !.attempt = entry.attempt + 1]
      BY <1>14 DEF ReconnectFailed, RetryLater
    <3> QED BY <3>1, <3>2, <3>3
  <2> QED BY <1>a, <1>14, <2>1, EndRequestType
          DEF Types, ReconnectFailed, linkVars
<1>15. CASE Answer
  <2>1. PICK r \in owed : owed' = owed \ {r} /\ pipe' = Append(pipe, r)
    BY <1>15 DEF Answer
  <2>2. owed' \in SUBSET Lines /\ IsFiniteSet(owed') /\ pipe' \in Seq(Lines)
    BY <2>1, FS_RemoveElement DEF Types
  <2> QED BY <1>15, <2>2 DEF Types, Answer, reqVars, monVars
<1>16. CASE Die
  <2>1. bounds' \in [calls : Nat, faults : Nat]
    <3>1. bounds.faults \in Nat /\ bounds.faults > 0
      BY <1>16 DEF Die, Types
    <3> QED BY <1>16, <3>1 DEF Die, Types
  <2> QED BY <1>16, <2>1, FS_EmptySet DEF Types, Die, reqVars, monVars
<1>17. CASE Interrupt
  <2>1. bounds' \in [calls : Nat, faults : Nat]
    <3>1. bounds.faults \in Nat /\ bounds.faults > 0
      BY <1>17 DEF Interrupt, Types
    <3> QED BY <1>17, <3>1 DEF Interrupt, Types
  <2> QED BY <1>17, <2>1 DEF Types, Interrupt, linkVars, reqVars, monVars
<1>18. CASE Erase
  BY <1>18
  DEF Types, Places, Statuses, Admins, NoEntry, Erase, linkVars, reqVars,
      monVars
<1>19. CASE Unwatch
  BY <1>19
  DEF Types, Places, Statuses, Admins, NoEntry, Unwatch, WatchedMutexFree,
      linkVars, reqVars, monVars
<1>20. CASE StopMonitor
  BY <1>20
  DEF Types, Places, Statuses, Admins, NoEntry, StopMonitor, linkVars, reqVars,
      monVars
<1>21. CASE JoinMonitor
  BY <1>21
  DEF Types, Places, Statuses, Admins, NoEntry, JoinMonitor, linkVars, reqVars,
      monVars
<1>22. CASE Disconnect
  BY <1>22, <1>b
  DEF Types, Disconnect, CloseTransport, Admins, reqVars
<1>23. CASE UNCHANGED vars
  BY <1>23 DEF Types, vars, linkVars, reqVars, monVars
<1>24. ASSUME NEW p \in Threads, Lock(p)
       PROVE  Types'
  <2>1. pipe' \in Seq(Lines)
    <3>1. pipe' = pipe \/ pipe' = <<>>
      BY <1>24 DEF Lock
    <3> QED BY <3>1, <1>b DEF Types
  <2> QED BY <1>24, <2>1 DEF Types, Lock, Go, Places, monVars
<1>25. ASSUME NEW p \in Threads, WriteError(p)
       PROVE  Types'
  BY <1>25 DEF Types, WriteError, Go, Places, linkVars, monVars
<1> QED BY <1>a, <1>1, <1>2, <1>3, <1>4, <1>5, <1>6, <1>7, <1>8, <1>9, <1>10,
        <1>11, <1>12, <1>13, <1>14, <1>15, <1>16, <1>17, <1>18, <1>19, <1>20,
        <1>21, <1>22, <1>23, <1>24, <1>25 DEF Next, RequestStep, MonitorStep, AdminStep

(***************************************************************************)
(* A matching answer is the requester's own.                               *)
(***************************************************************************)
\* A step of one thread keeps Answers if it leaves the thread's id, gives it up
\* or takes the next one, and every line there is afterwards was there before,
\* carries no id, or is the thread's own.
LEMMA AnswersFrame ==
    ASSUME Types, Answers, NEW p \in Threads,
           id' \in [Threads -> Nat],
           \A q \in Threads : q # p => id'[q] = id[q],
           id'[p] \in {id[p], 0, NextId},
           \A q \in Threads : pc'[q] \in Requesting =>
               id'[q] = NextId \/ (pc[q] \in Requesting /\ id'[q] = id[q]),
           \A r \in AllLines' :
               \/ r \in AllLines \/ r.id = 0
               \/ r.id = id[p] /\ r.by = p /\ id'[p] = id[p] /\ id[p] # 0
    PROVE  Answers'
<1>1. /\ NextId \in Nat /\ NextId # 0
      /\ \A q \in Threads : id[q] # NextId
      /\ \A r \in AllLines : r.id # NextId
  BY NextIdFresh
<1> HIDE DEF NextId, AllLines
<1>2. \A q \in Threads : pc'[q] \in Requesting => id'[q] # 0
  BY <1>1 DEF Answers
<1>3. \A q, o \in Threads : id'[q] = id'[o] /\ id'[q] # 0 => q = o
  BY <1>1 DEF Answers, Types
<1>4. ASSUME NEW q \in Threads, NEW r \in AllLines',
             r.id = id'[q], id'[q] # 0
      PROVE  r.by = q
  <2>1. CASE r \in AllLines
    BY <1>1, <1>4, <2>1 DEF Answers
  <2>2. CASE r.id = id[p] /\ r.by = p /\ id'[p] = id[p] /\ id[p] # 0
    BY <1>3, <1>4, <2>2
  <2> QED BY <1>4, <2>1, <2>2
<1> QED BY <1>2, <1>3, <1>4 DEF Answers

\* The lines after a step are the old ones if no place gains one.
LEMMA SameLines ==
    ASSUME owed' \subseteq owed, pipe' = pipe \/ pipe' = <<>>,
           \A q \in Threads : resp'[q] = resp[q] \/ resp'[q] = Empty
    PROVE  \A r \in AllLines' : r \in AllLines \/ r.id = 0
<1>1. DOMAIN <<>> = {}
  OBVIOUS
<1>2. \A i \in DOMAIN pipe' : i \in DOMAIN pipe /\ pipe'[i] = pipe[i]
  BY <1>1
<1> QED BY <1>2 DEF AllLines, Empty

\* A new request gets a fresh id.
LEMMA AnswersNew ==
    ASSUME Types, Answers, NEW p \in Threads, NEW k, NewRequest(p, k),
           owed' \subseteq owed, pipe' = pipe \/ pipe' = <<>>
    PROVE  Answers'
<1>1. /\ id' = [id EXCEPT ![p] = NextId]
      /\ resp' = [resp EXCEPT ![p] = Empty]
      /\ \A q \in Threads : q # p => pc'[q] = pc[q]
  BY DEF NewRequest, Go, Types
<1>2. NextId \in Nat
  BY NextIdFresh
<1> HIDE DEF NextId
<1>3. \A q \in Threads : resp'[q] = resp[q] \/ resp'[q] = Empty
  BY <1>1 DEF Types
<1>4. \A r \in AllLines' : r \in AllLines \/ r.id = 0
  BY <1>3, SameLines
<1>5. /\ id' \in [Threads -> Nat] /\ id'[p] = NextId
      /\ \A q \in Threads : q # p => id'[q] = id[q]
  BY <1>1, <1>2 DEF Types
<1>6. \A q \in Threads : pc'[q] \in Requesting =>
          id'[q] = NextId \/ (pc[q] \in Requesting /\ id'[q] = id[q])
  BY <1>1, <1>5
<1> HIDE DEF AllLines, Answers, Types
<1> QED BY <1>4, <1>5, <1>6, AnswersFrame

\* A request that ends gives its id up.
LEMMA AnswersEnd ==
    ASSUME Types, Answers, NEW p \in Threads, EndRequest(p),
           UNCHANGED <<owed, pipe>>
    PROVE  Answers'
<1>1. /\ id' = [id EXCEPT ![p] = 0]
      /\ resp' = [resp EXCEPT ![p] = Empty]
      /\ pc' = [pc EXCEPT ![p] = "idle"]
  BY DEF EndRequest, Go
<1>3. \A q \in Threads : resp'[q] = resp[q] \/ resp'[q] = Empty
  BY <1>1 DEF Types
<1>4. \A r \in AllLines' : r \in AllLines \/ r.id = 0
  BY <1>3, SameLines
<1>5. /\ id' \in [Threads -> Nat] /\ id'[p] = 0
      /\ \A q \in Threads : q # p => id'[q] = id[q]
  BY <1>1 DEF Types
<1>6. \A q \in Threads : pc'[q] \in Requesting =>
          pc[q] \in Requesting /\ id'[q] = id[q]
  BY <1>1, <1>5 DEF Requesting, Types
<1> HIDE DEF AllLines, Answers, Types
<1> QED BY <1>4, <1>5, <1>6, AnswersFrame

\* A step keeps Answers if it leaves the ids, starts no request and adds no
\* line but one that carries no id or is p's own.
LEMMA AnswersKept ==
    ASSUME Types, Answers, NEW p \in Threads, UNCHANGED id,
           \A q \in Threads : pc'[q] \in Requesting => pc[q] \in Requesting,
           \A r \in AllLines' :
               \/ r \in AllLines \/ r.id = 0
               \/ r.id = id[p] /\ r.by = p /\ id[p] # 0
    PROVE  Answers'
<1>1. id \in [Threads -> Nat]
  BY DEF Types
<1> HIDE DEF AllLines, Answers, Types, NextId
<1> QED BY <1>1, AnswersFrame

\* Every action keeps Answers.
LEMMA AnswersStep ==
    ASSUME Types, Types', Answers, [Next]_vars
    PROVE  Answers'
<1>a. Runs \subseteq Threads /\ Monitor \in Threads /\ None \notin Threads
      /\ Monitor \notin Runs
  BY McpClientAssumption DEF Threads
<1>1. ASSUME NEW p \in Threads, Write(p)
       PROVE  Answers'
  <2>1. UNCHANGED id /\ \A q \in Threads :
                           pc'[q] \in Requesting => pc[q] \in Requesting
    BY <1>1 DEF Write, Go, Types, Requesting, reqVars
  <2>2. \A r \in AllLines' :
           \/ r \in AllLines \/ r.id = 0
           \/ r.id = id[p] /\ r.by = p /\ id[p] # 0
    <3>1. id[p] # 0
      BY <1>1 DEF Answers, Write, Requesting
    <3>2. UNCHANGED pipe
      BY <1>1 DEF Write
    <3>3. \A r \in owed' : r \in owed \/ r = [id |-> id[p], by |-> p]
      BY <1>1 DEF Write
    <3>4. UNCHANGED resp
      BY <1>1 DEF Write
    <3> QED BY <3>1, <3>2, <3>3, <3>4 DEF AllLines
  <2> QED BY <1>a, <1>1, <2>1, <2>2, AnswersKept
<1>2. ASSUME NEW p \in Threads, WriteFailed(p)
       PROVE  Answers'
  <2>1. UNCHANGED id /\ \A q \in Threads :
                           pc'[q] \in Requesting => pc[q] \in Requesting
    BY <1>2 DEF WriteFailed, Go, Types, Requesting, reqVars
  <2>2. \A r \in AllLines' : r \in AllLines \/ r.id = 0
    BY <1>2, SameLines DEF WriteFailed, linkVars, reqVars
  <2> QED BY <1>a, <1>2, <2>1, <2>2, AnswersKept
<1>3. ASSUME NEW p \in Threads, ReadLine(p)
       PROVE  Answers'
  <2>1. UNCHANGED id /\ \A q \in Threads :
                           pc'[q] \in Requesting => pc[q] \in Requesting
    BY <1>3 DEF ReadLine, Go, Types, Requesting, reqVars
  <2>2. \A r \in AllLines' : r \in AllLines
    <3>1. /\ Head(pipe) = pipe[1] /\ 1 \in DOMAIN pipe
          /\ \A i \in DOMAIN Tail(pipe) : i + 1 \in DOMAIN pipe
                                          /\ Tail(pipe)[i] = pipe[i + 1]
      BY <1>3, TailFacts DEF Types, ReadLine
    <3>2. \A i \in DOMAIN pipe' : \E j \in DOMAIN pipe : pipe'[i] = pipe[j]
      BY <1>3, <3>1 DEF ReadLine
    <3>3. \A q \in Threads : resp'[q] = resp[q] \/ resp'[q] = pipe[1]
      BY <1>3, <3>1 DEF Types, ReadLine
    <3>4. UNCHANGED owed
      BY <1>3 DEF ReadLine
    <3> QED BY <3>1, <3>2, <3>3, <3>4 DEF AllLines
  <2> QED BY <1>a, <1>3, <2>1, <2>2, AnswersKept
<1>4. ASSUME NEW p \in Threads, Abandon(p)
       PROVE  Answers'
  <2>1. UNCHANGED id /\ \A q \in Threads :
                           pc'[q] \in Requesting => pc[q] \in Requesting
    BY <1>4 DEF Abandon, Go, Types, Requesting, reqVars
  <2>2. \A r \in AllLines' : r \in AllLines \/ r.id = 0
    <3>1. \A i \in DOMAIN pipe' : \/ i \in DOMAIN pipe /\ pipe'[i] = pipe[i]
                                  \/ pipe'[i] = Fragment
      BY <1>4 DEF Abandon
    <3>2. UNCHANGED <<owed, resp>>
      BY <1>4 DEF Abandon
    <3> QED BY <3>1, <3>2 DEF AllLines, Fragment
  <2> QED BY <1>a, <1>4, <2>1, <2>2, AnswersKept
<1>5. ASSUME NEW p \in Runs, EndCall(p)
       PROVE  Answers'
  BY <1>a, <1>5, AnswersEnd DEF EndCall, linkVars
<1>6. ASSUME NEW p \in Runs, Execute(p)
       PROVE  Answers'
  BY <1>a, <1>6, AnswersNew DEF Execute, linkVars
<1>7. ASSUME NEW p \in Runs, NextRun(p)
       PROVE  Answers'
  <2>1. UNCHANGED id /\ \A q \in Threads :
                           pc'[q] \in Requesting => pc[q] \in Requesting
    BY <1>7 DEF NextRun, Types, Requesting, reqVars
  <2>2. \A r \in AllLines' : r \in AllLines \/ r.id = 0
    BY <1>7, SameLines DEF NextRun, linkVars, reqVars
  <2> QED BY <1>a, <1>7, <2>1, <2>2, AnswersKept
<1>8. CASE CheckServer
  <2>1. UNCHANGED id /\ \A q \in Threads :
                           pc'[q] \in Requesting => pc[q] \in Requesting
    BY <1>8 DEF CheckServer, AttemptReconnect, Go, Types, Requesting, reqVars
  <2>2. \A r \in AllLines' : r \in AllLines \/ r.id = 0
    BY <1>8, SameLines DEF CheckServer, linkVars, reqVars
  <2> QED BY <1>a, <1>8, <2>1, <2>2, AnswersKept
<1>9. CASE Open
  <2>1. CASE NewRequest(Monitor, "init")
    <3>1. owed' \subseteq owed /\ (pipe' = pipe \/ pipe' = <<>>)
      BY <1>9 DEF Open, linkVars
    <3> QED BY <1>a, <2>1, <3>1, AnswersNew
  <2>2. CASE Go(Monitor, "failed") /\ UNCHANGED <<linkVars, id, kind, resp>>
    <3>1. \A q \in Threads : pc'[q] \in Requesting => pc[q] \in Requesting
      BY <2>2 DEF Go, Types, Requesting
    <3>2. \A r \in AllLines' : r \in AllLines \/ r.id = 0
      BY <2>2, SameLines DEF linkVars
    <3> QED BY <1>a, <2>2, <3>1, <3>2, AnswersKept
  <2> QED BY <1>9, <2>1, <2>2 DEF Open
<1>10. CASE OpenTerminates
  <2>1. UNCHANGED id /\ \A q \in Threads :
                           pc'[q] \in Requesting => pc[q] \in Requesting
    BY <1>10 DEF OpenTerminates, Types, Requesting, reqVars
  <2>2. \A r \in AllLines' : r \in AllLines \/ r.id = 0
    BY <1>10, SameLines DEF OpenTerminates, linkVars, reqVars
  <2> QED BY <1>a, <1>10, <2>1, <2>2, AnswersKept
<1>11. CASE Initialized
  <2>1. CASE NewRequest(Monitor, "list") /\ UNCHANGED linkVars
    BY <1>a, <2>1, AnswersNew DEF linkVars
  <2>2. CASE /\ Go(Monitor, "failed") /\ CloseTransport
             /\ UNCHANGED <<id, kind, resp>>
    <3>1. \A q \in Threads : pc'[q] \in Requesting => pc[q] \in Requesting
      BY <2>2 DEF Go, Types, Requesting
    <3>2. \A r \in AllLines' : r \in AllLines \/ r.id = 0
      BY <2>2, SameLines DEF CloseTransport
    <3> QED BY <1>a, <2>2, <3>1, <3>2, AnswersKept
  <2> QED BY <1>11, <2>1, <2>2 DEF Initialized
<1>12. CASE Listed
  BY <1>a, <1>12, AnswersNew DEF Listed, linkVars
<1>13. CASE ReconnectSuccess
  BY <1>a, <1>13, AnswersEnd DEF ReconnectSuccess, linkVars
<1>14. CASE ReconnectFailed
  BY <1>a, <1>14, AnswersEnd DEF ReconnectFailed, linkVars
<1>15. CASE Answer
  <2>1. UNCHANGED id /\ \A q \in Threads :
                           pc'[q] \in Requesting => pc[q] \in Requesting
    BY <1>15 DEF Answer, Types, Requesting, reqVars
  <2>2. \A r \in AllLines' : r \in AllLines
    <3>1. PICK a \in owed : owed' = owed \ {a} /\ pipe' = Append(pipe, a)
      BY <1>15 DEF Answer
    <3>2. \A i \in DOMAIN pipe' : \/ i \in DOMAIN pipe /\ pipe'[i] = pipe[i]
                                  \/ pipe'[i] = a
      BY <3>1 DEF Types
    <3>3. UNCHANGED resp
      BY <1>15 DEF Answer, reqVars
    <3> QED BY <3>1, <3>2, <3>3 DEF AllLines
  <2> QED BY <1>a, <1>15, <2>1, <2>2, AnswersKept
<1>16. CASE Die
  <2>1. UNCHANGED id /\ \A q \in Threads :
                           pc'[q] \in Requesting => pc[q] \in Requesting
    BY <1>16 DEF Die, Types, Requesting, reqVars
  <2>2. \A r \in AllLines' : r \in AllLines \/ r.id = 0
    BY <1>16, SameLines DEF Die, linkVars, reqVars
  <2> QED BY <1>a, <1>16, <2>1, <2>2, AnswersKept
<1>17. CASE Interrupt
  <2>1. UNCHANGED id /\ \A q \in Threads :
                           pc'[q] \in Requesting => pc[q] \in Requesting
    BY <1>17 DEF Interrupt, Types, Requesting, reqVars
  <2>2. \A r \in AllLines' : r \in AllLines \/ r.id = 0
    BY <1>17, SameLines DEF Interrupt, linkVars, reqVars
  <2> QED BY <1>a, <1>17, <2>1, <2>2, AnswersKept
<1>18. CASE Erase
  <2>1. UNCHANGED id /\ \A q \in Threads :
                           pc'[q] \in Requesting => pc[q] \in Requesting
    BY <1>18 DEF Erase, Types, Requesting, reqVars
  <2>2. \A r \in AllLines' : r \in AllLines \/ r.id = 0
    BY <1>18, SameLines DEF Erase, linkVars, reqVars
  <2> QED BY <1>a, <1>18, <2>1, <2>2, AnswersKept
<1>19. CASE Unwatch
  <2>1. UNCHANGED id /\ \A q \in Threads :
                           pc'[q] \in Requesting => pc[q] \in Requesting
    BY <1>19 DEF Unwatch, Types, Requesting, reqVars
  <2>2. \A r \in AllLines' : r \in AllLines \/ r.id = 0
    BY <1>19, SameLines DEF Unwatch, linkVars, reqVars
  <2> QED BY <1>a, <1>19, <2>1, <2>2, AnswersKept
<1>20. CASE StopMonitor
  <2>1. UNCHANGED id /\ \A q \in Threads :
                           pc'[q] \in Requesting => pc[q] \in Requesting
    BY <1>20 DEF StopMonitor, Types, Requesting, reqVars
  <2>2. \A r \in AllLines' : r \in AllLines \/ r.id = 0
    BY <1>20, SameLines DEF StopMonitor, linkVars, reqVars
  <2> QED BY <1>a, <1>20, <2>1, <2>2, AnswersKept
<1>21. CASE JoinMonitor
  <2>1. UNCHANGED id /\ \A q \in Threads :
                           pc'[q] \in Requesting => pc[q] \in Requesting
    BY <1>21 DEF JoinMonitor, Types, Requesting, reqVars
  <2>2. \A r \in AllLines' : r \in AllLines \/ r.id = 0
    BY <1>21, SameLines DEF JoinMonitor, linkVars, reqVars
  <2> QED BY <1>a, <1>21, <2>1, <2>2, AnswersKept
<1>22. CASE Disconnect
  <2>1. UNCHANGED id /\ \A q \in Threads :
                           pc'[q] \in Requesting => pc[q] \in Requesting
    BY <1>22 DEF Disconnect, Types, Requesting, reqVars
  <2>2. \A r \in AllLines' : r \in AllLines \/ r.id = 0
    BY <1>22, SameLines DEF Disconnect, CloseTransport, linkVars, reqVars
  <2> QED BY <1>a, <1>22, <2>1, <2>2, AnswersKept
<1>23. CASE UNCHANGED vars
  <2>1. UNCHANGED <<id, pc>>
    BY <1>23 DEF vars, reqVars
  <2>2. \A r \in AllLines' : r \in AllLines \/ r.id = 0
    BY <1>23, SameLines DEF vars, linkVars, reqVars
  <2> QED BY <1>a, <2>1, <2>2, AnswersKept
<1>24. ASSUME NEW p \in Threads, Lock(p)
       PROVE  Answers'
  <2>1. UNCHANGED id /\ \A q \in Threads :
                           pc'[q] \in Requesting => pc[q] \in Requesting
    BY <1>24 DEF Lock, Go, Types, Requesting, reqVars
  <2>2. \A r \in AllLines' : r \in AllLines
    <3>1. \A i \in DOMAIN pipe' : i \in DOMAIN pipe /\ pipe'[i] = pipe[i]
      <4>1. DOMAIN <<>> = {}
        OBVIOUS
      <4> QED BY <1>24, <4>1 DEF Lock
    <3>2. UNCHANGED <<owed, resp>>
      BY <1>24 DEF Lock
    <3> QED BY <3>1, <3>2 DEF AllLines
  <2> QED BY <1>a, <1>24, <2>1, <2>2, AnswersKept
<1>25. ASSUME NEW p \in Threads, WriteError(p)
       PROVE  Answers'
  <2>1. UNCHANGED id /\ \A q \in Threads :
                           pc'[q] \in Requesting => pc[q] \in Requesting
    BY <1>25 DEF WriteError, Go, Types, Requesting, reqVars
  <2>2. \A r \in AllLines' : r \in AllLines \/ r.id = 0
    BY <1>25, SameLines DEF WriteError, linkVars, reqVars
  <2> QED BY <1>a, <1>25, <2>1, <2>2, AnswersKept
<1> QED BY <1>a, <1>1, <1>2, <1>3, <1>4, <1>5, <1>6, <1>7, <1>8, <1>9, <1>10,
        <1>11, <1>12, <1>13, <1>14, <1>15, <1>16, <1>17, <1>18, <1>19, <1>20,
        <1>21, <1>22, <1>23, <1>24, <1>25 DEF Next, RequestStep, MonitorStep, AdminStep

\* A response that matches is the thread's own, so none is remembered as
\* foreign.
LEMMA DeliverOwn ==
    ASSUME Types, Answers, foreign = {}, NEW p \in Threads,
           pc[p] = "got", Deliver(p)
    PROVE  foreign' = {}
<1>1. id[p] # 0
  BY DEF Answers, Requesting
<1>2. resp[p] \in AllLines
  BY DEF AllLines
<1>3. ResponseMatches(p) => resp[p].by = p
  BY <1>1, <1>2 DEF Answers, ResponseMatches
<1> QED BY <1>3 DEF Deliver

\* No action hands a thread an answer that is not its own.
LEMMA ForeignStep ==
    ASSUME Types, Answers, foreign = {}, [Next]_vars
    PROVE  foreign' = {}
<1>a. Runs \subseteq Threads /\ Monitor \in Threads /\ None \notin Threads
      /\ Monitor \notin Runs
  BY McpClientAssumption DEF Threads
<1>1. ASSUME NEW p \in Threads, Write(p)
       PROVE  foreign' = {}
  BY <1>1 DEF Write
<1>2. ASSUME NEW p \in Threads, WriteFailed(p)
       PROVE  foreign' = {}
  BY <1>2 DEF WriteFailed
<1>3. ASSUME NEW p \in Threads, ReadLine(p)
       PROVE  foreign' = {}
  BY <1>3 DEF ReadLine
<1>4. ASSUME NEW p \in Threads, Abandon(p)
       PROVE  foreign' = {}
  BY <1>4 DEF Abandon
<1>5. ASSUME NEW p \in Runs, EndCall(p)
       PROVE  foreign' = {}
  BY <1>a, <1>5, DeliverOwn DEF EndCall
<1>6. ASSUME NEW p \in Runs, Execute(p)
       PROVE  foreign' = {}
  BY <1>6 DEF Execute
<1>7. ASSUME NEW p \in Runs, NextRun(p)
       PROVE  foreign' = {}
  BY <1>7 DEF NextRun
<1>8. CASE CheckServer
  BY <1>8 DEF CheckServer
<1>9. CASE Open
  BY <1>9 DEF Open
<1>10. CASE OpenTerminates
  BY <1>10 DEF OpenTerminates
<1>11. CASE Initialized
  BY <1>a, <1>11, DeliverOwn DEF Initialized
<1>12. CASE Listed
  BY <1>a, <1>12, DeliverOwn DEF Listed
<1>13. CASE ReconnectSuccess
  BY <1>a, <1>13, DeliverOwn DEF ReconnectSuccess
<1>14. CASE ReconnectFailed
  BY <1>14 DEF ReconnectFailed
<1>15. CASE Answer
  BY <1>15 DEF Answer
<1>16. CASE Die
  BY <1>16 DEF Die
<1>17. CASE Interrupt
  BY <1>17 DEF Interrupt
<1>18. CASE Erase
  BY <1>18 DEF Erase
<1>19. CASE Unwatch
  BY <1>19 DEF Unwatch
<1>20. CASE StopMonitor
  BY <1>20 DEF StopMonitor
<1>21. CASE JoinMonitor
  BY <1>21 DEF JoinMonitor
<1>22. CASE Disconnect
  BY <1>22 DEF Disconnect
<1>23. CASE UNCHANGED vars
  BY <1>23 DEF vars, linkVars, reqVars, monVars
<1>24. ASSUME NEW p \in Threads, Lock(p)
       PROVE  foreign' = {}
  BY <1>24 DEF Lock
<1>25. ASSUME NEW p \in Threads, WriteError(p)
       PROVE  foreign' = {}
  BY <1>25 DEF WriteError
<1> QED BY <1>a, <1>1, <1>2, <1>3, <1>4, <1>5, <1>6, <1>7, <1>8, <1>9, <1>10,
        <1>11, <1>12, <1>13, <1>14, <1>15, <1>16, <1>17, <1>18, <1>19, <1>20,
        <1>21, <1>22, <1>23, <1>24, <1>25 DEF Next, RequestStep, MonitorStep, AdminStep

(***************************************************************************)
(* io_mutex_, the retries and the removal.                                 *)
(***************************************************************************)
\* Every action keeps io_mutex_ with the thread that writes or reads.
LEMMA LockedStep ==
    ASSUME Types, Locked, [Next]_vars
    PROVE  Locked'
<1>a. Runs \subseteq Threads /\ Monitor \in Threads /\ None \notin Threads
      /\ Monitor \notin Runs
  BY McpClientAssumption DEF Threads
<1>1. ASSUME NEW p \in Threads, Write(p)
       PROVE  Locked'
  BY <1>1, <1>a DEF Types, Locked, Write, Go
<1>2. ASSUME NEW p \in Threads, WriteFailed(p)
       PROVE  Locked'
  BY <1>2, <1>a DEF Types, Locked, WriteFailed, Go
<1>3. ASSUME NEW p \in Threads, ReadLine(p)
       PROVE  Locked'
  BY <1>3, <1>a DEF Types, Locked, ReadLine, Go
<1>4. ASSUME NEW p \in Threads, Abandon(p)
       PROVE  Locked'
  BY <1>4, <1>a DEF Types, Locked, Abandon, Go
<1>5. ASSUME NEW p \in Runs, EndCall(p)
       PROVE  Locked'
  BY <1>5, <1>a DEF Types, Locked, EndCall, EndRequest, Go
<1>6. ASSUME NEW p \in Runs, Execute(p)
       PROVE  Locked'
  BY <1>6, <1>a DEF Types, Locked, Execute, NewRequest, Go
<1>7. ASSUME NEW p \in Runs, NextRun(p)
       PROVE  Locked'
  BY <1>7, <1>a DEF Types, Locked, NextRun, reqVars
<1>8. CASE CheckServer
  BY <1>8, <1>a DEF Types, Locked, CheckServer, AttemptReconnect, Go
<1>9. CASE Open
  BY <1>9, <1>a DEF Types, Locked, Open, NewRequest, Go
<1>10. CASE OpenTerminates
  BY <1>10, <1>a DEF Types, Locked, OpenTerminates
<1>11. CASE Initialized
  BY <1>11, <1>a DEF Types, Locked, Initialized, NewRequest, Go
<1>12. CASE Listed
  BY <1>12, <1>a DEF Types, Locked, Listed, NewRequest, Go
<1>13. CASE ReconnectSuccess
  BY <1>13, <1>a DEF Types, Locked, ReconnectSuccess, EndRequest, Go
<1>14. CASE ReconnectFailed
  BY <1>14, <1>a DEF Types, Locked, ReconnectFailed, EndRequest, Go
<1>15. CASE Answer
  BY <1>15, <1>a DEF Types, Locked, Answer, reqVars
<1>16. CASE Die
  BY <1>16, <1>a DEF Types, Locked, Die, reqVars
<1>17. CASE Interrupt
  BY <1>17, <1>a DEF Types, Locked, Interrupt, reqVars
<1>18. CASE Erase
  BY <1>18, <1>a DEF Types, Locked, Erase, reqVars
<1>19. CASE Unwatch
  BY <1>19, <1>a DEF Types, Locked, Unwatch, reqVars
<1>20. CASE StopMonitor
  BY <1>20, <1>a DEF Types, Locked, StopMonitor, reqVars
<1>21. CASE JoinMonitor
  BY <1>21, <1>a DEF Types, Locked, JoinMonitor, reqVars
<1>22. CASE Disconnect
  BY <1>22, <1>a DEF Types, Locked, Disconnect, reqVars
<1>23. CASE UNCHANGED vars
  BY <1>23, <1>a DEF Types, Locked, vars, linkVars, reqVars, monVars
<1>24. ASSUME NEW p \in Threads, Lock(p)
       PROVE  Locked'
  BY <1>24, <1>a DEF Types, Locked, Lock, Go
<1>25. ASSUME NEW p \in Threads, WriteError(p)
       PROVE  Locked'
  BY <1>25, <1>a DEF Types, Locked, WriteError, Go
<1> QED BY <1>a, <1>1, <1>2, <1>3, <1>4, <1>5, <1>6, <1>7, <1>8, <1>9, <1>10,
        <1>11, <1>12, <1>13, <1>14, <1>15, <1>16, <1>17, <1>18, <1>19, <1>20,
        <1>21, <1>22, <1>23, <1>24, <1>25 DEF Next, RequestStep, MonitorStep, AdminStep

\* Every action keeps the count of the attempts within max_retries_.
LEMMA RetriesStep ==
    ASSUME Types, Retries, [Next]_vars
    PROVE  Retries'
<1>a. Runs \subseteq Threads /\ Monitor \in Threads /\ None \notin Threads
      /\ Monitor \notin Runs
  BY McpClientAssumption DEF Threads
<1>b. MaxRetries \in Nat /\ entry \in [status : Statuses, attempt : Nat]
  BY McpClientAssumption DEF Types
<1>1. ASSUME NEW p \in Threads, Write(p)
       PROVE  Retries'
  BY <1>1, <1>a, <1>b DEF Types, Retries, Write, Go, monVars
<1>2. ASSUME NEW p \in Threads, WriteFailed(p)
       PROVE  Retries'
  BY <1>2, <1>a, <1>b DEF Types, Retries, WriteFailed, Go, monVars
<1>3. ASSUME NEW p \in Threads, ReadLine(p)
       PROVE  Retries'
  BY <1>3, <1>a, <1>b DEF Types, Retries, ReadLine, Go, monVars
<1>4. ASSUME NEW p \in Threads, Abandon(p)
       PROVE  Retries'
  BY <1>4, <1>a, <1>b DEF Types, Retries, Abandon, Go, monVars
<1>5. ASSUME NEW p \in Runs, EndCall(p)
       PROVE  Retries'
  BY <1>5, <1>a, <1>b DEF Types, Retries, EndCall, EndRequest, Go, monVars
<1>6. ASSUME NEW p \in Runs, Execute(p)
       PROVE  Retries'
  BY <1>6, <1>a, <1>b DEF Types, Retries, Execute, NewRequest, Go, monVars
<1>7. ASSUME NEW p \in Runs, NextRun(p)
       PROVE  Retries'
  BY <1>7, <1>a, <1>b DEF Types, Retries, NextRun, reqVars, monVars
<1>8. CASE CheckServer
  <2>1. PICK e \in {entry, [entry EXCEPT !.attempt = 0]} : AttemptReconnect(e)
    BY <1>8 DEF CheckServer
  <2>2. e.attempt \in {entry.attempt, 0} /\ e \in [status : Statuses, attempt : Nat]
    BY <1>b, <2>1
  <2>3. CASE Exhausted(e.attempt)
    <3>1. entry' = [e EXCEPT !.status = "error"] /\ pc' = pc
      BY <2>1, <2>3 DEF AttemptReconnect
    <3>2. entry'.attempt = e.attempt
      BY <2>2, <3>1
    <3>3. pc[Monitor] = "idle"
      BY <1>8 DEF CheckServer
    <3> QED BY <1>b, <2>2, <3>1, <3>2, <3>3 DEF Retries
  <2>4. CASE ~Exhausted(e.attempt)
    <3>1. entry' = [e EXCEPT !.status = "reconnecting"]
      BY <2>1, <2>4 DEF AttemptReconnect
    <3>2. entry'.attempt = e.attempt
      BY <2>2, <3>1
    <3> QED BY <1>b, <2>2, <2>4, <3>2 DEF Retries, Exhausted
  <2> QED BY <2>3, <2>4
<1>9. CASE Open
  BY <1>9, <1>a, <1>b DEF Types, Retries, Open, NewRequest, Go, monVars
<1>10. CASE OpenTerminates
  BY <1>10, <1>a, <1>b DEF Types, Retries, OpenTerminates
<1>11. CASE Initialized
  BY <1>11, <1>a, <1>b
  DEF Types, Retries, Initialized, NewRequest, Go, monVars
<1>12. CASE Listed
  BY <1>12, <1>a, <1>b DEF Types, Retries, Listed, NewRequest, Go, monVars
<1>13. CASE ReconnectSuccess
  <2>1. pc'[Monitor] = "idle" /\ entry'.attempt = 0
    BY <1>a, <1>13 DEF ReconnectSuccess, EndRequest, Go, Types
  <2> QED BY <1>b, <2>1 DEF Retries, Exhausted
<1>14. CASE ReconnectFailed
  <2>1. pc[Monitor] = "failed" /\ pc' = [pc EXCEPT ![Monitor] = "idle"]
    BY <1>14 DEF ReconnectFailed, EndRequest, Go
  <2>2. entry'.attempt = entry.attempt + 1
    BY <1>14, <1>b DEF ReconnectFailed, RetryLater
  <2>3. pc'[Monitor] = "idle"
    BY <1>a, <2>1 DEF Types
  <2> QED BY <1>b, <2>1, <2>2, <2>3 DEF Retries, Exhausted
<1>15. CASE Answer
  BY <1>15, <1>a, <1>b DEF Types, Retries, Answer, reqVars, monVars
<1>16. CASE Die
  BY <1>16, <1>a, <1>b DEF Types, Retries, Die, reqVars, monVars
<1>17. CASE Interrupt
  BY <1>17, <1>a, <1>b DEF Types, Retries, Interrupt, reqVars, monVars
<1>18. CASE Erase
  BY <1>18, <1>a, <1>b DEF Types, Retries, Erase, reqVars, monVars
<1>19. CASE Unwatch
  <2>1. pc'[Monitor] = "idle" /\ entry'.attempt = 0
    BY <1>19 DEF Unwatch, WatchedMutexFree, NoEntry, reqVars
  <2> QED BY <1>b, <2>1 DEF Retries, Exhausted
<1>20. CASE StopMonitor
  BY <1>20, <1>a, <1>b DEF Types, Retries, StopMonitor, reqVars, monVars
<1>21. CASE JoinMonitor
  BY <1>21, <1>a, <1>b DEF Types, Retries, JoinMonitor, reqVars, monVars
<1>22. CASE Disconnect
  BY <1>22, <1>a, <1>b DEF Types, Retries, Disconnect, reqVars, monVars
<1>23. CASE UNCHANGED vars
  BY <1>23, <1>a, <1>b DEF Types, Retries, vars, linkVars, reqVars, monVars
<1>24. ASSUME NEW p \in Threads, Lock(p)
       PROVE  Retries'
  BY <1>24, <1>a, <1>b DEF Types, Retries, Lock, Go, monVars
<1>25. ASSUME NEW p \in Threads, WriteError(p)
       PROVE  Retries'
  BY <1>25, <1>a, <1>b DEF Types, Retries, WriteError, Go, monVars
<1> QED BY <1>a, <1>1, <1>2, <1>3, <1>4, <1>5, <1>6, <1>7, <1>8, <1>9, <1>10,
        <1>11, <1>12, <1>13, <1>14, <1>15, <1>16, <1>17, <1>18, <1>19, <1>20,
        <1>21, <1>22, <1>23, <1>24, <1>25 DEF Next, RequestStep, MonitorStep, AdminStep

\* Every action keeps what a removal has reached.
LEMMA RemovalStep ==
    ASSUME Types, Removal, [Next]_vars
    PROVE  Removal'
<1>a. Runs \subseteq Threads /\ Monitor \in Threads /\ None \notin Threads
      /\ Monitor \notin Runs
  BY McpClientAssumption DEF Threads
<1>1. ASSUME NEW p \in Threads, Write(p)
       PROVE  Removal'
  BY <1>1, <1>a DEF Types, Removal, Write, Go, linkVars, monVars
<1>2. ASSUME NEW p \in Threads, WriteFailed(p)
       PROVE  Removal'
  BY <1>2, <1>a DEF Types, Removal, WriteFailed, Go, linkVars, monVars
<1>3. ASSUME NEW p \in Threads, ReadLine(p)
       PROVE  Removal'
  BY <1>3, <1>a DEF Types, Removal, ReadLine, Go, linkVars, monVars
<1>4. ASSUME NEW p \in Threads, Abandon(p)
       PROVE  Removal'
  BY <1>4, <1>a DEF Types, Removal, Abandon, Go, linkVars, monVars
<1>5. ASSUME NEW p \in Runs, EndCall(p)
       PROVE  Removal'
  BY <1>5, <1>a DEF Types, Removal, EndCall, EndRequest, Go, linkVars, monVars
<1>6. ASSUME NEW p \in Runs, Execute(p)
       PROVE  Removal'
  BY <1>6, <1>a DEF Types, Removal, Execute, NewRequest, Go, linkVars, monVars
<1>7. ASSUME NEW p \in Runs, NextRun(p)
       PROVE  Removal'
  BY <1>7, <1>a DEF Types, Removal, NextRun, reqVars, linkVars, monVars
<1>8. CASE CheckServer
  BY <1>8, <1>a
  DEF Types, Removal, CheckServer, AttemptReconnect, Go, linkVars, monVars
<1>9. CASE Open
  BY <1>9, <1>a DEF Types, Removal, Open, NewRequest, Go, linkVars, monVars
<1>10. CASE OpenTerminates
  BY <1>10, <1>a DEF Types, Removal, OpenTerminates
<1>11. CASE Initialized
  BY <1>11, <1>a
  DEF Types, Removal, Initialized, CloseTransport, NewRequest, Go, linkVars, monVars
<1>12. CASE Listed
  BY <1>12, <1>a DEF Types, Removal, Listed, NewRequest, Go, linkVars, monVars
<1>13. CASE ReconnectSuccess
  BY <1>13, <1>a
  DEF Types, Removal, ReconnectSuccess, EndRequest, Go, linkVars, monVars
<1>14. CASE ReconnectFailed
  BY <1>14, <1>a
  DEF Types, Removal, ReconnectFailed, EndRequest, Go, linkVars, monVars
<1>15. CASE Answer
  BY <1>15, <1>a DEF Types, Removal, Answer, reqVars, linkVars, monVars
<1>16. CASE Die
  BY <1>16, <1>a DEF Types, Removal, Die, reqVars, linkVars, monVars
<1>17. CASE Interrupt
  BY <1>17, <1>a DEF Types, Removal, Interrupt, reqVars, linkVars, monVars
<1>18. CASE Erase
  BY <1>18, <1>a DEF Types, Removal, Erase, reqVars, linkVars, monVars
<1>19. CASE Unwatch
  BY <1>19, <1>a
  DEF Types, Removal, Unwatch, WatchedMutexFree, NoEntry, reqVars, linkVars, monVars
<1>20. CASE StopMonitor
  BY <1>20, <1>a DEF Types, Removal, StopMonitor, reqVars, linkVars, monVars
<1>21. CASE JoinMonitor
  BY <1>21, <1>a DEF Types, Removal, JoinMonitor, reqVars, linkVars, monVars
<1>22. CASE Disconnect
  BY <1>22, <1>a
  DEF Types, Removal, Disconnect, CloseTransport, reqVars, linkVars, monVars
<1>23. CASE UNCHANGED vars
  BY <1>23, <1>a DEF Types, Removal, vars, linkVars, reqVars, monVars
<1>24. ASSUME NEW p \in Threads, Lock(p)
       PROVE  Removal'
  BY <1>24, <1>a DEF Types, Removal, Lock, Go, linkVars, monVars
<1>25. ASSUME NEW p \in Threads, WriteError(p)
       PROVE  Removal'
  BY <1>25, <1>a DEF Types, Removal, WriteError, Go, linkVars, monVars
<1> QED BY <1>a, <1>1, <1>2, <1>3, <1>4, <1>5, <1>6, <1>7, <1>8, <1>9, <1>10,
        <1>11, <1>12, <1>13, <1>14, <1>15, <1>16, <1>17, <1>18, <1>19, <1>20,
        <1>21, <1>22, <1>23, <1>24, <1>25 DEF Next, RequestStep, MonitorStep, AdminStep

(***************************************************************************)
(* The theorems.                                                           *)
(***************************************************************************)
Inv == Locked /\ Answers /\ Retries /\ Removal /\ foreign = {}

\* The first states satisfy the invariant.
LEMMA InvInit == Init => Inv
<1>a. Runs \subseteq Threads /\ Monitor \in Threads /\ None \notin Threads
      /\ Monitor \notin Runs
  BY McpClientAssumption DEF Threads
<1> SUFFICES ASSUME Init PROVE Inv
  OBVIOUS
<1>1. Locked
  BY <1>a DEF Init, Locked
<1>2. Answers
  BY DEF Init, Answers, Requesting
<1>3. Retries
  BY <1>a, McpClientAssumption DEF Init, Retries
<1>4. Removal
  BY DEF Init, Removal
<1> QED BY <1>1, <1>2, <1>3, <1>4 DEF Init, Inv

\* Types and the invariant always hold.
LEMMA Invariance == Spec => [](Types /\ Inv)
<1>1. Init => Types /\ Inv
  BY TypesInit, InvInit
<1>2. Types /\ Inv /\ [Next]_vars => (Types /\ Inv)'
  <2> SUFFICES ASSUME Types, Inv, [Next]_vars
               PROVE  Types' /\ Inv'
    OBVIOUS
  <2>1. Types'
    BY TypesStep
  <2> QED BY <2>1, LockedStep, AnswersStep, RetriesStep, RemovalStep,
          ForeignStep DEF Inv
<1> QED BY <1>1, <1>2, PTL DEF Spec

\* Every variable keeps its type, io_mutex_ is with exactly the thread that
\* writes or reads, and the monitor never counts past max_retries_: for any
\* number of threads, retries, calls and faults.
THEOREM TypeCorrect == Spec => []TypeOK
<1>1. Types /\ Inv => TypeOK
  <2> SUFFICES ASSUME Types, Inv PROVE TypeOK
    OBVIOUS
  <2>1. entry.status \in Statuses /\ entry.attempt \in Nat
    BY DEF Types
  <2>2. MaxRetries # 0 => entry.attempt <= MaxRetries
    BY DEF Inv, Retries
  <2> QED BY <2>1, <2>2 DEF Types, Inv, Locked, TypeOK, Places, Statuses,
          Admins
<1> QED BY <1>1, Invariance, PTL

\* Whatever the child answers, in whatever order and however late, and
\* whichever request is given up: send_request never hands a thread the answer
\* to another thread's request, because an id is of one request only.
THEOREM OwnAnswers == Spec => []AnswerIsOwn
<1>1. Types /\ Inv => AnswerIsOwn
  BY DEF Inv, AnswerIsOwn
<1> QED BY <1>1, Invariance, PTL

\* A server that was removed has no child, no pump, no open connection and no
\* answer on its way, and the monitor does not bring it back.
THEOREM RemovalIsClean == Spec => []RemovedClean
<1>1. Types /\ Inv => RemovedClean
  BY DEF Inv, Removal, RemovedClean
<1> QED BY <1>1, Invariance, PTL
==============================================================================
