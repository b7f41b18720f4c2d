--------------------------- MODULE ResidencyProofs ---------------------------
(***************************************************************************)
(* Proofs about Residency, for any threads, sessions, tiers, models and    *)
(* adapters, any sharing of models by tiers and any number of calls.  The  *)
(* argument follows the locks: what a thread holds at each point of a call *)
(* (Locks), that with concurrent_sessions off one turn claim exists at a   *)
(* time (Serial), that the model in VRAM is the one loaded_main_tier_ names*)
(* (Resident), and that adapter handles live on it (Loras).                *)
(***************************************************************************)
EXTENDS Residency, FiniteSetTheorems, TLAPS

PCs == {"idle", "turn", "route", "classify", "get_model", "activate", "lora",
        "ready", "decode", "query_api", "query", "use", "release_api",
        "release_swap", "release", "unload", "unload_ctx", "swap", "swap_ctx",
        "forget"}

TypeOK ==
    /\ concurrent \in BOOLEAN
    /\ pc \in [Threads -> PCs]
    /\ key \in [Threads -> Sessions \cup {None}]
    /\ tier \in [Threads -> Tiers \cup Adapters \cup {None}]
    /\ using \in [Threads -> Backends \cup {None}]
    /\ left \in Nat
    /\ pending \in [Threads -> SUBSET Backends]
    /\ api \in Threads \cup {None}
    /\ gen \in Threads \cup {None}
    /\ swap \in Threads \cup {None}
    /\ state \in [Backends -> {"COLD", "WARM", "ACTIVE"}]
    /\ main \in Tiers \cup {None}
    /\ router \in BOOLEAN
    /\ lora \in [Adapters -> LoraStates]
    /\ active \in Adapters \cup {None}

\* What the rest of a call relies on: get_model goes on with a configured
\* tier, a decode or query with a backend, an adapter call with an adapter.
Targets ==
    \A t \in Threads :
        /\ pc[t] \in {"activate", "lora"} => Effective(t) \in Tiers
        /\ pc[t] \in {"ready", "decode", "query", "use"} =>
              using[t] \in Backends
        /\ pc[t] \in {"unload", "unload_ctx", "swap", "swap_ctx"} =>
              tier[t] \in Adapters

\* The mutexes a thread holds at each point of a call.
Locks ==
    \A t \in Threads :
        /\ pc[t] \in {"route", "classify", "ready", "decode"} => gen = t
        /\ pc[t] \in {"get_model", "activate", "lora"} => gen = t \/ api = t
        /\ pc[t] \in {"query", "use", "release_swap", "release", "unload",
                      "unload_ctx", "swap", "swap_ctx", "forget"} => api = t
        /\ pc[t] \in {"activate", "lora", "release"} => swap = t

\* Every call but the adapter calls and the session's own runs under a turn
\* claim, and with concurrent_sessions off there is one claim at a time.
Unclaimed == {"idle", "unload", "unload_ctx", "swap", "swap_ctx", "forget"}
Serial ==
    /\ \A t \in Threads : pc[t] \notin Unclaimed => key[t] # None
    /\ ~concurrent => \A t, u \in Threads :
                         key[t] # None /\ key[u] # None => t = u

\* The model in VRAM is the one of loaded_main_tier_; none is while a thread
\* is about to activate one.
Resident ==
    /\ \A b \in Backends :
          state[b] = "ACTIVE" => main # None /\ BackendOf[main] = b
    /\ \A t \in Threads :
          pc[t] = "activate" => \A b \in Backends : state[b] # "ACTIVE"
    /\ \A t \in Threads : pc[t] = "lora" => state[Wanted(t)] = "ACTIVE"

\* With concurrent_sessions off, the backend a call was given stays resident
\* and the router stays loaded until the call is done with it.
InHand ==
    ~concurrent =>
        \A t \in Threads :
            /\ pc[t] \in {"ready", "decode", "query", "use"} =>
                  state[using[t]] = "ACTIVE"
            /\ pc[t] = "classify" => router

\* With concurrent_sessions off, adapter handles live on the resident model,
\* the one applied is active_name_, and active_name_ is no adapter whose
\* handle a release has freed.
Loras ==
    ~concurrent =>
        /\ \A n \in Adapters : lora[n] # "DANGLING"
        /\ \A n \in Adapters : Bound(n) => state[Base(n)] = "ACTIVE"
        /\ \A n \in Adapters : lora[n] = "HOT" => active = n
        /\ active # None => lora[active] # "COLD"

Inv == Targets /\ Locks /\ Serial /\ Resident /\ InHand /\ Loras

USE DEF vars, threadVars, lockVars, modelVars, loraVars

(***************************************************************************)
(* Types, and what each point of a call relies on.                         *)
(***************************************************************************)
\* The base model of an adapter is a backend.
LEMMA BaseType ==
    ASSUME NEW n \in Adapters
    PROVE  Base(n) \in Backends
BY ResidencyAssumption DEF Adapters, Base

\* Evicting, releasing and reloading a model keep the adapter states.
LEMMA LoraTypes ==
    ASSUME TypeOK, NEW b \in Backends
    PROVE  /\ Orphaned(b) \in [Adapters -> LoraStates]
           /\ Cascade(b) \in [Adapters -> LoraStates]
           /\ HandlesReleased(b) \in [Adapters -> LoraStates]
           /\ ActiveWithout(b) \in Adapters \cup {None}
<1>1. Orphaned(b) \in [Adapters -> LoraStates]
  BY DEF TypeOK, LoraStates, Orphaned
<1>2. Cascade(b) \in [Adapters -> LoraStates]
  BY DEF TypeOK, LoraStates, Cascade
<1>3. HandlesReleased(b) \in [Adapters -> LoraStates]
  BY DEF TypeOK, LoraStates, HandlesReleased
<1>4. ActiveWithout(b) \in Adapters \cup {None}
  BY DEF TypeOK, ActiveWithout
<1> QED BY <1>1, <1>2, <1>3, <1>4

\* So do applying an adapter and the choice a generation makes for its tier.
LEMMA AppliedTypes ==
    ASSUME TypeOK
    PROVE  /\ Cooled \in [Adapters -> LoraStates]
           /\ \A n \in Adapters : Applied(n) \in [Adapters -> LoraStates]
           /\ \A r : EnsureAdapter(r) => /\ lora' \in [Adapters -> LoraStates]
                                         /\ active' \in Adapters \cup {None}
<1>1. Cooled \in [Adapters -> LoraStates]
  BY DEF TypeOK, LoraStates, Cooled
<1>2. ASSUME NEW n \in Adapters
      PROVE  Applied(n) \in [Adapters -> LoraStates]
  BY <1>1 DEF LoraStates, Applied
<1>3. ASSUME NEW r, EnsureAdapter(r)
      PROVE  /\ lora' \in [Adapters -> LoraStates]
             /\ active' \in Adapters \cup {None}
  <2>1. r \in Adapted => r \in Adapters
    BY DEF Adapters
  <2> QED BY <1>1, <1>2, <1>3, <2>1 DEF TypeOK, EnsureAdapter
<1> QED BY <1>1, <1>2, <1>3

\* Init satisfies the types and reaches no point that relies on anything.
LEMMA TypeInit == Init => TypeOK /\ Targets
<1>1. Init => TypeOK
  BY ResidencyAssumption DEF Init, TypeOK, PCs, LoraStates
<1>2. Init => Targets
  BY DEF Init, Targets
<1> QED BY <1>1, <1>2

\* Every action keeps the types.
LEMMA TypeStep ==
    ASSUME TypeOK, Targets, [Next]_vars
    PROVE  TypeOK'
<1>1. ASSUME NEW t \in Threads, NEW k \in Sessions, BeginTurn(t, k)
      PROVE  TypeOK'
  BY <1>1 DEF TypeOK, PCs, BeginTurn, Spend, Claim, Go
<1>2. ASSUME NEW t \in Threads, EndTurn(t)
      PROVE  TypeOK'
  BY <1>2 DEF TypeOK, PCs, EndTurn, Go
<1>3. ASSUME NEW t \in Threads, Generate(t)
      PROVE  TypeOK'
  BY <1>3 DEF TypeOK, PCs, Generate, Spend, GenFree, Go
<1>4. ASSUME NEW t \in Threads, Route(t)
      PROVE  TypeOK'
  BY <1>4 DEF TypeOK, PCs, Route, Go
<1>5. ASSUME NEW t \in Threads, Classify(t)
      PROVE  TypeOK'
  BY <1>5 DEF TypeOK, PCs, Classify, Go
<1>6. ASSUME NEW t \in Threads, StartDecode(t)
      PROVE  TypeOK'
  BY <1>6 DEF TypeOK, PCs, StartDecode, Go
<1>7. ASSUME NEW t \in Threads, EndDecode(t)
      PROVE  TypeOK'
  BY <1>7 DEF TypeOK, PCs, EndDecode, Go
<1>8. ASSUME NEW t \in Threads, GetModelRefused(t)
      PROVE  TypeOK'
  BY <1>8 DEF TypeOK, PCs, GetModelRefused, NoModel, SwapFree, Go
<1>9. ASSUME NEW t \in Threads, Reuse(t)
      PROVE  TypeOK'
  <2>1. Effective(t) \in Tiers \cup {None}
    BY ResidencyAssumption DEF Effective
  <2> QED BY <1>9, <2>1 DEF TypeOK, PCs, Reuse, SwapFree, Go
<1>10. ASSUME NEW t \in Threads, Evict(t)
       PROVE  TypeOK'
  <2>1. state' \in [Backends -> {"COLD", "WARM", "ACTIVE"}]
    BY <1>10 DEF TypeOK, Evict
  <2>2. /\ lora' \in [Adapters -> LoraStates]
        /\ active' \in Adapters \cup {None}
    BY <1>10, LoraTypes DEF TypeOK, Evict, Incumbent
  <2> QED BY <1>10, <2>1, <2>2 DEF TypeOK, PCs, Evict, SwapFree, Go
<1>11. ASSUME NEW t \in Threads, Activate(t)
       PROVE  TypeOK'
  <2>1. Effective(t) \in Tiers /\ Wanted(t) \in Backends
    BY <1>11, ResidencyAssumption DEF Targets, Activate, Wanted
  <2>2. state' \in [Backends -> {"COLD", "WARM", "ACTIVE"}]
    BY <1>11, <2>1 DEF TypeOK, Activate
  <2>3. lora' \in [Adapters -> LoraStates]
    BY <1>11, <2>1, LoraTypes DEF Activate, LoraStates
  <2> QED BY <1>11, <2>1, <2>2, <2>3 DEF TypeOK, PCs, Activate, Go
<1>12. ASSUME NEW t \in Threads, ActivateFails(t)
       PROVE  TypeOK'
  BY <1>12 DEF TypeOK, PCs, ActivateFails, NoModel, Go
<1>13. ASSUME NEW t \in Threads, EnsureLora(t)
       PROVE  TypeOK'
  <2>1. Wanted(t) \in Backends
    BY <1>13, ResidencyAssumption DEF Targets, EnsureLora, Wanted
  <2>2. /\ lora' \in [Adapters -> LoraStates]
        /\ active' \in Adapters \cup {None}
    BY <1>13, AppliedTypes DEF EnsureLora
  <2> QED BY <1>13, <2>1, <2>2 DEF TypeOK, PCs, EnsureLora, Go
<1>14. ASSUME NEW t \in Threads, NEW r \in Tiers, BeginQuery(t, r)
       PROVE  TypeOK'
  BY <1>14, ResidencyAssumption DEF TypeOK, PCs, BeginQuery, Spend, Claim, Go
<1>15. ASSUME NEW t \in Threads, NEW r \in Tiers \cup {None},
              BeginRelease(t, r)
       PROVE  TypeOK'
  <2>1. pending' \in [Threads -> SUBSET Backends]
    BY <1>15, ResidencyAssumption DEF TypeOK, BeginRelease
  <2> QED BY <1>15, <2>1, ResidencyAssumption
          DEF TypeOK, PCs, BeginRelease, Spend, Claim, Go
<1>16. ASSUME NEW t \in Threads, LockApi(t)
       PROVE  TypeOK'
  BY <1>16 DEF TypeOK, PCs, LockApi, Go
<1>17. ASSUME NEW t \in Threads, Query(t)
       PROVE  TypeOK'
  BY <1>17 DEF TypeOK, PCs, Query, EndHostCall, Go
<1>18. ASSUME NEW t \in Threads, EndQuery(t)
       PROVE  TypeOK'
  BY <1>18 DEF TypeOK, PCs, EndQuery, EndHostCall, Go
<1>19. ASSUME NEW t \in Threads, NEW n \in DOMAIN HostLoras, LoadAdapter(t, n)
       PROVE  TypeOK'
  <2>1. lora' \in [Adapters -> LoraStates]
    BY <1>19 DEF TypeOK, LoraStates, LoadAdapter
  <2> QED BY <1>19, <2>1 DEF TypeOK, PCs, LoadAdapter, EndHostCall, Go
<1>20. ASSUME NEW t \in Threads, ReleaseLock(t)
       PROVE  TypeOK'
  BY <1>20 DEF TypeOK, PCs, ReleaseLock, Go
<1>21. ASSUME NEW t \in Threads, NEW b \in Backends, ReleaseBackend(t, b)
       PROVE  TypeOK'
  <2>1. /\ lora' \in [Adapters -> LoraStates]
        /\ active' \in Adapters \cup {None}
        /\ state' \in [Backends -> {"COLD", "WARM", "ACTIVE"}]
        /\ main' \in Tiers \cup {None}
    BY <1>21, LoraTypes DEF TypeOK, ReleaseBackend
  <2>2. pending' \in [Threads -> SUBSET Backends]
    BY <1>21 DEF TypeOK, ReleaseBackend
  <2> QED BY <1>21, <2>1, <2>2 DEF TypeOK, ReleaseBackend
<1>22. ASSUME NEW t \in Threads, EndRelease(t)
       PROVE  TypeOK'
  BY <1>22 DEF TypeOK, PCs, EndRelease, EndHostCall, Go
<1>23. ASSUME NEW t \in Threads, NEW n \in Adapters, NEW what \in {"unload", "swap"},
              BeginAdapter(t, n, what)
       PROVE  TypeOK'
  BY <1>23 DEF TypeOK, PCs, BeginAdapter, Spend, Go
<1>24. ASSUME NEW t \in Threads, ReadContext(t)
       PROVE  TypeOK'
  <2>1. using' \in [Threads -> Backends \cup {None}]
    BY <1>24, ResidencyAssumption DEF TypeOK, ReadContext, EndHostCall
  <2> QED BY <1>24, <2>1 DEF TypeOK, PCs, ReadContext, EndHostCall, Go
<1>25. ASSUME NEW t \in Threads, UnloadAdapter(t)
       PROVE  TypeOK'
  <2>1. lora' \in [Adapters -> LoraStates]
    BY <1>25 DEF TypeOK, LoraStates, UnloadAdapter
  <2> QED BY <1>25, <2>1 DEF TypeOK, PCs, UnloadAdapter, EndHostCall, Go
<1>26. ASSUME NEW t \in Threads, SwapAdapter(t)
       PROVE  TypeOK'
  <2>1. /\ lora' \in [Adapters -> LoraStates]
        /\ active' \in Adapters \cup {None}
    BY <1>26, AppliedTypes DEF TypeOK, Targets, SwapAdapter
  <2> QED BY <1>26, <2>1 DEF TypeOK, PCs, SwapAdapter, EndHostCall, Go
<1>27. ASSUME NEW t \in Threads, BeginForget(t)
       PROVE  TypeOK'
  BY <1>27 DEF TypeOK, PCs, BeginForget, Spend, Go
<1>28. ASSUME NEW t \in Threads, ForgetSessionKv(t)
       PROVE  TypeOK'
  BY <1>28 DEF TypeOK, PCs, ForgetSessionKv, GenFree, EndHostCall, Go
<1>29. CASE UNCHANGED vars
  BY <1>29 DEF TypeOK, PCs
<1> QED BY <1>1, <1>2, <1>3, <1>4, <1>5, <1>6, <1>7, <1>8, <1>9,
        <1>10, <1>11, <1>12, <1>13, <1>14, <1>15, <1>16, <1>17, <1>18, <1>19,
        <1>20, <1>21, <1>22, <1>23, <1>24, <1>25, <1>26, <1>27, <1>28, <1>29
        DEF Next, Begin, Step, GetModel

\* Every action keeps what the next point of its call relies on.
LEMMA TargetsStep ==
    ASSUME TypeOK, Targets, [Next]_vars
    PROVE  Targets'
<1>1. ASSUME NEW t \in Threads, NEW k \in Sessions, BeginTurn(t, k)
      PROVE  Targets'
  BY <1>1 DEF TypeOK, Targets, Effective, BeginTurn, Spend, Claim, Go
<1>2. ASSUME NEW t \in Threads, EndTurn(t)
      PROVE  Targets'
  BY <1>2 DEF TypeOK, Targets, Effective, EndTurn, Go
<1>3. ASSUME NEW t \in Threads, Generate(t)
      PROVE  Targets'
  BY <1>3 DEF TypeOK, Targets, Effective, Generate, Spend, GenFree, Go
<1>4. ASSUME NEW t \in Threads, Route(t)
      PROVE  Targets'
  BY <1>4 DEF TypeOK, Targets, Effective, Route, Go
<1>5. ASSUME NEW t \in Threads, Classify(t)
      PROVE  Targets'
  BY <1>5 DEF TypeOK, Targets, Effective, Classify, Go
<1>6. ASSUME NEW t \in Threads, StartDecode(t)
      PROVE  Targets'
  BY <1>6 DEF TypeOK, Targets, Effective, StartDecode, Go
<1>7. ASSUME NEW t \in Threads, EndDecode(t)
      PROVE  Targets'
  BY <1>7 DEF TypeOK, Targets, Effective, EndDecode, Go
<1>8. ASSUME NEW t \in Threads, GetModelRefused(t)
      PROVE  Targets'
  BY <1>8
  DEF TypeOK, Targets, Effective, GetModelRefused, NoModel, SwapFree, Go
<1>9. ASSUME NEW t \in Threads, Reuse(t)
      PROVE  Targets'
  <2>1. Effective(t) \in Tiers
    BY <1>9, ResidencyAssumption DEF Reuse, Refused, Effective
  <2> QED BY <1>9, <2>1 DEF TypeOK, Targets, Effective, Reuse, Go
<1>10. ASSUME NEW t \in Threads, Evict(t)
       PROVE  Targets'
  <2>1. Effective(t) \in Tiers
    BY <1>10, ResidencyAssumption DEF Evict, Refused, Effective
  <2> QED BY <1>10, <2>1 DEF TypeOK, Targets, Effective, Evict, Go
<1>11. ASSUME NEW t \in Threads, Activate(t)
       PROVE  Targets'
  BY <1>11 DEF TypeOK, Targets, Effective, Activate, Go
<1>12. ASSUME NEW t \in Threads, ActivateFails(t)
       PROVE  Targets'
  BY <1>12 DEF TypeOK, Targets, Effective, ActivateFails, NoModel, Go
<1>13. ASSUME NEW t \in Threads, EnsureLora(t)
       PROVE  Targets'
  <2>1. Wanted(t) \in Backends
    BY <1>13, ResidencyAssumption DEF Targets, EnsureLora, Wanted
  <2> QED BY <1>13, <2>1 DEF TypeOK, Targets, Effective, EnsureLora, Go
<1>14. ASSUME NEW t \in Threads, NEW r \in Tiers, BeginQuery(t, r)
       PROVE  Targets'
  BY <1>14 DEF TypeOK, Targets, Effective, BeginQuery, Spend, Claim, Go
<1>15. ASSUME NEW t \in Threads, NEW r \in Tiers \cup {None},
              BeginRelease(t, r)
       PROVE  Targets'
  BY <1>15 DEF TypeOK, Targets, Effective, BeginRelease, Spend, Claim, Go
<1>16. ASSUME NEW t \in Threads, LockApi(t)
       PROVE  Targets'
  BY <1>16 DEF TypeOK, Targets, Effective, LockApi, Go
<1>17. ASSUME NEW t \in Threads, Query(t)
       PROVE  Targets'
  BY <1>17 DEF TypeOK, Targets, Effective, Query, EndHostCall, Go
<1>18. ASSUME NEW t \in Threads, EndQuery(t)
       PROVE  Targets'
  BY <1>18 DEF TypeOK, Targets, Effective, EndQuery, EndHostCall, Go
<1>19. ASSUME NEW t \in Threads, NEW n \in DOMAIN HostLoras, LoadAdapter(t, n)
       PROVE  Targets'
  BY <1>19 DEF TypeOK, Targets, Effective, LoadAdapter, EndHostCall, Go
<1>20. ASSUME NEW t \in Threads, ReleaseLock(t)
       PROVE  Targets'
  BY <1>20 DEF TypeOK, Targets, Effective, ReleaseLock, Go
<1>21. ASSUME NEW t \in Threads, NEW b \in Backends, ReleaseBackend(t, b)
       PROVE  Targets'
  BY <1>21 DEF TypeOK, Targets, Effective, ReleaseBackend
<1>22. ASSUME NEW t \in Threads, EndRelease(t)
       PROVE  Targets'
  BY <1>22 DEF TypeOK, Targets, Effective, EndRelease, EndHostCall, Go
<1>23. ASSUME NEW t \in Threads, NEW n \in Adapters, NEW what \in {"unload", "swap"},
              BeginAdapter(t, n, what)
       PROVE  Targets'
  BY <1>23 DEF TypeOK, Targets, Effective, BeginAdapter, Spend, Go
<1>24. ASSUME NEW t \in Threads, ReadContext(t)
       PROVE  Targets'
  BY <1>24 DEF TypeOK, Targets, Effective, ReadContext, EndHostCall, Go
<1>25. ASSUME NEW t \in Threads, UnloadAdapter(t)
       PROVE  Targets'
  BY <1>25 DEF TypeOK, Targets, Effective, UnloadAdapter, EndHostCall, Go
<1>26. ASSUME NEW t \in Threads, SwapAdapter(t)
       PROVE  Targets'
  BY <1>26 DEF TypeOK, Targets, Effective, SwapAdapter, EndHostCall, Go
<1>27. ASSUME NEW t \in Threads, BeginForget(t)
       PROVE  Targets'
  BY <1>27 DEF TypeOK, Targets, Effective, BeginForget, Spend, Go
<1>28. ASSUME NEW t \in Threads, ForgetSessionKv(t)
       PROVE  Targets'
  BY <1>28
  DEF TypeOK, Targets, Effective, ForgetSessionKv, GenFree, EndHostCall, Go
<1>29. CASE UNCHANGED vars
  BY <1>29 DEF TypeOK, Targets, Effective
<1> QED BY <1>1, <1>2, <1>3, <1>4, <1>5, <1>6, <1>7, <1>8, <1>9,
        <1>10, <1>11, <1>12, <1>13, <1>14, <1>15, <1>16, <1>17, <1>18, <1>19,
        <1>20, <1>21, <1>22, <1>23, <1>24, <1>25, <1>26, <1>27, <1>28, <1>29
        DEF Next, Begin, Step, GetModel

\* Every action takes and gives back the mutexes its call holds.
LEMMA LocksStep ==
    ASSUME TypeOK, Locks, [Next]_vars
    PROVE  Locks'
<1>0. None \notin Threads
  BY ResidencyAssumption
<1>1. ASSUME NEW t \in Threads, NEW k \in Sessions, BeginTurn(t, k)
      PROVE  Locks'
  BY <1>1, <1>0 DEF TypeOK, Locks, BeginTurn, Spend, Claim, Go
<1>2. ASSUME NEW t \in Threads, EndTurn(t)
      PROVE  Locks'
  BY <1>2, <1>0 DEF TypeOK, Locks, EndTurn, Go
<1>3. ASSUME NEW t \in Threads, Generate(t)
      PROVE  Locks'
  BY <1>3, <1>0 DEF TypeOK, Locks, Generate, Spend, GenFree, Go
<1>4. ASSUME NEW t \in Threads, Route(t)
      PROVE  Locks'
  BY <1>4, <1>0 DEF TypeOK, Locks, Route, Go
<1>5. ASSUME NEW t \in Threads, Classify(t)
      PROVE  Locks'
  BY <1>5, <1>0 DEF TypeOK, Locks, Classify, Go
<1>6. ASSUME NEW t \in Threads, StartDecode(t)
      PROVE  Locks'
  BY <1>6, <1>0 DEF TypeOK, Locks, StartDecode, Go
<1>7. ASSUME NEW t \in Threads, EndDecode(t)
      PROVE  Locks'
  BY <1>7, <1>0 DEF TypeOK, Locks, EndDecode, Go
<1>8. ASSUME NEW t \in Threads, GetModelRefused(t)
      PROVE  Locks'
  BY <1>8, <1>0 DEF TypeOK, Locks, GetModelRefused, NoModel, SwapFree, Go
<1>9. ASSUME NEW t \in Threads, Reuse(t)
      PROVE  Locks'
  BY <1>9, <1>0 DEF TypeOK, Locks, Reuse, SwapFree, Go
<1>10. ASSUME NEW t \in Threads, Evict(t)
       PROVE  Locks'
  BY <1>10, <1>0 DEF TypeOK, Locks, Evict, SwapFree, Go
<1>11. ASSUME NEW t \in Threads, Activate(t)
       PROVE  Locks'
  BY <1>11, <1>0 DEF TypeOK, Locks, Activate, Go
<1>12. ASSUME NEW t \in Threads, ActivateFails(t)
       PROVE  Locks'
  BY <1>12, <1>0 DEF TypeOK, Locks, ActivateFails, NoModel, Go
<1>13. ASSUME NEW t \in Threads, EnsureLora(t)
       PROVE  Locks'
  BY <1>13, <1>0 DEF TypeOK, Locks, EnsureLora, Go
<1>14. ASSUME NEW t \in Threads, NEW r \in Tiers, BeginQuery(t, r)
       PROVE  Locks'
  BY <1>14, <1>0 DEF TypeOK, Locks, BeginQuery, Spend, Claim, Go
<1>15. ASSUME NEW t \in Threads, NEW r \in Tiers \cup {None},
              BeginRelease(t, r)
       PROVE  Locks'
  BY <1>15, <1>0 DEF TypeOK, Locks, BeginRelease, Spend, Claim, Go
<1>16. ASSUME NEW t \in Threads, LockApi(t)
       PROVE  Locks'
  BY <1>16, <1>0 DEF TypeOK, Locks, LockApi, Go
<1>17. ASSUME NEW t \in Threads, Query(t)
       PROVE  Locks'
  BY <1>17, <1>0 DEF TypeOK, Locks, Query, EndHostCall, Go
<1>18. ASSUME NEW t \in Threads, EndQuery(t)
       PROVE  Locks'
  BY <1>18, <1>0 DEF TypeOK, Locks, EndQuery, EndHostCall, Go
<1>19. ASSUME NEW t \in Threads, NEW n \in DOMAIN HostLoras, LoadAdapter(t, n)
       PROVE  Locks'
  BY <1>19, <1>0 DEF TypeOK, Locks, LoadAdapter, EndHostCall, Go
<1>20. ASSUME NEW t \in Threads, ReleaseLock(t)
       PROVE  Locks'
  BY <1>20, <1>0 DEF TypeOK, Locks, ReleaseLock, Go
<1>21. ASSUME NEW t \in Threads, NEW b \in Backends, ReleaseBackend(t, b)
       PROVE  Locks'
  BY <1>21, <1>0 DEF TypeOK, Locks, ReleaseBackend
<1>22. ASSUME NEW t \in Threads, EndRelease(t)
       PROVE  Locks'
  BY <1>22, <1>0 DEF TypeOK, Locks, EndRelease, EndHostCall, Go
<1>23. ASSUME NEW t \in Threads, NEW n \in Adapters, NEW what \in {"unload", "swap"},
              BeginAdapter(t, n, what)
       PROVE  Locks'
  BY <1>23, <1>0 DEF TypeOK, Locks, BeginAdapter, Spend, Go
<1>24. ASSUME NEW t \in Threads, ReadContext(t)
       PROVE  Locks'
  BY <1>24, <1>0 DEF TypeOK, Locks, ReadContext, EndHostCall, Go
<1>25. ASSUME NEW t \in Threads, UnloadAdapter(t)
       PROVE  Locks'
  BY <1>25, <1>0 DEF TypeOK, Locks, UnloadAdapter, EndHostCall, Go
<1>26. ASSUME NEW t \in Threads, SwapAdapter(t)
       PROVE  Locks'
  BY <1>26, <1>0 DEF TypeOK, Locks, SwapAdapter, EndHostCall, Go
<1>27. ASSUME NEW t \in Threads, BeginForget(t)
       PROVE  Locks'
  BY <1>27, <1>0 DEF TypeOK, Locks, BeginForget, Spend, Go
<1>28. ASSUME NEW t \in Threads, ForgetSessionKv(t)
       PROVE  Locks'
  BY <1>28, <1>0 DEF TypeOK, Locks, ForgetSessionKv, GenFree, EndHostCall, Go
<1>29. CASE UNCHANGED vars
  BY <1>29 DEF TypeOK, Locks
<1> QED BY <1>1, <1>2, <1>3, <1>4, <1>5, <1>6, <1>7, <1>8, <1>9,
        <1>10, <1>11, <1>12, <1>13, <1>14, <1>15, <1>16, <1>17, <1>18, <1>19,
        <1>20, <1>21, <1>22, <1>23, <1>24, <1>25, <1>26, <1>27, <1>28, <1>29
        DEF Next, Begin, Step, GetModel

\* A call that claims a turn is the only one with a claim, unless
\* concurrent_sessions is on.
LEMMA ClaimAlone ==
    ASSUME TypeOK, Serial, NEW t \in Threads, NEW k \in Sessions, Claim(t, k)
    PROVE  /\ key'[t] = k /\ k # None
           /\ \A u \in Threads : u # t => key'[u] = key[u]
           /\ ~concurrent => \A u \in Threads : key[u] = None
<1>1. ~concurrent => Claimed = {}
  BY DEF Claim, Blocked
<1>2. ~concurrent => \A u \in Threads : key[u] = None
  BY <1>1 DEF Claimed
<1> QED BY <1>2, ResidencyAssumption DEF TypeOK, Claim

\* Every action keeps the claims.
LEMMA SerialStep ==
    ASSUME TypeOK, Serial, [Next]_vars
    PROVE  Serial'
<1>1. ASSUME NEW t \in Threads, NEW k \in Sessions, BeginTurn(t, k)
      PROVE  Serial'
  <2>1. Claim(t, k) /\ k \in Sessions
    BY <1>1, ResidencyAssumption DEF BeginTurn
  <2>2. /\ key'[t] # None
        /\ \A u \in Threads : u # t => key'[u] = key[u]
        /\ ~concurrent => \A u \in Threads : key[u] = None
    BY <2>1, ClaimAlone
  <2> QED BY <1>1, <2>2 DEF TypeOK, Serial, Unclaimed, BeginTurn, Go
<1>2. ASSUME NEW t \in Threads, EndTurn(t)
      PROVE  Serial'
  BY <1>2 DEF TypeOK, Serial, Unclaimed, EndTurn, Go
<1>3. ASSUME NEW t \in Threads, Generate(t)
      PROVE  Serial'
  BY <1>3 DEF TypeOK, Serial, Unclaimed, Generate, Spend, GenFree, Go
<1>4. ASSUME NEW t \in Threads, Route(t)
      PROVE  Serial'
  BY <1>4 DEF TypeOK, Serial, Unclaimed, Route, Go
<1>5. ASSUME NEW t \in Threads, Classify(t)
      PROVE  Serial'
  BY <1>5 DEF TypeOK, Serial, Unclaimed, Classify, Go
<1>6. ASSUME NEW t \in Threads, StartDecode(t)
      PROVE  Serial'
  BY <1>6 DEF TypeOK, Serial, Unclaimed, StartDecode, Go
<1>7. ASSUME NEW t \in Threads, EndDecode(t)
      PROVE  Serial'
  BY <1>7 DEF TypeOK, Serial, Unclaimed, EndDecode, Go
<1>8. ASSUME NEW t \in Threads, GetModelRefused(t)
      PROVE  Serial'
  BY <1>8
  DEF TypeOK, Serial, Unclaimed, GetModelRefused, NoModel, SwapFree, Go
<1>9. ASSUME NEW t \in Threads, Reuse(t)
      PROVE  Serial'
  BY <1>9 DEF TypeOK, Serial, Unclaimed, Reuse, SwapFree, Go
<1>10. ASSUME NEW t \in Threads, Evict(t)
       PROVE  Serial'
  BY <1>10 DEF TypeOK, Serial, Unclaimed, Evict, SwapFree, Go
<1>11. ASSUME NEW t \in Threads, Activate(t)
       PROVE  Serial'
  BY <1>11 DEF TypeOK, Serial, Unclaimed, Activate, Go
<1>12. ASSUME NEW t \in Threads, ActivateFails(t)
       PROVE  Serial'
  BY <1>12 DEF TypeOK, Serial, Unclaimed, ActivateFails, NoModel, Go
<1>13. ASSUME NEW t \in Threads, EnsureLora(t)
       PROVE  Serial'
  BY <1>13 DEF TypeOK, Serial, Unclaimed, EnsureLora, Go
<1>14. ASSUME NEW t \in Threads, NEW r \in Tiers, BeginQuery(t, r)
       PROVE  Serial'
  <2>1. Claim(t, DefaultKey) /\ DefaultKey \in Sessions
    BY <1>14, ResidencyAssumption DEF BeginQuery
  <2>2. /\ key'[t] # None
        /\ \A u \in Threads : u # t => key'[u] = key[u]
        /\ ~concurrent => \A u \in Threads : key[u] = None
    BY <2>1, ClaimAlone
  <2> QED BY <1>14, <2>2 DEF TypeOK, Serial, Unclaimed, BeginQuery, Go
<1>15. ASSUME NEW t \in Threads, NEW r \in Tiers \cup {None},
              BeginRelease(t, r)
       PROVE  Serial'
  <2>1. Claim(t, DefaultKey) /\ DefaultKey \in Sessions
    BY <1>15, ResidencyAssumption DEF BeginRelease
  <2>2. /\ key'[t] # None
        /\ \A u \in Threads : u # t => key'[u] = key[u]
        /\ ~concurrent => \A u \in Threads : key[u] = None
    BY <2>1, ClaimAlone
  <2> QED BY <1>15, <2>2 DEF TypeOK, Serial, Unclaimed, BeginRelease, Go
<1>16. ASSUME NEW t \in Threads, LockApi(t)
       PROVE  Serial'
  BY <1>16 DEF TypeOK, Serial, Unclaimed, LockApi, Go
<1>17. ASSUME NEW t \in Threads, Query(t)
       PROVE  Serial'
  BY <1>17 DEF TypeOK, Serial, Unclaimed, Query, EndHostCall, Go
<1>18. ASSUME NEW t \in Threads, EndQuery(t)
       PROVE  Serial'
  BY <1>18 DEF TypeOK, Serial, Unclaimed, EndQuery, EndHostCall, Go
<1>19. ASSUME NEW t \in Threads, NEW n \in DOMAIN HostLoras, LoadAdapter(t, n)
       PROVE  Serial'
  BY <1>19 DEF TypeOK, Serial, Unclaimed, LoadAdapter, EndHostCall, Go
<1>20. ASSUME NEW t \in Threads, ReleaseLock(t)
       PROVE  Serial'
  BY <1>20 DEF TypeOK, Serial, Unclaimed, ReleaseLock, Go
<1>21. ASSUME NEW t \in Threads, NEW b \in Backends, ReleaseBackend(t, b)
       PROVE  Serial'
  BY <1>21 DEF TypeOK, Serial, Unclaimed, ReleaseBackend
<1>22. ASSUME NEW t \in Threads, EndRelease(t)
       PROVE  Serial'
  BY <1>22 DEF TypeOK, Serial, Unclaimed, EndRelease, EndHostCall, Go
<1>23. ASSUME NEW t \in Threads, NEW n \in Adapters, NEW what \in {"unload", "swap"},
              BeginAdapter(t, n, what)
       PROVE  Serial'
  BY <1>23 DEF TypeOK, Serial, Unclaimed, BeginAdapter, Spend, Go
<1>24. ASSUME NEW t \in Threads, ReadContext(t)
       PROVE  Serial'
  BY <1>24 DEF TypeOK, Serial, Unclaimed, ReadContext, EndHostCall, Go
<1>25. ASSUME NEW t \in Threads, UnloadAdapter(t)
       PROVE  Serial'
  BY <1>25 DEF TypeOK, Serial, Unclaimed, UnloadAdapter, EndHostCall, Go
<1>26. ASSUME NEW t \in Threads, SwapAdapter(t)
       PROVE  Serial'
  BY <1>26 DEF TypeOK, Serial, Unclaimed, SwapAdapter, EndHostCall, Go
<1>27. ASSUME NEW t \in Threads, BeginForget(t)
       PROVE  Serial'
  BY <1>27 DEF TypeOK, Serial, Unclaimed, BeginForget, Spend, Go
<1>28. ASSUME NEW t \in Threads, ForgetSessionKv(t)
       PROVE  Serial'
  BY <1>28
  DEF TypeOK, Serial, Unclaimed, ForgetSessionKv, GenFree, EndHostCall, Go
<1>29. CASE UNCHANGED vars
  BY <1>29 DEF TypeOK, Serial, Unclaimed
<1> QED BY <1>1, <1>2, <1>3, <1>4, <1>5, <1>6, <1>7, <1>8, <1>9,
        <1>10, <1>11, <1>12, <1>13, <1>14, <1>15, <1>16, <1>17, <1>18, <1>19,
        <1>20, <1>21, <1>22, <1>23, <1>24, <1>25, <1>26, <1>27, <1>28, <1>29
        DEF Next, Begin, Step, GetModel

(***************************************************************************)
(* The resident model.                                                     *)
(***************************************************************************)
\* Every action keeps the model in VRAM the one of loaded_main_tier_.
LEMMA ResidentStep ==
    ASSUME TypeOK, Targets, Locks, Resident, [Next]_vars
    PROVE  Resident'
<1>1. ASSUME NEW t \in Threads, NEW k \in Sessions, BeginTurn(t, k)
      PROVE  Resident'
  BY <1>1 DEF TypeOK, Resident, Wanted, Effective, BeginTurn, Spend, Claim, Go
<1>2. ASSUME NEW t \in Threads, EndTurn(t)
      PROVE  Resident'
  BY <1>2 DEF TypeOK, Resident, Wanted, Effective, EndTurn, Go
<1>3. ASSUME NEW t \in Threads, Generate(t)
      PROVE  Resident'
  BY <1>3
  DEF TypeOK, Resident, Wanted, Effective, Generate, Spend, GenFree, Go
<1>4. ASSUME NEW t \in Threads, Route(t)
      PROVE  Resident'
  BY <1>4 DEF TypeOK, Resident, Wanted, Effective, Route, Go
<1>5. ASSUME NEW t \in Threads, Classify(t)
      PROVE  Resident'
  BY <1>5 DEF TypeOK, Resident, Wanted, Effective, Classify, Go
<1>6. ASSUME NEW t \in Threads, StartDecode(t)
      PROVE  Resident'
  BY <1>6 DEF TypeOK, Resident, Wanted, Effective, StartDecode, Go
<1>7. ASSUME NEW t \in Threads, EndDecode(t)
      PROVE  Resident'
  BY <1>7 DEF TypeOK, Resident, Wanted, Effective, EndDecode, Go
<1>8. ASSUME NEW t \in Threads, GetModelRefused(t)
      PROVE  Resident'
  BY <1>8
  DEF TypeOK, Resident, Wanted, Effective, GetModelRefused, NoModel, SwapFree,
  Go
<1>9. ASSUME NEW t \in Threads, Reuse(t)
      PROVE  Resident'
  <2>1. Effective(t) \in Tiers
    BY <1>9, ResidencyAssumption DEF Reuse, Refused, Effective
  <2>2. /\ state[Wanted(t)] = "ACTIVE" /\ Wanted(t) \in Backends
        /\ main' = Effective(t) /\ main' # None /\ BackendOf[main'] = Wanted(t)
        /\ swap = None /\ swap' = t
        /\ pc' = [pc EXCEPT ![t] = "lora"] /\ UNCHANGED <<state, tier>>
    BY <1>9, <2>1, ResidencyAssumption DEF Reuse, SwapFree, Wanted, Go
  <2>3. \A b \in Backends : state[b] = "ACTIVE" => b = Wanted(t)
    BY <2>2 DEF Resident
  <2>4. \A u \in Threads : pc'[u] # "activate" /\ (pc'[u] = "lora" => u = t)
    BY <2>2, ResidencyAssumption DEF TypeOK, Locks
  <2> QED BY <2>2, <2>3, <2>4 DEF Resident, Wanted, Effective
<1>10. ASSUME NEW t \in Threads, Evict(t)
       PROVE  Resident'
  <2>1. /\ Effective(t) \in Tiers /\ Wanted(t) \in Backends
        /\ state[Wanted(t)] # "ACTIVE"
        /\ swap = None /\ swap' = t
        /\ pc' = [pc EXCEPT ![t] = "activate"] /\ UNCHANGED <<main, tier>>
    BY <1>10, ResidencyAssumption
    DEF Evict, Refused, Effective, Wanted, SwapFree, Go
  <2>2. \A b \in Backends : state'[b] # "ACTIVE"
    <3> SUFFICES ASSUME NEW b \in Backends, state[b] = "ACTIVE"
                 PROVE  b \in Incumbent(t)
      BY <1>10 DEF Evict
    <3> QED BY <2>1 DEF Resident, Incumbent
  <2>3. \A u \in Threads : pc'[u] # "lora"
    BY <2>1, ResidencyAssumption DEF TypeOK, Locks
  <2> QED BY <2>1, <2>2, <2>3 DEF Resident
<1>11. ASSUME NEW t \in Threads, Activate(t)
       PROVE  Resident'
  <2>1. /\ Effective(t) \in Tiers /\ Wanted(t) \in Backends
        /\ swap = t /\ pc[t] = "activate"
        /\ main' = Effective(t) /\ main' # None /\ BackendOf[main'] = Wanted(t)
        /\ state' = [state EXCEPT ![Wanted(t)] = "ACTIVE"]
        /\ pc' = [pc EXCEPT ![t] = "lora"] /\ UNCHANGED tier
    BY <1>11, ResidencyAssumption DEF Targets, Locks, Activate, Wanted, Go
  <2>2. \A b \in Backends : state'[b] = "ACTIVE" <=> b = Wanted(t)
    BY <2>1 DEF TypeOK, Resident
  <2>3. \A u \in Threads : pc'[u] # "activate" /\ (pc'[u] = "lora" => u = t)
    BY <2>1, ResidencyAssumption DEF TypeOK, Locks
  <2> QED BY <2>1, <2>2, <2>3 DEF Resident, Wanted, Effective
<1>12. ASSUME NEW t \in Threads, ActivateFails(t)
       PROVE  Resident'
  BY <1>12 DEF TypeOK, Resident, Wanted, Effective, ActivateFails, NoModel, Go
<1>13. ASSUME NEW t \in Threads, EnsureLora(t)
       PROVE  Resident'
  BY <1>13 DEF TypeOK, Resident, Wanted, Effective, EnsureLora, Go
<1>14. ASSUME NEW t \in Threads, NEW r \in Tiers, BeginQuery(t, r)
       PROVE  Resident'
  BY <1>14
  DEF TypeOK, Resident, Wanted, Effective, BeginQuery, Spend, Claim, Go
<1>15. ASSUME NEW t \in Threads, NEW r \in Tiers \cup {None},
              BeginRelease(t, r)
       PROVE  Resident'
  BY <1>15
  DEF TypeOK, Resident, Wanted, Effective, BeginRelease, Spend, Claim, Go
<1>16. ASSUME NEW t \in Threads, LockApi(t)
       PROVE  Resident'
  BY <1>16 DEF TypeOK, Resident, Wanted, Effective, LockApi, Go
<1>17. ASSUME NEW t \in Threads, Query(t)
       PROVE  Resident'
  BY <1>17 DEF TypeOK, Resident, Wanted, Effective, Query, EndHostCall, Go
<1>18. ASSUME NEW t \in Threads, EndQuery(t)
       PROVE  Resident'
  BY <1>18 DEF TypeOK, Resident, Wanted, Effective, EndQuery, EndHostCall, Go
<1>19. ASSUME NEW t \in Threads, NEW n \in DOMAIN HostLoras, LoadAdapter(t, n)
       PROVE  Resident'
  BY <1>19
  DEF TypeOK, Resident, Wanted, Effective, LoadAdapter, EndHostCall, Go
<1>20. ASSUME NEW t \in Threads, ReleaseLock(t)
       PROVE  Resident'
  BY <1>20 DEF TypeOK, Resident, Wanted, Effective, ReleaseLock, Go
<1>21. ASSUME NEW t \in Threads, NEW b \in Backends, ReleaseBackend(t, b)
       PROVE  Resident'
  <2>1. swap = t /\ pc[t] = "release"
    BY <1>21 DEF Locks, ReleaseBackend
  <2>2. \A u \in Threads : pc[u] # "activate" /\ pc[u] # "lora"
    BY <2>1 DEF Locks
  <2>3. /\ \A c \in Backends : state'[c] = "ACTIVE" => state[c] = "ACTIVE"
        /\ main' = main \/ (main' = None /\ BackendOf[main] = b
                            /\ state'[b] = "COLD")
        /\ UNCHANGED pc
    BY <1>21 DEF TypeOK, ReleaseBackend
  <2> QED BY <2>2, <2>3 DEF Resident
<1>22. ASSUME NEW t \in Threads, EndRelease(t)
       PROVE  Resident'
  BY <1>22
  DEF TypeOK, Resident, Wanted, Effective, EndRelease, EndHostCall, Go
<1>23. ASSUME NEW t \in Threads, NEW n \in Adapters, NEW what \in {"unload", "swap"},
              BeginAdapter(t, n, what)
       PROVE  Resident'
  BY <1>23 DEF TypeOK, Resident, Wanted, Effective, BeginAdapter, Spend, Go
<1>24. ASSUME NEW t \in Threads, ReadContext(t)
       PROVE  Resident'
  BY <1>24
  DEF TypeOK, Resident, Wanted, Effective, ReadContext, EndHostCall, Go
<1>25. ASSUME NEW t \in Threads, UnloadAdapter(t)
       PROVE  Resident'
  BY <1>25
  DEF TypeOK, Resident, Wanted, Effective, UnloadAdapter, EndHostCall, Go
<1>26. ASSUME NEW t \in Threads, SwapAdapter(t)
       PROVE  Resident'
  BY <1>26
  DEF TypeOK, Resident, Wanted, Effective, SwapAdapter, EndHostCall, Go
<1>27. ASSUME NEW t \in Threads, BeginForget(t)
       PROVE  Resident'
  BY <1>27 DEF TypeOK, Resident, Wanted, Effective, BeginForget, Spend, Go
<1>28. ASSUME NEW t \in Threads, ForgetSessionKv(t)
       PROVE  Resident'
  BY <1>28
  DEF TypeOK, Resident, Wanted, Effective, ForgetSessionKv, GenFree,
  EndHostCall, Go
<1>29. CASE UNCHANGED vars
  BY <1>29 DEF TypeOK, Resident, Wanted, Effective
<1> QED BY <1>1, <1>2, <1>3, <1>4, <1>5, <1>6, <1>7, <1>8, <1>9,
        <1>10, <1>11, <1>12, <1>13, <1>14, <1>15, <1>16, <1>17, <1>18, <1>19,
        <1>20, <1>21, <1>22, <1>23, <1>24, <1>25, <1>26, <1>27, <1>28, <1>29
        DEF Next, Begin, Step, GetModel

\* The orchestrator's concurrency setting does not change.
LEMMA ConcurrentFixed == [Next]_vars => UNCHANGED concurrent
<1>1. ASSUME NEW t \in Threads, Begin(t)
      PROVE  UNCHANGED concurrent
  BY <1>1 DEF Begin, BeginTurn, EndTurn, Generate, BeginQuery, BeginRelease,
              BeginAdapter, BeginForget
<1>2. ASSUME NEW t \in Threads, GetModel(t)
      PROVE  UNCHANGED concurrent
  BY <1>2 DEF GetModel, GetModelRefused, Reuse, Evict, Activate,
              ActivateFails, EnsureLora
<1>3. ASSUME NEW t \in Threads, Step(t)
      PROVE  UNCHANGED concurrent
  <2>1. CASE Route(t) \/ Classify(t) \/ StartDecode(t) \/ EndDecode(t)
    BY <2>1 DEF Route, Classify, StartDecode, EndDecode
  <2>2. CASE LockApi(t) \/ Query(t) \/ EndQuery(t)
             \/ \E n \in DOMAIN HostLoras : LoadAdapter(t, n)
    BY <2>2 DEF LockApi, Query, EndQuery, LoadAdapter
  <2>3. CASE ReleaseLock(t) \/ (\E b \in Backends : ReleaseBackend(t, b))
             \/ EndRelease(t)
    BY <2>3 DEF ReleaseLock, ReleaseBackend, EndRelease
  <2>4. CASE ReadContext(t) \/ UnloadAdapter(t) \/ SwapAdapter(t)
             \/ ForgetSessionKv(t)
    BY <2>4 DEF ReadContext, UnloadAdapter, SwapAdapter, ForgetSessionKv
  <2> QED BY <1>2, <1>3, <2>1, <2>2, <2>3, <2>4 DEF Step
<1>4. UNCHANGED vars => UNCHANGED concurrent
  BY DEF vars
<1> QED BY <1>1, <1>3, <1>4 DEF Next

\* With concurrent_sessions off, no other call evicts or releases a model or
\* the router while a call has it in hand.
LEMMA InHandStep ==
    ASSUME TypeOK, Targets, Locks, Serial, Resident, InHand, [Next]_vars
    PROVE  InHand'
<1> SUFFICES ASSUME ~concurrent
             PROVE  InHand'
  <2>1. concurrent' = concurrent
    BY ConcurrentFixed
  <2> QED BY <2>1 DEF InHand
<1>1. ASSUME NEW t \in Threads, NEW k \in Sessions, BeginTurn(t, k)
      PROVE  InHand'
  BY <1>1 DEF TypeOK, Targets, InHand, BeginTurn, Spend, Claim, Go
<1>2. ASSUME NEW t \in Threads, EndTurn(t)
      PROVE  InHand'
  BY <1>2 DEF TypeOK, Targets, InHand, EndTurn, Go
<1>3. ASSUME NEW t \in Threads, Generate(t)
      PROVE  InHand'
  BY <1>3 DEF TypeOK, Targets, InHand, Generate, Spend, GenFree, Go
<1>4. ASSUME NEW t \in Threads, Route(t)
      PROVE  InHand'
  <2>1. router => router'
    BY <1>4, Zenon DEF Route
  <2>2. \/ pc' = [pc EXCEPT ![t] = "classify"] /\ router'
        \/ pc' = [pc EXCEPT ![t] = "get_model"]
    BY <1>4, Zenon DEF Route, Go
  <2>3. UNCHANGED <<concurrent, using, state>>
    BY <1>4 DEF Route
  <2> QED BY <2>1, <2>2, <2>3 DEF TypeOK, InHand
<1>5. ASSUME NEW t \in Threads, Classify(t)
      PROVE  InHand'
  BY <1>5 DEF TypeOK, Targets, InHand, Classify, Go
<1>6. ASSUME NEW t \in Threads, StartDecode(t)
      PROVE  InHand'
  BY <1>6 DEF TypeOK, Targets, InHand, StartDecode, Go
<1>7. ASSUME NEW t \in Threads, EndDecode(t)
      PROVE  InHand'
  BY <1>7 DEF TypeOK, Targets, InHand, EndDecode, Go
<1>8. ASSUME NEW t \in Threads, GetModelRefused(t)
      PROVE  InHand'
  BY <1>8 DEF TypeOK, Targets, InHand, GetModelRefused, NoModel, SwapFree, Go
<1>9. ASSUME NEW t \in Threads, Reuse(t)
      PROVE  InHand'
  BY <1>9 DEF TypeOK, Targets, InHand, Reuse, SwapFree, Go
<1>10. ASSUME NEW t \in Threads, Evict(t)
       PROVE  InHand'
  <2>1. \A u \in Threads : u # t => pc[u] \in Unclaimed
    BY <1>10 DEF Serial, Unclaimed, Evict
  <2> QED BY <1>10, <2>1 DEF TypeOK, InHand, Unclaimed, Evict, Go
<1>11. ASSUME NEW t \in Threads, Activate(t)
       PROVE  InHand'
  <2>1. Wanted(t) \in Backends
    BY <1>11, ResidencyAssumption DEF Targets, Wanted, Activate
  <2>2. ASSUME NEW b \in Backends, state[b] = "ACTIVE"
        PROVE  state'[b] = "ACTIVE"
    BY <1>11, <2>1, <2>2 DEF TypeOK, Activate
  <2> QED BY <1>11, <2>2 DEF TypeOK, Targets, InHand, Activate, Go
<1>12. ASSUME NEW t \in Threads, ActivateFails(t)
       PROVE  InHand'
  BY <1>12 DEF TypeOK, Targets, InHand, ActivateFails, NoModel, Go
<1>13. ASSUME NEW t \in Threads, EnsureLora(t)
       PROVE  InHand'
  <2>1. state[Wanted(t)] = "ACTIVE"
    BY <1>13 DEF Resident, EnsureLora
  <2>2. router => router'
    BY <1>13, Zenon DEF EnsureLora
  <2>3. /\ using' = [using EXCEPT ![t] = Wanted(t)]
        /\ UNCHANGED <<concurrent, state>>
        /\ \/ pc' = [pc EXCEPT ![t] = "ready"]
           \/ pc' = [pc EXCEPT ![t] = "query"]
    BY <1>13 DEF EnsureLora, Go
  <2> QED BY <2>1, <2>2, <2>3 DEF TypeOK, InHand
<1>14. ASSUME NEW t \in Threads, NEW r \in Tiers, BeginQuery(t, r)
       PROVE  InHand'
  BY <1>14 DEF TypeOK, Targets, InHand, BeginQuery, Spend, Claim, Go
<1>15. ASSUME NEW t \in Threads, NEW r \in Tiers \cup {None},
              BeginRelease(t, r)
       PROVE  InHand'
  BY <1>15 DEF TypeOK, Targets, InHand, BeginRelease, Spend, Claim, Go
<1>16. ASSUME NEW t \in Threads, LockApi(t)
       PROVE  InHand'
  BY <1>16 DEF TypeOK, Targets, InHand, LockApi, Go
<1>17. ASSUME NEW t \in Threads, Query(t)
       PROVE  InHand'
  BY <1>17 DEF TypeOK, Targets, InHand, Query, EndHostCall, Go
<1>18. ASSUME NEW t \in Threads, EndQuery(t)
       PROVE  InHand'
  BY <1>18 DEF TypeOK, Targets, InHand, EndQuery, EndHostCall, Go
<1>19. ASSUME NEW t \in Threads, NEW n \in DOMAIN HostLoras, LoadAdapter(t, n)
       PROVE  InHand'
  BY <1>19 DEF TypeOK, Targets, InHand, LoadAdapter, EndHostCall, Go
<1>20. ASSUME NEW t \in Threads, ReleaseLock(t)
       PROVE  InHand'
  BY <1>20 DEF TypeOK, Targets, InHand, ReleaseLock, Go
<1>21. ASSUME NEW t \in Threads, NEW b \in Backends, ReleaseBackend(t, b)
       PROVE  InHand'
  <2>1. \A u \in Threads : u # t => pc[u] \in Unclaimed
    BY <1>21 DEF Serial, Unclaimed, ReleaseBackend
  <2> QED BY <1>21, <2>1 DEF TypeOK, InHand, Unclaimed, ReleaseBackend
<1>22. ASSUME NEW t \in Threads, EndRelease(t)
       PROVE  InHand'
  <2>1. \A u \in Threads : u # t => pc[u] \in Unclaimed
    BY <1>22 DEF Serial, Unclaimed, EndRelease
  <2> QED BY <1>22, <2>1
          DEF TypeOK, InHand, Unclaimed, EndRelease, EndHostCall, Go
<1>23. ASSUME NEW t \in Threads, NEW n \in Adapters, NEW what \in {"unload", "swap"},
              BeginAdapter(t, n, what)
       PROVE  InHand'
  BY <1>23 DEF TypeOK, Targets, InHand, BeginAdapter, Spend, Go
<1>24. ASSUME NEW t \in Threads, ReadContext(t)
       PROVE  InHand'
  BY <1>24 DEF TypeOK, Targets, InHand, ReadContext, EndHostCall, Go
<1>25. ASSUME NEW t \in Threads, UnloadAdapter(t)
       PROVE  InHand'
  BY <1>25 DEF TypeOK, Targets, InHand, UnloadAdapter, EndHostCall, Go
<1>26. ASSUME NEW t \in Threads, SwapAdapter(t)
       PROVE  InHand'
  BY <1>26 DEF TypeOK, Targets, InHand, SwapAdapter, EndHostCall, Go
<1>27. ASSUME NEW t \in Threads, BeginForget(t)
       PROVE  InHand'
  BY <1>27 DEF TypeOK, Targets, InHand, BeginForget, Spend, Go
<1>28. ASSUME NEW t \in Threads, ForgetSessionKv(t)
       PROVE  InHand'
  BY <1>28
  DEF TypeOK, Targets, InHand, ForgetSessionKv, GenFree, EndHostCall, Go
<1>29. CASE UNCHANGED vars
  BY <1>29 DEF TypeOK, Targets, InHand
<1> QED BY <1>1, <1>2, <1>3, <1>4, <1>5, <1>6, <1>7, <1>8, <1>9,
        <1>10, <1>11, <1>12, <1>13, <1>14, <1>15, <1>16, <1>17, <1>18, <1>19,
        <1>20, <1>21, <1>22, <1>23, <1>24, <1>25, <1>26, <1>27, <1>28, <1>29
        DEF Next, Begin, Step, GetModel

(***************************************************************************)
(* Adapters.                                                               *)
(***************************************************************************)
\* Cooling and applying adapters keeps the handles on the resident model and
\* one adapter applied.
LEMMA AppliedLoras ==
    ASSUME TypeOK, Loras, ~concurrent, UNCHANGED <<concurrent, state>>,
           \/ lora' = Cooled /\ active' = None
           \/ \E n \in Adapters : /\ Bound(n)
                                  /\ lora' = Applied(n) /\ active' = n
    PROVE  Loras'
<1>1. /\ None \notin Adapters
      /\ \A n \in Adapters :
            Cooled[n] = IF n = active /\ lora[n] # "absent" THEN "WARM"
                        ELSE lora[n]
  BY ResidencyAssumption DEF TypeOK, Adapters, Cooled
<1>2. CASE lora' = Cooled /\ active' = None
  <2>1. \A n \in Adapters : lora'[n] # "HOT"
    BY <1>1, <1>2 DEF Loras
  <2>2. \A n \in Adapters : lora'[n] # "DANGLING"
    BY <1>1, <1>2 DEF Loras
  <2>3. \A n \in Adapters :
           Bound(n)' => state'[Base(n)] = "ACTIVE"
    BY <1>1, <1>2 DEF TypeOK, LoraStates, Loras, Bound
  <2> QED BY <1>2, <2>1, <2>2, <2>3 DEF Loras
<1>3. ASSUME NEW n \in Adapters, Bound(n), lora' = Applied(n), active' = n
      PROVE  Loras'
  <2>1. \A m \in Adapters :
           lora'[m] = IF m = n THEN "HOT"
                      ELSE IF m = active /\ lora[m] # "absent" THEN "WARM"
                      ELSE lora[m]
    BY <1>1, <1>3, AppliedTypes DEF Applied
  <2>2. \A m \in Adapters : lora'[m] = "HOT" => m = n
    BY <2>1 DEF Loras
  <2>3. \A m \in Adapters : lora'[m] # "DANGLING"
    BY <2>1 DEF Loras
  <2>4. ASSUME NEW m \in Adapters, Bound(m)'
        PROVE  Bound(m)
    <3>1. m # None /\ lora[m] \in LoraStates /\ lora[m] # "DANGLING"
      BY <1>1 DEF TypeOK, Loras
    <3>2. m = active => lora[m] # "COLD"
      BY <3>1 DEF Loras
    <3> QED BY <1>3, <2>1, <2>4, <3>1, <3>2 DEF LoraStates, Bound
  <2>5. \A m \in Adapters : Bound(m)' => state'[Base(m)] = "ACTIVE"
    BY <2>4 DEF Loras
  <2> QED BY <1>3, <2>1, <2>2, <2>3, <2>5 DEF Loras
<1> QED BY <1>2, <1>3

\* Giving up a model frees the handles that live on it.
LEMMA GivenUpLoras ==
    ASSUME TypeOK, Loras, ~concurrent, UNCHANGED concurrent,
           NEW b \in Backends,
           \A c \in Backends : c # b => state'[c] = state[c],
           lora' \in {Cascade(b), HandlesReleased(b)},
           active' = ActiveWithout(b)
    PROVE  Loras'
<1>1. ASSUME NEW n \in Adapters
      PROVE  /\ Base(n) \in Backends
             /\ Base(n) = b => lora'[n] \notin {"WARM", "HOT"}
             /\ Base(n) # b => lora'[n] = lora[n]
             /\ lora'[n] # "DANGLING"
  <2>1. Base(n) \in Backends
    BY BaseType
  <2>2. \/ lora'[n] = IF Base(n) = b /\ Bound(n) THEN "absent" ELSE lora[n]
        \/ lora'[n] = IF Base(n) = b /\ Bound(n) THEN "COLD" ELSE lora[n]
    BY DEF Cascade, HandlesReleased
  <2> QED BY <2>1, <2>2 DEF Loras, Bound
<1>2. \A n \in Adapters : Bound(n)' => state'[Base(n)] = "ACTIVE"
  BY <1>1 DEF Loras, Bound
<1>3. \A n \in Adapters : lora'[n] = "HOT" => active' = n
  BY <1>1 DEF Loras, ActiveWithout
<1>4. active' # None => lora'[active'] # "COLD"
  <2> SUFFICES ASSUME active' # None
               PROVE  lora'[active'] # "COLD"
    OBVIOUS
  <2>1. active' = active /\ active \in Adapters /\ ~(Base(active) = b /\ Bound(active))
    BY DEF TypeOK, ActiveWithout
  <2>2. lora'[active] = lora[active]
    BY <2>1 DEF Cascade, HandlesReleased
  <2> QED BY <2>1, <2>2 DEF Loras
<1> QED BY <1>1, <1>2, <1>3, <1>4 DEF Loras

\* Every action keeps the adapter handles on the resident model.
LEMMA LorasStep ==
    ASSUME TypeOK, Targets, Locks, Serial, Resident, InHand, Loras, [Next]_vars
    PROVE  Loras'
<1> SUFFICES ASSUME ~concurrent
             PROVE  Loras'
  <2>1. concurrent' = concurrent
    BY ConcurrentFixed
  <2> QED BY <2>1 DEF Loras
<1>1. ASSUME NEW t \in Threads, NEW k \in Sessions, BeginTurn(t, k)
      PROVE  Loras'
  BY <1>1 DEF Loras, Bound, BeginTurn, Spend, Claim, Go
<1>2. ASSUME NEW t \in Threads, EndTurn(t)
      PROVE  Loras'
  BY <1>2 DEF Loras, Bound, EndTurn, Go
<1>3. ASSUME NEW t \in Threads, Generate(t)
      PROVE  Loras'
  BY <1>3 DEF Loras, Bound, Generate, Spend, GenFree, Go
<1>4. ASSUME NEW t \in Threads, Route(t)
      PROVE  Loras'
  BY <1>4 DEF Loras, Bound, Route, Go
<1>5. ASSUME NEW t \in Threads, Classify(t)
      PROVE  Loras'
  BY <1>5 DEF Loras, Bound, Classify, Go
<1>6. ASSUME NEW t \in Threads, StartDecode(t)
      PROVE  Loras'
  BY <1>6 DEF Loras, Bound, StartDecode, Go
<1>7. ASSUME NEW t \in Threads, EndDecode(t)
      PROVE  Loras'
  BY <1>7 DEF Loras, Bound, EndDecode, Go
<1>8. ASSUME NEW t \in Threads, GetModelRefused(t)
      PROVE  Loras'
  BY <1>8 DEF Loras, Bound, GetModelRefused, NoModel, SwapFree, Go
<1>9. ASSUME NEW t \in Threads, Reuse(t)
      PROVE  Loras'
  BY <1>9 DEF Loras, Bound, Reuse, SwapFree, Go
<1>10. ASSUME NEW t \in Threads, Evict(t)
       PROVE  Loras'
  <2>1. CASE Incumbent(t) = {} /\ UNCHANGED loraVars
    <3>1. UNCHANGED <<concurrent, state>>
      BY <1>10, <2>1 DEF TypeOK, Evict
    <3> QED BY <2>1, <3>1 DEF Loras, Bound
  <2>2. ASSUME NEW b \in Incumbent(t), lora' = Cascade(b),
               active' = ActiveWithout(b)
        PROVE  Loras'
    <3>1. b \in Backends /\ \A c \in Incumbent(t) : c = b
      BY <2>2 DEF Incumbent
    <3>2. \A c \in Backends : c # b => state'[c] = state[c]
      BY <1>10, <3>1 DEF Evict
    <3> QED BY <1>10, <2>2, <3>1, <3>2, GivenUpLoras DEF Evict
  <2> QED BY <1>10, <2>1, <2>2 DEF Evict
<1>11. ASSUME NEW t \in Threads, Activate(t)
       PROVE  Loras'
  <2>1. /\ Wanted(t) \in Backends
        /\ \A b \in Backends : state[b] # "ACTIVE"
        /\ state'[Wanted(t)] = "ACTIVE"
        /\ UNCHANGED <<concurrent, active>>
    BY <1>11, ResidencyAssumption
    DEF TypeOK, Targets, Resident, Activate, Wanted
  <2>2. \A n \in Adapters : ~Bound(n)
    BY <2>1, BaseType DEF Loras
  <2>3. PICK good \in SUBSET Preloadable(Wanted(t)) :
           lora' = [n \in Adapters |-> IF n \in good THEN "WARM"
                                       ELSE Orphaned(Wanted(t))[n]]
    BY <1>11 DEF Activate
  <2>4. \A n \in Adapters :
           lora'[n] = IF n \in good THEN "WARM" ELSE lora[n]
    BY <2>2, <2>3 DEF Orphaned
  <2>5. \A n \in Adapters : n \in good => Base(n) = Wanted(t)
    BY <2>3 DEF Preloadable
  <2>6. \A n \in Adapters : Bound(n)' => state'[Base(n)] = "ACTIVE"
    BY <2>1, <2>2, <2>4, <2>5 DEF Bound
  <2>7. active' # None => lora'[active'] # "COLD"
    BY <2>1, <2>4 DEF TypeOK, Loras
  <2> QED BY <2>1, <2>4, <2>6, <2>7 DEF Loras
<1>12. ASSUME NEW t \in Threads, ActivateFails(t)
       PROVE  Loras'
  BY <1>12 DEF Loras, Bound, ActivateFails, NoModel, Go
<1>13. ASSUME NEW t \in Threads, EnsureLora(t)
       PROVE  Loras'
  <2>1. UNCHANGED <<concurrent, state>> /\ EnsureAdapter(tier[t])
    BY <1>13 DEF EnsureLora
  <2>2. CASE UNCHANGED loraVars
    BY <2>1, <2>2 DEF Loras, Bound
  <2>3. CASE ~UNCHANGED loraVars
    BY <2>1, <2>3, AppliedLoras DEF EnsureAdapter, Adapters
  <2> QED BY <2>2, <2>3
<1>14. ASSUME NEW t \in Threads, NEW r \in Tiers, BeginQuery(t, r)
       PROVE  Loras'
  BY <1>14 DEF Loras, Bound, BeginQuery, Spend, Claim, Go
<1>15. ASSUME NEW t \in Threads, NEW r \in Tiers \cup {None},
              BeginRelease(t, r)
       PROVE  Loras'
  BY <1>15 DEF Loras, Bound, BeginRelease, Spend, Claim, Go
<1>16. ASSUME NEW t \in Threads, LockApi(t)
       PROVE  Loras'
  BY <1>16 DEF Loras, Bound, LockApi, Go
<1>17. ASSUME NEW t \in Threads, Query(t)
       PROVE  Loras'
  BY <1>17 DEF Loras, Bound, Query, EndHostCall, Go
<1>18. ASSUME NEW t \in Threads, EndQuery(t)
       PROVE  Loras'
  BY <1>18 DEF Loras, Bound, EndQuery, EndHostCall, Go
<1>19. ASSUME NEW t \in Threads, NEW n \in DOMAIN HostLoras, LoadAdapter(t, n)
       PROVE  Loras'
  <2>1. /\ n \in Adapters /\ Base(n) = using[t]
        /\ state[using[t]] = "ACTIVE"
        /\ UNCHANGED <<concurrent, state, active>>
    BY <1>19 DEF Adapters, InHand, LoadAdapter
  <2>2. \A m \in Adapters : lora'[m] = lora[m] \/ (m = n /\ lora'[m] = "WARM")
    BY <1>19 DEF TypeOK, LoadAdapter
  <2>3. \A m \in Adapters : Bound(m)' => state'[Base(m)] = "ACTIVE"
    BY <2>1, <2>2 DEF Loras, Bound
  <2>4. active' # None => lora'[active'] # "COLD"
    BY <2>1, <2>2 DEF TypeOK, Loras
  <2> QED BY <2>1, <2>2, <2>3, <2>4 DEF Loras
<1>20. ASSUME NEW t \in Threads, ReleaseLock(t)
       PROVE  Loras'
  BY <1>20 DEF Loras, Bound, ReleaseLock, Go
<1>21. ASSUME NEW t \in Threads, NEW b \in Backends, ReleaseBackend(t, b)
       PROVE  Loras'
  <2>1. CASE state[b] = "COLD"
    BY <1>21, <2>1 DEF Loras, Bound, ReleaseBackend
  <2>2. CASE state[b] # "COLD"
    <3>1. \A c \in Backends : c # b => state'[c] = state[c]
      BY <1>21, <2>2 DEF TypeOK, ReleaseBackend
    <3> QED BY <1>21, <2>2, <3>1, GivenUpLoras DEF ReleaseBackend
  <2> QED BY <2>1, <2>2
<1>22. ASSUME NEW t \in Threads, EndRelease(t)
       PROVE  Loras'
  BY <1>22 DEF Loras, Bound, EndRelease, EndHostCall, Go
<1>23. ASSUME NEW t \in Threads, NEW n \in Adapters, NEW what \in {"unload", "swap"},
              BeginAdapter(t, n, what)
       PROVE  Loras'
  BY <1>23 DEF Loras, Bound, BeginAdapter, Spend, Go
<1>24. ASSUME NEW t \in Threads, ReadContext(t)
       PROVE  Loras'
  BY <1>24 DEF Loras, Bound, ReadContext, EndHostCall, Go
<1>25. ASSUME NEW t \in Threads, UnloadAdapter(t)
       PROVE  Loras'
  <2>1. /\ tier[t] \in Adapters /\ UNCHANGED <<concurrent, state>>
        /\ lora' = [lora EXCEPT ![tier[t]] = "absent"]
        /\ active' = IF lora[tier[t]] = "HOT" /\ using[t] # None THEN None
                     ELSE active
    BY <1>25 DEF Targets, UnloadAdapter
  <2>2. \A m \in Adapters :
           lora'[m] = IF m = tier[t] THEN "absent" ELSE lora[m]
    BY <2>1 DEF TypeOK
  <2>3. \A m \in Adapters : Bound(m)' => state'[Base(m)] = "ACTIVE"
    BY <2>1, <2>2 DEF Loras, Bound
  <2>4. \A m \in Adapters : lora'[m] = "HOT" => active' = m
    BY <2>1, <2>2 DEF Loras
  <2>5. active' # None => lora'[active'] # "COLD"
    BY <2>1, <2>2 DEF TypeOK, Loras
  <2> QED BY <2>2, <2>3, <2>4, <2>5 DEF Loras
<1>26. ASSUME NEW t \in Threads, SwapAdapter(t)
       PROVE  Loras'
  <2>1. UNCHANGED <<concurrent, state>> /\ tier[t] \in Adapters
    BY <1>26 DEF Targets, SwapAdapter
  <2>2. CASE UNCHANGED loraVars
    BY <2>1, <2>2 DEF Loras, Bound
  <2>3. CASE ~UNCHANGED loraVars
    BY <1>26, <2>1, <2>3, AppliedLoras DEF SwapAdapter
  <2> QED BY <2>2, <2>3
<1>27. ASSUME NEW t \in Threads, BeginForget(t)
       PROVE  Loras'
  BY <1>27 DEF Loras, Bound, BeginForget, Spend, Go
<1>28. ASSUME NEW t \in Threads, ForgetSessionKv(t)
       PROVE  Loras'
  BY <1>28 DEF Loras, Bound, ForgetSessionKv, GenFree, EndHostCall, Go
<1>29. CASE UNCHANGED vars
  BY <1>29 DEF Loras, Bound
<1> QED BY <1>1, <1>2, <1>3, <1>4, <1>5, <1>6, <1>7, <1>8, <1>9,
        <1>10, <1>11, <1>12, <1>13, <1>14, <1>15, <1>16, <1>17, <1>18, <1>19,
        <1>20, <1>21, <1>22, <1>23, <1>24, <1>25, <1>26, <1>27, <1>28, <1>29
        DEF Next, Begin, Step, GetModel

(***************************************************************************)
(* The theorems.                                                           *)
(***************************************************************************)
\* Initially no call runs, no model is resident and no adapter is loaded.
LEMMA InvInit == Init => Inv
<1>1. Init => None \notin Threads
  BY ResidencyAssumption
<1> QED BY <1>1, ResidencyAssumption
        DEF Init, Inv, Targets, Locks, Serial, Unclaimed, Resident, InHand,
            Loras, Bound

\* The types, the locks, the claims, the residency and the adapters hold
\* together in every reachable state.
THEOREM TypeCorrect == Spec => [](TypeOK /\ Inv)
<1>1. TypeOK /\ Inv /\ [Next]_vars => (TypeOK /\ Inv)'
  BY TypeStep, TargetsStep, LocksStep, SerialStep, ResidentStep, InHandStep,
     LorasStep DEF Inv
<1> QED BY <1>1, TypeInit, InvInit, PTL DEF Spec

\* One main model is in VRAM at a time, for any tiers, models and threads,
\* with concurrent_sessions on or off.
THEOREM OneModel == Spec => []OneActive
<1>1. TypeOK /\ Inv => OneActive
  <2> SUFFICES ASSUME TypeOK, Resident
               PROVE  OneActive
    BY DEF Inv
  <2> DEFINE A == {b \in Backends : state[b] = "ACTIVE"}
  <2>1. A \subseteq {BackendOf[main]}
    BY DEF Resident
  <2>2. IsFiniteSet({BackendOf[main]}) /\ Cardinality({BackendOf[main]}) = 1
    BY FS_Singleton
  <2>3. IsFiniteSet(A) /\ Cardinality(A) <= Cardinality({BackendOf[main]})
    BY <2>1, <2>2, FS_Subset
  <2> QED BY <2>2, <2>3 DEF OneActive
<1> QED BY <1>1, TypeCorrect, PTL

\* With concurrent_sessions off, no decode, query or classification runs on a
\* model that has been unloaded.
THEOREM SerializedDecodes == Spec => []SerializedDecodeSafe
<1>1. TypeOK /\ Inv => SerializedDecodeSafe
  BY DEF Inv, InHand, SerializedDecodeSafe, DecodeSafe, InUse
<1> QED BY <1>1, TypeCorrect, PTL

\* With concurrent_sessions off, no adapter handle outlives its model and at
\* most one adapter is applied, whatever adapter calls come mid-turn.
THEOREM AdaptersLive == Spec => []AdapterLive
<1>1. TypeOK /\ Inv => AdapterLive
  BY DEF Inv, Loras, AdapterLive
<1> QED BY <1>1, TypeCorrect, PTL

\* A step that takes a model out of VRAM evicts or releases it.
LEMMA Unloading ==
    ASSUME TypeOK, Targets, [Next]_vars, NEW b \in Backends,
           state[b] = "ACTIVE", state'[b] # "ACTIVE"
    PROVE  \E u \in Threads : Evict(u) \/ ReleaseBackend(u, b)
<1>1. ASSUME NEW t \in Threads, NEW k \in Sessions, BeginTurn(t, k)
      PROVE  \E u \in Threads : Evict(u) \/ ReleaseBackend(u, b)
  BY <1>1 DEF TypeOK, BeginTurn, Spend, Claim, Go
<1>2. ASSUME NEW t \in Threads, EndTurn(t)
      PROVE  \E u \in Threads : Evict(u) \/ ReleaseBackend(u, b)
  BY <1>2 DEF TypeOK, EndTurn, Go
<1>3. ASSUME NEW t \in Threads, Generate(t)
      PROVE  \E u \in Threads : Evict(u) \/ ReleaseBackend(u, b)
  BY <1>3 DEF TypeOK, Generate, Spend, GenFree, Go
<1>4. ASSUME NEW t \in Threads, Route(t)
      PROVE  \E u \in Threads : Evict(u) \/ ReleaseBackend(u, b)
  BY <1>4 DEF TypeOK, Route, Go
<1>5. ASSUME NEW t \in Threads, Classify(t)
      PROVE  \E u \in Threads : Evict(u) \/ ReleaseBackend(u, b)
  BY <1>5 DEF TypeOK, Classify, Go
<1>6. ASSUME NEW t \in Threads, StartDecode(t)
      PROVE  \E u \in Threads : Evict(u) \/ ReleaseBackend(u, b)
  BY <1>6 DEF TypeOK, StartDecode, Go
<1>7. ASSUME NEW t \in Threads, EndDecode(t)
      PROVE  \E u \in Threads : Evict(u) \/ ReleaseBackend(u, b)
  BY <1>7 DEF TypeOK, EndDecode, Go
<1>8. ASSUME NEW t \in Threads, GetModelRefused(t)
      PROVE  \E u \in Threads : Evict(u) \/ ReleaseBackend(u, b)
  BY <1>8 DEF TypeOK, GetModelRefused, NoModel, SwapFree, Go
<1>9. ASSUME NEW t \in Threads, Reuse(t)
      PROVE  \E u \in Threads : Evict(u) \/ ReleaseBackend(u, b)
  BY <1>9 DEF TypeOK, Reuse, SwapFree, Go
<1>10. ASSUME NEW t \in Threads, Evict(t)
       PROVE  \E u \in Threads : Evict(u) \/ ReleaseBackend(u, b)
  BY <1>10
<1>11. ASSUME NEW t \in Threads, Activate(t)
       PROVE  \E u \in Threads : Evict(u) \/ ReleaseBackend(u, b)
  <2>1. Wanted(t) \in Backends
    BY <1>11, ResidencyAssumption DEF Targets, Activate, Wanted
  <2> QED BY <1>11, <2>1 DEF TypeOK, Activate
<1>12. ASSUME NEW t \in Threads, ActivateFails(t)
       PROVE  \E u \in Threads : Evict(u) \/ ReleaseBackend(u, b)
  BY <1>12 DEF TypeOK, ActivateFails, NoModel, Go
<1>13. ASSUME NEW t \in Threads, EnsureLora(t)
       PROVE  \E u \in Threads : Evict(u) \/ ReleaseBackend(u, b)
  BY <1>13 DEF TypeOK, EnsureLora, Go
<1>14. ASSUME NEW t \in Threads, NEW r \in Tiers, BeginQuery(t, r)
       PROVE  \E u \in Threads : Evict(u) \/ ReleaseBackend(u, b)
  BY <1>14 DEF TypeOK, BeginQuery, Spend, Claim, Go
<1>15. ASSUME NEW t \in Threads, NEW r \in Tiers \cup {None},
              BeginRelease(t, r)
       PROVE  \E u \in Threads : Evict(u) \/ ReleaseBackend(u, b)
  BY <1>15 DEF TypeOK, BeginRelease, Spend, Claim, Go
<1>16. ASSUME NEW t \in Threads, LockApi(t)
       PROVE  \E u \in Threads : Evict(u) \/ ReleaseBackend(u, b)
  BY <1>16 DEF TypeOK, LockApi, Go
<1>17. ASSUME NEW t \in Threads, Query(t)
       PROVE  \E u \in Threads : Evict(u) \/ ReleaseBackend(u, b)
  BY <1>17 DEF TypeOK, Query, EndHostCall, Go
<1>18. ASSUME NEW t \in Threads, EndQuery(t)
       PROVE  \E u \in Threads : Evict(u) \/ ReleaseBackend(u, b)
  BY <1>18 DEF TypeOK, EndQuery, EndHostCall, Go
<1>19. ASSUME NEW t \in Threads, NEW n \in DOMAIN HostLoras, LoadAdapter(t, n)
       PROVE  \E u \in Threads : Evict(u) \/ ReleaseBackend(u, b)
  BY <1>19 DEF TypeOK, LoadAdapter, EndHostCall, Go
<1>20. ASSUME NEW t \in Threads, ReleaseLock(t)
       PROVE  \E u \in Threads : Evict(u) \/ ReleaseBackend(u, b)
  BY <1>20 DEF TypeOK, ReleaseLock, Go
<1>21. ASSUME NEW t \in Threads, NEW c \in Backends, ReleaseBackend(t, c)
       PROVE  \E u \in Threads : Evict(u) \/ ReleaseBackend(u, b)
  BY <1>21 DEF TypeOK, ReleaseBackend
<1>22. ASSUME NEW t \in Threads, EndRelease(t)
       PROVE  \E u \in Threads : Evict(u) \/ ReleaseBackend(u, b)
  BY <1>22 DEF TypeOK, EndRelease, EndHostCall, Go
<1>23. ASSUME NEW t \in Threads, NEW n \in Adapters, NEW what \in {"unload", "swap"},
              BeginAdapter(t, n, what)
       PROVE  \E u \in Threads : Evict(u) \/ ReleaseBackend(u, b)
  BY <1>23 DEF TypeOK, BeginAdapter, Spend, Go
<1>24. ASSUME NEW t \in Threads, ReadContext(t)
       PROVE  \E u \in Threads : Evict(u) \/ ReleaseBackend(u, b)
  BY <1>24 DEF TypeOK, ReadContext, EndHostCall, Go
<1>25. ASSUME NEW t \in Threads, UnloadAdapter(t)
       PROVE  \E u \in Threads : Evict(u) \/ ReleaseBackend(u, b)
  BY <1>25 DEF TypeOK, UnloadAdapter, EndHostCall, Go
<1>26. ASSUME NEW t \in Threads, SwapAdapter(t)
       PROVE  \E u \in Threads : Evict(u) \/ ReleaseBackend(u, b)
  BY <1>26 DEF TypeOK, SwapAdapter, EndHostCall, Go
<1>27. ASSUME NEW t \in Threads, BeginForget(t)
       PROVE  \E u \in Threads : Evict(u) \/ ReleaseBackend(u, b)
  BY <1>27 DEF TypeOK, BeginForget, Spend, Go
<1>28. ASSUME NEW t \in Threads, ForgetSessionKv(t)
       PROVE  \E u \in Threads : Evict(u) \/ ReleaseBackend(u, b)
  BY <1>28 DEF TypeOK, ForgetSessionKv, GenFree, EndHostCall, Go
<1>29. CASE UNCHANGED vars
  BY <1>29 DEF TypeOK
<1> QED BY <1>1, <1>2, <1>3, <1>4, <1>5, <1>6, <1>7, <1>8, <1>9,
        <1>10, <1>11, <1>12, <1>13, <1>14, <1>15, <1>16, <1>17, <1>18, <1>19,
        <1>20, <1>21, <1>22, <1>23, <1>24, <1>25, <1>26, <1>27, <1>28, <1>29
        DEF Next, Begin, Step, GetModel

\* A turn's swap never takes the model away from a generation in flight: the
\* thread that does holds api_mutex and swap_mutex_, so it is a host call.
THEOREM SwapsSpareDecodes == Spec => SwapSparesDecode
<1> DEFINE Spared ==
      \A b \in Backends :
          (\E t \in Threads : pc[t] = "decode" /\ using[t] = b)
          /\ state[b] = "ACTIVE" /\ state'[b] # "ACTIVE"
          => api # None /\ swap' = api
<1>1. TypeOK /\ Inv /\ [Next]_vars => [Spared]_vars
  <2> SUFFICES ASSUME TypeOK, Inv, [Next]_vars, NEW b \in Backends,
                      NEW t \in Threads, pc[t] = "decode",
                      state[b] = "ACTIVE", state'[b] # "ACTIVE"
               PROVE  api # None /\ swap' = api
    OBVIOUS
  <2>1. PICK u \in Threads : Evict(u) \/ ReleaseBackend(u, b)
    BY Unloading DEF Inv
  <2>2. gen = t /\ u # None
    BY ResidencyAssumption DEF Inv, Locks
  <2>3. CASE Evict(u)
    <3>1. api = u /\ swap' = u
      BY <2>2, <2>3 DEF Inv, Locks, Evict
    <3> QED BY <2>2, <3>1
  <2>4. CASE ReleaseBackend(u, b)
    <3>1. api = u /\ swap' = u
      BY <2>4 DEF Inv, Locks, ReleaseBackend
    <3> QED BY <2>2, <3>1
  <2> QED BY <2>1, <2>3, <2>4
<1>2. [](TypeOK /\ Inv) /\ [][Next]_vars => [][Spared]_vars
  BY <1>1, PTL
<1> QED BY <1>2, TypeCorrect, PTL DEF Spec, SwapSparesDecode
==============================================================================
