------------------------------ MODULE Residency ------------------------------
(***************************************************************************)
(* Which model is resident, who may unload it, and which LoRA adapter is   *)
(* applied to it: the generation entry points of the orchestrator, its     *)
(* residency-gated get_model, the host calls that load, release or query a *)
(* model, and the adapter registry, under their four locks.                *)
(*                                                                         *)
(* Source: src/inference/orchestrator.cpp, backend.cpp,                    *)
(* llama_cpp_backend.cpp, adapter_manager.cpp, secondary_model_loader.cpp, *)
(* src/facade/entropic.cpp (entropic_release_model, state, evaluation and  *)
(* adapter calls, entropic_session_context_set), src/core/engine.cpp.      *)
(*                                                                         *)
(* Several tiers may name one model file and then share one backend.  An   *)
(* adapter is named after the tier that configures it, or by the host.     *)
(***************************************************************************)
EXTENDS Naturals, FiniteSets

CONSTANTS
    Threads,     \* threads of the host
    Sessions,    \* session keys
    DefaultKey,  \* the key of calls that name no session
    Tiers,       \* configured tiers
    Backends,    \* model_pool_: one backend per model file
    BackendOf,   \* tiers_: [Tiers -> Backends]
    KeepWarm,    \* tiers with keep_warm
    Fits,        \* tiers within the VRAM budget
    Adapted,     \* tiers with an adapter_path
    HostLoras,   \* adapters the host loads: [name -> tier of its base model]
    Fallback,    \* routing.fallback_tier, or None
    MaxCalls,    \* bound: calls and generations in all
    None         \* nobody, nothing, and the tier no configuration names

ASSUME ResidencyAssumption ==
    /\ IsFiniteSet(Threads) /\ IsFiniteSet(Tiers) /\ IsFiniteSet(Backends)
    /\ DefaultKey \in Sessions
    /\ BackendOf \in [Tiers -> Backends]
    /\ KeepWarm \subseteq Tiers /\ Fits \subseteq Tiers /\ Adapted \subseteq Tiers
    /\ HostLoras \in [DOMAIN HostLoras -> Tiers]
    /\ Fallback \in Tiers \cup {None}
    /\ MaxCalls \in Nat
    /\ None \notin Threads \cup Sessions \cup Tiers \cup Backends
                  \cup DOMAIN HostLoras
    /\ Tiers \cap DOMAIN HostLoras = {}

Adapters == Adapted \cup DOMAIN HostLoras
Base(n) == BackendOf[IF n \in Tiers THEN n ELSE HostLoras[n]]

VARIABLES
    concurrent,  \* concurrent_sessions
    pc,          \* where each thread is
    key,         \* the session key a thread has claimed, or None
    tier,        \* the tier (or adapter) a thread works for
    using,       \* the raw backend pointer a thread holds, or None
    left,        \* bound: calls and generations left
    api,         \* owner of the handle's api_mutex
    gen,         \* owner of generation_mutex_
    swap,        \* owner of swap_mutex_
    pending,     \* backends a release has not come to yet
    state,       \* ModelState of each backend
    main,        \* loaded_main_tier_, or None
    lora,        \* registry entry of each adapter
    active,      \* active_name_, or None
    router       \* is the router role loaded?

threadVars == <<pc, key, tier, using, left, pending>>
lockVars == <<api, gen, swap>>
modelVars == <<state, main, router>>
loraVars == <<lora, active>>
vars == <<concurrent, threadVars, lockVars, modelVars, loraVars>>

\* DANGLING: the handle outlived the model it was initialised against.
LoraStates == {"absent", "COLD", "WARM", "HOT", "DANGLING"}
Bound(n) == lora[n] \in {"WARM", "HOT"}

\* The program after configure with models.defer_load.
Init ==
    /\ concurrent \in BOOLEAN
    /\ pc = [t \in Threads |-> "idle"]
    /\ key = [t \in Threads |-> None]
    /\ tier = [t \in Threads |-> None]
    /\ using = [t \in Threads |-> None]
    /\ left = MaxCalls
    /\ pending = [t \in Threads |-> {}]
    /\ api = None /\ gen = None /\ swap = None
    /\ state = [b \in Backends |-> "COLD"]
    /\ main = None
    /\ router = FALSE
    /\ lora = [n \in Adapters |-> "absent"]
    /\ active = None

Go(t, to) == pc' = [pc EXCEPT ![t] = to]
Spend == left > 0 /\ left' = left - 1

-----------------------------------------------------------------------------
(* Turn claims.  A call without a session key claims DefaultKey.           *)

Claimed == {key[t] : t \in Threads} \ {None}

BlockedSameKey(k) == k \in Claimed
Blocked(k) == k \in Claimed \/ (~concurrent /\ Claimed # {})

Claim(t, k) == ~Blocked(k) /\ key' = [key EXCEPT ![t] = k]

BeginTurn(t, k) ==
    /\ pc[t] = "idle" /\ Spend
    /\ Claim(t, k)
    /\ Go(t, "turn")
    /\ UNCHANGED <<concurrent, tier, using, pending, lockVars, modelVars,
                   loraVars>>

EndTurn(t) ==
    /\ pc[t] = "turn"
    /\ key' = [key EXCEPT ![t] = None]
    /\ Go(t, "idle")
    /\ UNCHANGED <<concurrent, tier, using, left, pending, lockVars,
                   modelVars, loraVars>>

-----------------------------------------------------------------------------
(* generate, generate_batch and generate_streaming: one generation under   *)
(* generation_mutex_.                                                      *)

GenNotTaken == TRUE
GenFree == gen = None

\* The caller names the tier, or leaves it to route().
Generate(t) ==
    /\ pc[t] = "turn" /\ Spend
    /\ GenFree /\ gen' = t
    /\ \/ /\ \E r \in Tiers : tier' = [tier EXCEPT ![t] = r]
          /\ Go(t, "get_model")
       \/ Go(t, "route") /\ UNCHANGED tier
    /\ UNCHANGED <<concurrent, key, using, pending, api, swap, modelVars,
                   loraVars>>

\* classify_task loads the router if need be; without one it names no tier.
Route(t) ==
    /\ pc[t] = "route"
    /\ router' \in {router, TRUE}
    /\ IF router'
       THEN Go(t, "classify") /\ UNCHANGED tier
       ELSE Go(t, "get_model") /\ tier' = [tier EXCEPT ![t] = None]
    /\ UNCHANGED <<concurrent, key, using, left, pending, lockVars, state,
                   main, loraVars>>

Classify(t) ==
    /\ pc[t] = "classify"
    /\ \E r \in Tiers : tier' = [tier EXCEPT ![t] = r]
    /\ Go(t, "get_model")
    /\ UNCHANGED <<concurrent, key, using, left, pending, lockVars,
                   modelVars, loraVars>>

\* InferenceBackend::generate refuses a backend that is not ACTIVE.
StartDecode(t) ==
    /\ pc[t] = "ready"
    /\ IF state[using[t]] = "ACTIVE"
       THEN Go(t, "decode") /\ UNCHANGED <<gen, using>>
       ELSE Go(t, "turn") /\ gen' = None /\ using' = [using EXCEPT ![t] = None]
    /\ UNCHANGED <<concurrent, key, tier, left, pending, api, swap, modelVars,
                   loraVars>>

EndDecode(t) ==
    /\ pc[t] = "decode"
    /\ gen' = None
    /\ using' = [using EXCEPT ![t] = None]
    /\ Go(t, "turn")
    /\ UNCHANGED <<concurrent, key, tier, left, pending, api, swap, modelVars,
                   loraVars>>

-----------------------------------------------------------------------------
(* get_model, for a generation or for a host call, under swap_mutex_.      *)

SwapFreeUnderApi(t) == swap = None /\ api \in {None, t}
SwapFree(t) == swap = None

Effective(t) == IF tier[t] \in Tiers THEN tier[t] ELSE Fallback
Wanted(t) == BackendOf[Effective(t)]

\* The adapters of a model that is freed while they are registered.
Orphaned(b) == [n \in Adapters |->
    IF Base(n) = b /\ Bound(n) THEN "DANGLING" ELSE lora[n]]

\* unload_all_for_model: erases every adapter initialised against the model.
CascadeTiersOnly(b) == [n \in Adapters |->
    IF Base(n) = b /\ n \in Tiers THEN "absent" ELSE Orphaned(b)[n]]
Cascade(b) == [n \in Adapters |->
    IF Base(n) = b /\ Bound(n) THEN "absent" ELSE lora[n]]

\* active_name_ goes with the entry it names; it stays if that has no handle.
ActiveWithout(b) ==
    IF active # None /\ Base(active) = b /\ Bound(active) THEN None ELSE active

\* A call that gets no backend: the generation or the host call fails.
NoModel(t) ==
    /\ swap' = None
    /\ using' = [using EXCEPT ![t] = None]
    /\ IF gen = t
       THEN Go(t, "turn") /\ gen' = None /\ UNCHANGED <<api, key>>
       ELSE /\ Go(t, "idle") /\ api' = None /\ UNCHANGED gen
            /\ key' = [key EXCEPT ![t] = None]

Refused(t) == Effective(t) = None \/ (state[Wanted(t)] # "ACTIVE"
                                      /\ Effective(t) \notin Fits)

GetModelRefused(t) ==
    /\ pc[t] = "get_model" /\ SwapFree(t)
    /\ Refused(t)
    /\ NoModel(t)
    /\ UNCHANGED <<concurrent, tier, left, pending, modelVars, loraVars>>

\* An ACTIVE backend is reused, whichever of its tiers made it resident.
Reuse(t) ==
    /\ pc[t] = "get_model" /\ SwapFree(t)
    /\ ~Refused(t) /\ state[Wanted(t)] = "ACTIVE"
    /\ swap' = t
    /\ main' = Effective(t)
    /\ Go(t, "lora")
    /\ UNCHANGED <<concurrent, key, tier, using, left, pending, api, gen,
                   state, router, loraVars>>

\* deactivate_current_if_needed: the incumbent that has to go, if any.
NoIncumbent(t) == {}
Incumbent(t) == {b \in Backends : /\ main # None /\ BackendOf[main] = b
                                  /\ b # Wanted(t) /\ state[b] # "COLD"}

Evict(t) ==
    /\ pc[t] = "get_model" /\ SwapFree(t)
    /\ ~Refused(t) /\ state[Wanted(t)] # "ACTIVE"
    /\ swap' = t
    /\ state' = [b \in Backends |->
                   IF b \notin Incumbent(t) THEN state[b]
                   ELSE IF main \in KeepWarm THEN "WARM" ELSE "COLD"]
    /\ \/ Incumbent(t) = {} /\ UNCHANGED loraVars
       \/ \E b \in Incumbent(t) : /\ lora' = Cascade(b)
                                  /\ active' = ActiveWithout(b)
    /\ Go(t, "activate")
    /\ UNCHANGED <<concurrent, key, tier, using, left, pending, api, gen,
                   main, router>>

\* preload_adapters_for_model; llama_adapter_lora_init may refuse a file.
Preloadable(b) == {n \in Adapted : Base(n) = b /\ lora[n] \in {"absent", "COLD"}}

Activate(t) ==
    /\ pc[t] = "activate"
    /\ LET b == Wanted(t)
       IN  /\ state' = [state EXCEPT ![b] = "ACTIVE"]
           /\ \E good \in SUBSET Preloadable(b) :
                 lora' = [n \in Adapters |-> IF n \in good THEN "WARM"
                                             ELSE Orphaned(b)[n]]
    /\ main' = Effective(t)
    /\ Go(t, "lora")
    /\ UNCHANGED <<concurrent, key, tier, using, left, pending, lockVars,
                   router, active>>

\* The load hook cancels, or the load fails: the state stays what it was.
ActivateFails(t) ==
    /\ pc[t] = "activate"
    /\ NoModel(t)
    /\ UNCHANGED <<concurrent, tier, left, pending, modelVars, loraVars>>

\* Deactivating an adapter, and applying one in the place of another.
Cooled == IF active \in Adapters /\ lora[active] # "absent"
          THEN [lora EXCEPT ![active] = "WARM"] ELSE lora
Applied(n) == [Cooled EXCEPT ![n] = "HOT"]

\* ensure_adapter_for_tier looks up the tier the call named.
EnsureAdapter(r) ==
    \/ r \notin Tiers /\ UNCHANGED loraVars
    \/ r \in Tiers \ Adapted /\ lora' = Cooled /\ active' = None
    \/ r \in Adapted /\ active = r /\ UNCHANGED loraVars
    \/ r \in Adapted /\ active # r /\ UNCHANGED loraVars
    \/ /\ r \in Adapted /\ active # r /\ Bound(r)
       /\ lora' = Applied(r) /\ active' = r

\* The tail of get_model, with ensure_secondary_roles.
EnsureLora(t) ==
    /\ pc[t] = "lora"
    /\ EnsureAdapter(tier[t])
    /\ router' \in {router, TRUE}
    /\ using' = [using EXCEPT ![t] = Wanted(t)]
    /\ swap' = None
    /\ Go(t, IF gen = t THEN "ready" ELSE "query")
    /\ UNCHANGED <<concurrent, key, tier, left, pending, api, gen, state,
                   main>>

-----------------------------------------------------------------------------
(* Host calls that claim the default key, then take api_mutex.             *)

\* What the call is for: a tier to query, or a host adapter to load.
BeginQuery(t, r) ==
    /\ pc[t] = "idle" /\ Spend
    /\ Claim(t, DefaultKey)
    /\ tier' = [tier EXCEPT ![t] = r]
    /\ Go(t, "query_api")
    /\ UNCHANGED <<concurrent, using, pending, lockVars, modelVars, loraVars>>

\* A release names a tier, or None for every resident model.
BeginRelease(t, r) ==
    /\ pc[t] = "idle" /\ Spend
    /\ Claim(t, DefaultKey)
    /\ tier' = [tier EXCEPT ![t] = r]
    /\ pending' = [pending EXCEPT ![t] = IF r = None THEN Backends
                                         ELSE {BackendOf[r]}]
    /\ Go(t, "release_api")
    /\ UNCHANGED <<concurrent, using, lockVars, modelVars, loraVars>>

LockApi(t) ==
    /\ pc[t] \in {"query_api", "release_api"} /\ api = None
    /\ api' = t
    /\ Go(t, IF pc[t] = "query_api" THEN "get_model" ELSE "release_swap")
    /\ UNCHANGED <<concurrent, key, tier, using, left, pending, gen, swap,
                   modelVars, loraVars>>

EndHostCall(t) ==
    /\ api' = None
    /\ key' = [key EXCEPT ![t] = None]
    /\ using' = [using EXCEPT ![t] = None]
    /\ Go(t, "idle")

\* save_state, restore_state, evaluate_logprobs, compute_perplexity.
Query(t) ==
    /\ pc[t] = "query"
    /\ IF state[using[t]] = "ACTIVE"
       THEN Go(t, "use") /\ UNCHANGED <<api, key, using>>
       ELSE EndHostCall(t)
    /\ UNCHANGED <<concurrent, tier, left, pending, gen, swap, modelVars,
                   loraVars>>

EndQuery(t) ==
    /\ pc[t] = "use"
    /\ EndHostCall(t)
    /\ UNCHANGED <<concurrent, tier, left, pending, gen, swap, modelVars,
                   loraVars>>

\* entropic_adapter_load, on the base model the call made resident.
LoadAdapter(t, n) ==
    /\ pc[t] = "query" /\ Base(n) = using[t] /\ state[using[t]] # "COLD"
    /\ \/ lora[n] \in {"absent", "COLD"} /\ lora' = [lora EXCEPT ![n] = "WARM"]
       \/ UNCHANGED lora
    /\ EndHostCall(t)
    /\ UNCHANGED <<concurrent, tier, left, pending, gen, swap, modelVars,
                   active>>

ReleaseLock(t) ==
    /\ pc[t] = "release_swap" /\ swap = None
    /\ swap' = t
    /\ Go(t, "release")
    /\ UNCHANGED <<concurrent, key, tier, using, left, pending, api, gen,
                   modelVars, loraVars>>

\* release_handles_for_model: frees the handles, keeps the registrations.
HandlesReleased(b) == [n \in Adapters |->
    IF Base(n) = b /\ Bound(n) THEN "COLD" ELSE lora[n]]

ReleaseBackend(t, b) ==
    /\ pc[t] = "release" /\ b \in pending[t]
    /\ pending' = [pending EXCEPT ![t] = @ \ {b}]
    /\ IF state[b] = "COLD" THEN UNCHANGED <<state, main, loraVars>>
       ELSE /\ lora' = HandlesReleased(b)
            /\ active' = ActiveWithout(b)
            /\ state' = [state EXCEPT ![b] = "COLD"]
            /\ main' = IF main # None /\ BackendOf[main] = b THEN None
                       ELSE main
    /\ UNCHANGED <<concurrent, pc, key, tier, using, left, lockVars, router>>

\* A release of everything ends with SecondaryModelLoader::shutdown.
EndRelease(t) ==
    /\ pc[t] = "release" /\ pending[t] = {}
    /\ router' = (router /\ tier[t] # None)
    /\ swap' = None
    /\ EndHostCall(t)
    /\ UNCHANGED <<concurrent, tier, left, pending, gen, state, main,
                   loraVars>>

-----------------------------------------------------------------------------
(* Host calls that claim no turn.                                          *)

\* entropic_adapter_unload and entropic_adapter_swap: api_mutex only.
BeginAdapter(t, n, what) ==
    /\ pc[t] = "idle" /\ Spend /\ api = None
    /\ tier' = [tier EXCEPT ![t] = n]
    /\ IF what = "swap" \/ Bound(n) THEN api' = t /\ Go(t, what)
       ELSE UNCHANGED <<api, pc>>
    /\ UNCHANGED <<concurrent, key, using, pending, gen, swap, modelVars,
                   loraVars>>

\* The context of the tier used last, read without swap_mutex_.
ReadContext(t) ==
    LET b == IF main = None THEN None ELSE BackendOf[main]
        ctx == IF b # None /\ state[b] = "ACTIVE" THEN b ELSE None
    IN  /\ pc[t] \in {"unload", "swap"}
        /\ IF pc[t] = "swap" /\ ctx = None THEN EndHostCall(t)
           ELSE /\ using' = [using EXCEPT ![t] = ctx]
                /\ Go(t, IF pc[t] = "unload" THEN "unload_ctx" ELSE "swap_ctx")
                /\ UNCHANGED <<api, key>>
        /\ UNCHANGED <<concurrent, tier, left, pending, gen, swap, modelVars,
                       loraVars>>

\* AdapterManager::unload clears active_name_ only with a context.
UnloadAdapter(t) ==
    LET n == tier[t]
    IN  /\ pc[t] = "unload_ctx"
        /\ lora' = [lora EXCEPT ![n] = "absent"]
        /\ active' = IF lora[n] = "HOT" /\ using[t] # None THEN None ELSE active
        /\ EndHostCall(t)
        /\ UNCHANGED <<concurrent, tier, left, pending, gen, swap, modelVars>>

\* AdapterManager::swap; the hook may cancel it.
SwapAdapter(t) ==
    LET n == tier[t]
    IN  /\ pc[t] = "swap_ctx"
        /\ \/ UNCHANGED loraVars
           \/ /\ Bound(n) /\ active # n
              /\ lora' = Applied(n) /\ active' = n
        /\ EndHostCall(t)
        /\ UNCHANGED <<concurrent, tier, left, pending, gen, swap, modelVars>>

\* entropic_session_context_set: forget_session_kv under generation_mutex_.
BeginForget(t) ==
    /\ pc[t] = "idle" /\ Spend /\ api = None
    /\ api' = t
    /\ Go(t, "forget")
    /\ UNCHANGED <<concurrent, key, tier, using, pending, gen, swap,
                   modelVars, loraVars>>

ForgetSessionKv(t) ==
    /\ pc[t] = "forget" /\ GenFree
    /\ EndHostCall(t)
    /\ UNCHANGED <<concurrent, tier, left, pending, gen, swap, modelVars,
                   loraVars>>

-----------------------------------------------------------------------------
GetModel(t) == \/ GetModelRefused(t) \/ Reuse(t) \/ Evict(t)
               \/ Activate(t) \/ ActivateFails(t) \/ EnsureLora(t)

\* What a thread does once it is inside a call.
Step(t) ==
    \/ Route(t) \/ Classify(t) \/ StartDecode(t) \/ EndDecode(t)
    \/ GetModel(t)
    \/ LockApi(t) \/ Query(t) \/ EndQuery(t)
    \/ \E n \in DOMAIN HostLoras : LoadAdapter(t, n)
    \/ ReleaseLock(t) \/ (\E b \in Backends : ReleaseBackend(t, b))
    \/ EndRelease(t)
    \/ ReadContext(t) \/ UnloadAdapter(t) \/ SwapAdapter(t)
    \/ ForgetSessionKv(t)

Begin(t) ==
    \/ \E k \in Sessions : BeginTurn(t, k)
    \/ Generate(t) \/ EndTurn(t)
    \/ \E r \in Tiers : BeginQuery(t, r)
    \/ \E r \in Tiers \cup {None} : BeginRelease(t, r)
    \/ \E n \in Adapters, what \in {"unload", "swap"} : BeginAdapter(t, n, what)
    \/ BeginForget(t)

Next == \E t \in Threads : Begin(t) \/ Step(t)

\* A call runs on: loads, decodes and queries end, and a free mutex is taken.
Fairness == \A t \in Threads : WF_vars(Step(t)) /\ WF_vars(EndTurn(t))

Spec == Init /\ [][Next]_vars /\ Fairness

-----------------------------------------------------------------------------
(* Properties.                                                             *)

\* A thread inside the model: a decode, a query, or the router's verdict.
InUse(b) == \E t \in Threads : pc[t] \in {"decode", "use"} /\ using[t] = b

\* No decode, query or classification runs on a model that has been unloaded
\* (entropic_release_model: unloading frees the context a decode runs on).
DecodeSafe ==
    /\ \A b \in Backends : InUse(b) => state[b] = "ACTIVE"
    /\ \A t \in Threads : pc[t] = "classify" => router

\* With concurrent_sessions off the turn claim alone keeps a model under the
\* call that uses it, against releases, queries and swaps of other threads.
SerializedDecodeSafe == ~concurrent => DecodeSafe

\* Whatever the sessions do, a turn's swap never takes the model away from a
\* generation in flight: only a host call that unloads can.
SwapSparesDecode ==
    [][\A b \in Backends :
          (\E t \in Threads : pc[t] = "decode" /\ using[t] = b)
          /\ state[b] = "ACTIVE" /\ state'[b] # "ACTIVE"
          => api # None /\ swap' = api]_vars

\* One main model in VRAM at a time, whatever loads fail, are kept warm, are
\* shared by tiers or are released between two activations.
OneActive == Cardinality({b \in Backends : state[b] = "ACTIVE"}) <= 1

\* With concurrent_sessions off, an adapter handle exists only on the resident
\* model it was initialised against, and at most one adapter is applied: no
\* swap, release or reload leaves a handle behind (the order release_backend
\* and unload_all_for_model insist on), whatever adapter calls come mid-turn.
AdapterLive ==
    ~concurrent =>
        /\ \A n \in Adapters : lora[n] # "DANGLING"
        /\ \A n \in Adapters : Bound(n) => state[Base(n)] = "ACTIVE"
        /\ \A m, n \in Adapters : lora[m] = "HOT" /\ lora[n] = "HOT" => m = n

\* The lock order api_mutex, generation_mutex_, swap_mutex_ closes no cycle:
\* every call that has begun returns, and every turn ends.
CallsReturn == \A t \in Threads : pc[t] # "idle" ~> pc[t] = "idle"
=============================================================================
