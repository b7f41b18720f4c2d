------------------------------ MODULE KvSlots ------------------------------
(***************************************************************************)
(* The key/value cache of one llama.cpp context and the three pieces of    *)
(* bookkeeping that let the backend skip work: the slot a session owns     *)
(* (session_residency.h), the record of the prompt each slot holds         *)
(* (warm-keep, warm_keep_util.h) and the system-prompt cache               *)
(* (prompt_cache.cpp).  Every one of them is a claim about what the        *)
(* context really contains; the model keeps both sides.                    *)
(*                                                                         *)
(* One backend call runs at a time (the orchestrator's per-backend lock,   *)
(* see Residency), so a call is Begin, its prefill, its decode, in order.  *)
(* A token is a string; a message is its role token and one content token. *)
(***************************************************************************)
EXTENDS Integers, Sequences, SequencesExt, FiniteSets, FiniteSetsExt

CONSTANTS Sessions,      \* session keys; "" is the default conversation
          Words,         \* content tokens
          Configs,       \* tier configurations under study, see ConfigType
          ContextLength, \* tokens a prompt may have (config context_length)
          NBatch,        \* tokens decoded per llama_decode call (n_batch)
          MaxCalls       \* bound: calls made of the backend

NoSlot == -1
Systems == {"lead", "child"}
Answer == "answer"

\* The part of a tier's ModelConfig that decides who owns which sequence.
ConfigType == [maxSessions: 1..3, parallel: 1..3, warmKeep: BOOLEAN,
               cache: BOOLEAN, hybrid: BOOLEAN, vision: BOOLEAN,
               mtp: BOOLEAN, hostState: BOOLEAN, gen: 1..2,
               cacheBytes: Nat, keys: SUBSET Sessions]

ASSUME ConfigsAssumption ==
    /\ \A c \in Configs : c \in ConfigType /\ (c.maxSessions = 1 \/ c.parallel = 1)
    /\ NBatch \in Nat \ {0} /\ {ContextLength, MaxCalls} \subseteq Nat

VARIABLES cfg,       \* the configuration of this backend
          conv,      \* each session's messages, rendered
          kv,        \* what each sequence of the context really holds
          pool,      \* SessionResidency::slots_
          resident,  \* SessionResidency::resident_, the recorded prompts
          assigned,  \* SessionResidency::assigned_
          order,     \* SessionResidency::use_order_, oldest first
          active,    \* active_slot_
          cache,     \* PromptCache::entries_: system -> [data, count]
          lru,       \* PromptCache::lru_, most recent first
          saved,     \* the file entropic_state_save wrote
          job,       \* the backend call in progress
          calls      \* calls begun, bounded by MaxCalls

poolVars == <<pool, assigned, order, active>>
vars == <<cfg, conv, kv, resident, poolVars, cache, lru, saved, job, calls>>

Idle == [pc |-> "idle"]

\* derive_pool_geometry: the sequences of the context and the first one a
\* batch may use.
NSeqMax(c) == Max({c.parallel, c.maxSessions})
TempSeqBase(c) == Max({1, c.maxSessions})
Slots == 0 .. NSeqMax(cfg) - 1
Seqs == 0 .. 3

\* residency_ is made with one slot and sized by the first call that binds;
\* until then a clear is one of the whole context.
Pooled == pool > 1

---------------------------------------------------------------------------
\* Rendering.  add_generation_prompt is always set, so the assistant header
\* (and, with thinking off, its empty think block) ends every prompt, the
\* system-only one included.
GenPrompt(c) == IF c.gen = 1 THEN <<"assistant">> ELSE <<"assistant", "think">>
UserTurn(w) == <<"user", w>>
Render(c, sys, messages) == <<sys>> \o messages \o GenPrompt(c)

\* compute_prefix_token_count
PrefixTokens(sys) == Len(Render(cfg, sys, <<>>))

FirstOf(tokens, n) == SubSeq(tokens, 1, Min({n, Len(tokens)}))
From(tokens, n) == SubSeq(tokens, n + 1, Len(tokens))

CommonPrefixLen(s, t) ==
    Max({n \in 0 .. Min({Len(s), Len(t)}) : SubSeq(s, 1, n) = SubSeq(t, 1, n)})

\* The cut without the occupancy gate.
CutUnchecked(record, tokens, occupied) ==
    IF record = <<>> \/ Len(tokens) < 2
    THEN 0 ELSE Min({CommonPrefixLen(record, tokens), Len(tokens) - 1})

\* warm_keep_cut: how many resident tokens may be kept.
WarmKeepCut(record, tokens, occupied) ==
    IF \/ record = <<>> \/ Len(tokens) < 2 \/ occupied = 0
       \/ occupied < CommonPrefixLen(record, tokens)
    THEN 0 ELSE Min({CommonPrefixLen(record, tokens), Len(tokens) - 1})

Cut(tokens) ==
    IF cfg.warmKeep
    THEN WarmKeepCut(resident[active], tokens, Len(kv[active])) ELSE 0

---------------------------------------------------------------------------
NoRecords == [s \in Slots |-> <<>>]

\* llama_memory_seq_rm of one sequence, llama_memory_clear of them all.
EmptyKv == [q \in Seqs |-> <<>>]
Cleared(q) == IF Pooled THEN [kv EXCEPT ![q] = <<>>] ELSE EmptyKv

\* run_prefill: the slot's sequence holds exactly these tokens.
Prefilled(tokens) == [Cleared(active) EXCEPT ![active] = tokens]

\* A run of tokens of which only a part was decoded before llama_decode
\* failed, in chunks of n_batch.
Partial(tokens) == {SubSeq(tokens, 1, n) :
                       n \in {m \in 0 .. Len(tokens) - 1 : m % NBatch = 0}}

\* A slot whose record survives a failed prefill.
StillRecorded == resident

\* invalidate_resident_kv
Invalidated == [resident EXCEPT ![active] = <<>>]

---------------------------------------------------------------------------
\* SessionResidency::acquire
FreeSlots == Slots \ {assigned[s] : s \in Sessions}
Touch(s) == Append(RemoveFirst(order, s), s)

Init == /\ cfg \in Configs
        /\ conv = [s \in Sessions |-> <<>>]
        /\ kv = EmptyKv
        /\ pool = 1
        /\ resident = NoRecords
        /\ assigned = [s \in Sessions |-> NoSlot]
        /\ order = <<>>
        /\ active = 0
        /\ cache = <<>>
        /\ lru = <<>>
        /\ saved = <<>>
        /\ job = Idle
        /\ calls = 0

\* The backend is free for another call.
BeginCall == /\ job = Idle
             /\ calls < MaxCalls
             /\ calls' = calls + 1

\* bind_session_slot.  The first one replaces residency_ by a pool without
\* owners and records.  An eviction drops the victim's cells and record, but
\* the victim "" is indistinguishable from no victim, and keeps them.
BindSessionSlot(s) ==
    \/ /\ pool # NSeqMax(cfg)
       /\ pool' = NSeqMax(cfg)
       /\ active' = 0
       /\ assigned' = [r \in Sessions |-> IF r = s THEN 0 ELSE NoSlot]
       /\ order' = <<s>>
       /\ resident' = NoRecords
       /\ UNCHANGED kv
    \/ /\ NSeqMax(cfg) = 1
       /\ active' = 0
       /\ UNCHANGED <<pool, assigned, order, kv, resident>>
    \/ /\ Pooled /\ assigned[s] # NoSlot
       /\ active' = assigned[s]
       /\ order' = Touch(s)
       /\ UNCHANGED <<pool, assigned, kv, resident>>
    \/ /\ Pooled /\ assigned[s] = NoSlot /\ FreeSlots # {}
       /\ active' = Min(FreeSlots)
       /\ assigned' = [assigned EXCEPT ![s] = active']
       /\ order' = Touch(s)
       /\ UNCHANGED <<pool, kv, resident>>
    \/ /\ Pooled /\ assigned[s] = NoSlot /\ FreeSlots = {}
       /\ LET victim == Head(order)
              dropped == victim # ""
          IN /\ active' = assigned[victim]
             /\ assigned' = [assigned EXCEPT ![victim] = NoSlot, ![s] = active']
             /\ order' = Append(Tail(order), s)
             /\ kv' = IF dropped THEN [kv EXCEPT ![active'] = <<>>] ELSE kv
             /\ resident' = IF dropped THEN [resident EXCEPT ![active'] = <<>>]
                            ELSE resident
             /\ UNCHANGED pool

\* The messages a turn of session s with new content w is generated from: its
\* own conversation, or the fresh one of a delegated child tier.
Messages(s, sys, w) == IF sys = "lead" THEN conv[s] \o UserTurn(w) ELSE UserTurn(w)

\* A prompt over the context length is refused before the cache is touched.
Generate(s, sys, w, bound) ==
    LET tokens == Render(cfg, sys, Messages(s, sys, w))
    IN job' = IF Len(tokens) > ContextLength THEN Idle
              ELSE [pc |-> "prefill", key |-> s, sys |-> sys, word |-> w,
                    tokens |-> tokens, bound |-> bound]

\* The two-argument do_generate, or generate_mtp, up to the prefill; the slot
\* stays bound whatever comes of it.
BeginBound(s, sys, w) ==
    /\ BeginCall
    /\ BindSessionSlot(s)
    /\ Generate(s, sys, w, TRUE)
    /\ UNCHANGED <<cfg, conv, cache, lru, saved>>

\* The cancellable do_generate and do_generate_streaming, which the agent loop
\* calls, bind nothing: they run in the slot the last call left.
BeginUnbound(s, sys, w) ==
    /\ BeginCall
    /\ Generate(s, sys, w, FALSE)
    /\ UNCHANGED <<cfg, conv, kv, resident, poolVars, cache, lru, saved>>

\* The prefill is over: the reply is sampled from sequence q.
ToDecode(q) == job' = [pc |-> "decode", key |-> job.key, sys |-> job.sys,
                       word |-> job.word, tokens |-> job.tokens, seq |-> q]

\* run_prefill_cached, recurrent and hybrid models: always cold, no record.
HybridPrefill ==
    /\ job.pc = "prefill" /\ cfg.hybrid
    /\ kv' = Prefilled(job.tokens)
    /\ resident' = Invalidated
    /\ ToDecode(active)
    /\ UNCHANGED <<cfg, conv, poolVars, cache, lru, saved, calls>>

\* try_warm_reuse
WarmReuse ==
    /\ job.pc = "prefill" /\ ~cfg.hybrid /\ Cut(job.tokens) > 0
    /\ LET cut == Cut(job.tokens)
           kept == FirstOf(kv[active], cut)
       IN \/ /\ kv' = [kv EXCEPT ![active] = kept \o From(job.tokens, cut)]
             /\ resident' = [resident EXCEPT ![active] = job.tokens]
             /\ ToDecode(active)
          \/ /\ \E part \in Partial(From(job.tokens, cut)) :
                    kv' = [kv EXCEPT ![active] = kept \o part]
             /\ resident' = Invalidated
             /\ job' = [job EXCEPT !.pc = "dispatch"]
    /\ UNCHANGED <<cfg, conv, poolVars, cache, lru, saved, calls>>

\* prefill_dispatch is reached when warm reuse declined or failed.
Dispatching ==
    \/ job.pc = "dispatch"
    \/ job.pc = "prefill" /\ ~cfg.hybrid /\ Cut(job.tokens) = 0

\* prefill_dispatch with the prompt cache off.
PlainPrefill ==
    /\ Dispatching /\ ~cfg.cache
    /\ kv' = Prefilled(job.tokens)
    /\ resident' = [resident EXCEPT ![active] = job.tokens]
    /\ ToDecode(active)
    /\ UNCHANGED <<cfg, conv, poolVars, cache, lru, saved, calls>>

Hit == job.sys \in DOMAIN cache

\* restore_cached_prefix: load the blob into the active sequence, decode the
\* rest of the prompt behind it.
RestoreCachedPrefix ==
    /\ Dispatching /\ cfg.cache /\ Hit
    /\ LET entry == cache[job.sys]
       IN kv' = Prefilled(entry.data \o From(job.tokens, entry.count))
    /\ lru' = <<job.sys>> \o RemoveFirst(lru, job.sys)
    /\ resident' = [resident EXCEPT ![active] = job.tokens]
    /\ ToDecode(active)
    /\ UNCHANGED <<cfg, conv, poolVars, cache, saved, calls>>

\* PromptCache::store: replace the entry, evict the least recently used ones
\* until it fits; an entry larger than the cache is not stored.
Bytes(entries, keys) == MapThenSumSet(LAMBDA k : Len(entries[k].data), keys)

Store(key, entry) ==
    LET others == RemoveFirst(lru, key)
        fits(n) == Bytes(cache, ToSet(SubSeq(others, 1, n))) + Len(entry.data)
                       <= cfg.cacheBytes
        kept == SubSeq(others, 1, Max({0} \cup {n \in 1 .. Len(others) : fits(n)}))
    IN IF Len(entry.data) > cfg.cacheBytes
       THEN UNCHANGED <<cache, lru>>
       ELSE /\ lru' = <<key>> \o kept
            /\ cache' = [k \in {key} \cup ToSet(kept) |->
                            IF k = key THEN entry ELSE cache[k]]

\* The sequence save_prefix_to_cache serialises: always 0.
SavedSequence == 0

\* prefill_and_cache_prefix: prefill the system prefix alone, save it, decode
\* the rest.  Also the way out of a restore that llama.cpp refused or whose
\* decode failed.
PrefillAndCachePrefix ==
    /\ Dispatching /\ cfg.cache
    /\ LET count == PrefixTokens(job.sys)
           first == Prefilled(SubSeq(job.tokens, 1, count))
           data == first[SavedSequence]
           rest == From(job.tokens, count)
       IN /\ Store(job.sys, [data |-> data, count |-> count])
          /\ \/ /\ kv' = [first EXCEPT ![active] = @ \o rest]
                /\ resident' = [resident EXCEPT ![active] = job.tokens]
                /\ ToDecode(active)
             \/ /\ \E part \in Partial(rest) : kv' = [first EXCEPT ![active] = @ \o part]
                /\ resident' = Invalidated
                /\ job' = Idle
    /\ UNCHANGED <<cfg, conv, poolVars, saved, calls>>

\* run_prefill failed part way: run_prefill_cached drops the record.
PrefillFails ==
    /\ Dispatching \/ (job.pc = "prefill" /\ cfg.hybrid)
    /\ \E part \in Partial(job.tokens) : kv' = Prefilled(part)
    /\ lru' = IF cfg.cache /\ Dispatching /\ Hit
              THEN <<job.sys>> \o RemoveFirst(lru, job.sys) ELSE lru
    /\ resident' = Invalidated
    /\ job' = Idle
    /\ UNCHANGED <<cfg, conv, poolVars, cache, saved, calls>>

---------------------------------------------------------------------------
\* generate_mtp: the cut comes from the session's slot, the cells that are
\* cut and refilled are sequence 0's (SpeculativeRunState::seq_id).
GenerateMtp ==
    /\ job.pc = "prefill" /\ job.bound /\ cfg.mtp
    /\ LET cut == Cut(job.tokens)
           rest == From(job.tokens, cut)
           before == IF cut = 0 THEN EmptyKv ELSE [kv EXCEPT ![0] = FirstOf(@, cut)]
           records == IF cut = 0 THEN NoRecords ELSE resident
       IN \/ /\ kv' = [before EXCEPT ![0] = @ \o rest]
             /\ resident' = [records EXCEPT ![active] = job.tokens]
             /\ ToDecode(0)
          \/ /\ \E part \in Partial(rest) : kv' = [before EXCEPT ![0] = @ \o part]
             /\ resident' = [records EXCEPT ![active] = <<>>]
             /\ job' = Idle
    /\ UNCHANGED <<cfg, conv, poolVars, cache, lru, saved, calls>>

\* generate_multimodal: the whole context is cleared, the image prompt goes
\* into sequence 0, and step_token continues the session's slot.
GenerateMultimodal ==
    /\ job.pc = "prefill" /\ cfg.vision /\ job.sys = "child"
    /\ resident' = NoRecords
    /\ \/ /\ kv' = [EmptyKv EXCEPT ![0] = job.tokens]
          /\ ToDecode(active)
       \/ /\ \E part \in Partial(job.tokens) : kv' = [EmptyKv EXCEPT ![0] = part]
          /\ job' = Idle
    /\ UNCHANGED <<cfg, conv, poolVars, cache, lru, saved, calls>>

\* do_complete: the bound slot is whatever the last call left.
Complete(w) ==
    /\ BeginCall
    /\ resident' = NoRecords
    /\ kv' = Prefilled(<<w>>)
    /\ job' = [pc |-> "decode", key |-> "", sys |-> "child", word |-> w,
               tokens |-> <<w>>, seq |-> active]
    /\ UNCHANGED <<cfg, conv, poolVars, cache, lru, saved>>

\* step_token until the model stops, or a decode fails, or the turn is
\* cancelled; the engine keeps the reply of a turn of its own conversation.
Decode ==
    /\ job.pc = "decode"
    /\ \/ kv' = [kv EXCEPT ![job.seq] = @ \o <<Answer>>]
       \/ UNCHANGED kv
    /\ \/ /\ job.sys = "lead"
          /\ conv' = [conv EXCEPT ![job.key] =
                          @ \o UserTurn(job.word) \o <<"assistant", Answer>>]
       \/ UNCHANGED conv
    /\ job' = Idle
    /\ UNCHANGED <<cfg, resident, poolVars, cache, lru, saved, calls>>

\* run_batched_decode for two requests: the shared prefix is decoded into the
\* lead arm behind whatever it holds, copied to the other arm, and each
\* suffix follows.  The ids come from the temp pool in either order.
GenerateBatch(v, w) ==
    /\ BeginCall
    /\ cfg.parallel >= 2
    /\ \E lead \in {TempSeqBase(cfg), TempSeqBase(cfg) + 1} :
         LET other == 2 * TempSeqBase(cfg) + 1 - lead
             p == Render(cfg, "lead", UserTurn(v))
             q == Render(cfg, "lead", UserTurn(w))
             shared == CommonPrefixLen(p, q)
             base == kv[lead] \o SubSeq(p, 1, shared)
         IN /\ kv' = [kv EXCEPT
                         ![lead] = base \o From(p, shared),
                         ![other] = @ \o FirstOf(base, shared) \o From(q, shared)]
            /\ job' = [pc |-> "batch", arms |-> [a \in {lead, other} |->
                                                    IF a = lead THEN p ELSE q]]
    /\ UNCHANGED <<cfg, conv, resident, poolVars, cache, lru, saved>>

\* release_temp_seqs
EndBatch ==
    /\ job.pc = "batch"
    /\ kv' = [q \in Seqs |-> IF q \in DOMAIN job.arms THEN <<>> ELSE kv[q]]
    /\ job' = Idle
    /\ UNCHANGED <<cfg, conv, resident, poolVars, cache, lru, saved, calls>>

---------------------------------------------------------------------------
\* forget_session_kv, called when a session's conversation is replaced
\* (entropic_session_context_set).
ForgetSessionKv(s, messages) ==
    /\ BeginCall
    /\ conv' = [conv EXCEPT ![s] = messages]
    /\ IF assigned[s] = NoSlot THEN UNCHANGED <<assigned, order, kv, resident>>
       ELSE /\ assigned' = [assigned EXCEPT ![s] = NoSlot]
            /\ order' = RemoveFirst(order, s)
            /\ kv' = [kv EXCEPT ![assigned[s]] = <<>>]
            /\ resident' = [resident EXCEPT ![assigned[s]] = <<>>]
    /\ UNCHANGED <<cfg, pool, active, cache, lru, saved, job>>

\* do_evaluate_logprobs: clears the context before and after; no record is
\* dropped.
EvaluateLogprobs ==
    /\ BeginCall
    /\ kv' = EmptyKv
    /\ UNCHANGED <<cfg, conv, resident, poolVars, cache, lru, saved, job>>

\* do_save_state and do_restore_state, which the facade calls with sequence 0.
SaveState ==
    /\ BeginCall /\ cfg.hostState /\ kv[0] # <<>>
    /\ saved' = kv[0]
    /\ UNCHANGED <<cfg, conv, kv, resident, poolVars, cache, lru, job>>

RestoreState ==
    /\ BeginCall /\ cfg.hostState /\ saved # <<>>
    /\ kv' = [kv EXCEPT ![0] = saved]
    /\ UNCHANGED <<cfg, conv, resident, poolVars, cache, lru, saved, job>>

\* do_deactivate, and do_unload, which also clears the prompt cache.  The
\* next call finds a new, empty context.
DropContext ==
    /\ BeginCall
    /\ kv' = EmptyKv
    /\ resident' = NoRecords
    /\ \/ UNCHANGED <<cache, lru>>
       \/ cache' = <<>> /\ lru' = <<>>
    /\ UNCHANGED <<cfg, conv, poolVars, saved, job>>

Next ==
    \/ \E s \in cfg.keys, sys \in Systems, w \in Words :
           BeginBound(s, sys, w) \/ BeginUnbound(s, sys, w)
    \/ HybridPrefill \/ WarmReuse \/ PlainPrefill
    \/ RestoreCachedPrefix \/ PrefillAndCachePrefix \/ PrefillFails
    \/ GenerateMtp \/ GenerateMultimodal \/ Decode
    \/ \E w \in Words : Complete(w)
    \/ \E v, w \in Words : GenerateBatch(v, w)
    \/ EndBatch
    \/ \E s \in cfg.keys, m \in {<<>>} \cup {UserTurn(w) : w \in Words} :
           ForgetSessionKv(s, m)
    \/ EvaluateLogprobs \/ SaveState \/ RestoreState \/ DropContext

Spec == Init /\ [][Next]_vars

---------------------------------------------------------------------------
(* The configurations in which no path of the backend meets another one's  *)
(* sequence: whatever addresses a fixed sequence (the prompt cache and     *)
(* images sequence 0, MTP too, a batch the temp pool) has the context to   *)
(* one session, the cached prefix ends before a message's content, and     *)
(* host snapshots are not mixed with warm-keep.                            *)
OneSession(c) == NSeqMax(c) = 1 \/ \A s, t \in c.keys : s = t
Sound(c) ==
    /\ c.cache \/ c.vision \/ c.mtp \/ c.parallel > 1 => OneSession(c)
    /\ c.cache => c.gen = 1
    /\ c.hostState => ~c.warmKeep

(* Whenever a reply is sampled, the sequence it is sampled from holds      *)
(* exactly the prompt the engine rendered for that call: nothing of        *)
(* another session, an earlier prompt, a host snapshot or a batch, and     *)
(* nothing missing (warm-keep, prompt cache, session pool and batch        *)
(* fan-out are optimisations and may not change what the model reads).     *)
KvIsPrompt ==
    /\ job.pc = "decode" => kv[job.seq] = job.tokens
    /\ job.pc = "batch" => \A a \in DOMAIN job.arms : kv[a] = job.arms[a]

(* A slot's record never claims tokens that the slot holds differently:    *)
(* either the cells start with the recorded prompt or the slot is empty,   *)
(* which warm_keep_cut's occupancy gate detects.  Every path that writes   *)
(* cells out of band, fails half way or hands a slot to another session    *)
(* must leave this so (with warm_keep off nothing reads the records).      *)
RecordTrue ==
    cfg.warmKeep => \A s \in Slots : kv[s] = <<>> \/ IsPrefix(resident[s], kv[s])

(* "Every generate path goes through here, so this is the one place a      *)
(* session has to be bound to a sequence" (do_generate): a call runs in    *)
(* the slot of its own session.                                            *)
(* The code does not keep it; see the README's known disagreements.        *)
OwnSlot ==
    job.pc = "prefill" /\ NSeqMax(cfg) > 1 => active = assigned[job.key]
===========================================================================
