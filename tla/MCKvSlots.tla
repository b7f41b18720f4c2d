----------------------------- MODULE MCKvSlots -----------------------------
EXTENDS KvSlots

MCSessions == {"", "b", "c"}

Base == [maxSessions |-> 1, parallel |-> 1, warmKeep |-> TRUE, cache |-> TRUE,
         hybrid |-> FALSE, vision |-> FALSE, mtp |-> FALSE, hostState |-> FALSE,
         gen |-> 1, cacheBytes |-> 3, keys |-> {"", "b"}]

\* A session pool without the prompt cache; one sequence with every other
\* feature; a batch tier with one session; host snapshots without warm-keep;
\* a cache too small for any prefix; a recurrent model.
Safe == {[Base EXCEPT !.maxSessions = 2, !.cache = FALSE, !.keys = MCSessions],
         [Base EXCEPT !.vision = TRUE, !.mtp = TRUE],
         [Base EXCEPT !.parallel = 3, !.keys = {""}],
         [Base EXCEPT !.hostState = TRUE, !.warmKeep = FALSE, !.keys = {""}],
         [Base EXCEPT !.cacheBytes = 1, !.keys = {""}],
         [Base EXCEPT !.hybrid = TRUE, !.keys = {""}]}

ASSUME SafeIsSound == \A c \in Safe : Sound(c)

\* A session pool with the prompt cache, both at their defaults otherwise.
PooledCache == {[Base EXCEPT !.maxSessions = 2]}

\* One session, warm-keep and a host snapshot.
Snapshot == {[Base EXCEPT !.hostState = TRUE]}

\* Thinking off: the generation prompt is longer than a user header.
LongGenPrompt == {[Base EXCEPT !.gen = 2]}

\* Images, or MTP, or a batch, beside a second session's slot.
PooledVision == {[Base EXCEPT !.maxSessions = 2, !.cache = FALSE, !.vision = TRUE]}
PooledMtp == {[Base EXCEPT !.maxSessions = 2, !.cache = FALSE, !.mtp = TRUE]}
SharedBatch == {[Base EXCEPT !.parallel = 3, !.cache = FALSE]}
===========================================================================
