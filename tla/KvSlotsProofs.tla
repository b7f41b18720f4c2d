--------------------------- MODULE KvSlotsProofs ---------------------------
(***************************************************************************)
(* Proofs about KvSlots, for any sessions, words, batch size and context   *)
(* length, and any set of sound configurations: what is sampled from holds *)
(* exactly the prompt, because every record and every cached prefix is     *)
(* true of the cells it speaks of.                                         *)
(***************************************************************************)
EXTENDS KvSlots, SequenceTheorems, WellFoundedInduction, TLAPS

(***************************************************************************)
(* Least and greatest numbers.                                             *)
(***************************************************************************)
\* A set of naturals that has an element has a least one.
LEMMA LeastNatural ==
    ASSUME NEW T \in SUBSET Nat, T # {}
    PROVE  \E x \in T : \A y \in T : x <= y
<1>1. IsWellFoundedOn(OpToRel(<, Nat), Nat)
  BY NatLessThanWellFounded
<1>2. \E x \in T : \A y \in T : ~(<<y, x>> \in OpToRel(<, Nat))
  BY <1>1, WFMin
<1>3. \A x, y \in Nat : ~(<<y, x>> \in OpToRel(<, Nat)) => x <= y
  BY DEF OpToRel
<1> QED BY <1>2, <1>3

\* Min of a set of naturals that has an element is its least one.
LEMMA MinFacts ==
    ASSUME NEW T \in SUBSET Nat, T # {}
    PROVE  Min(T) \in T /\ \A y \in T : Min(T) <= y
BY LeastNatural DEF Min

\* Max of a bounded set of naturals that has an element is its greatest one.
LEMMA MaxFacts ==
    ASSUME NEW n \in Nat, NEW T \in SUBSET (0 .. n), T # {}
    PROVE  Max(T) \in T /\ \A y \in T : y <= Max(T)
<1> DEFINE B == {b \in Nat : \A y \in T : y <= b}
<1>1. B # {} /\ B \in SUBSET Nat /\ T \in SUBSET Nat
  BY n \in B
<1>2. PICK b \in B : \A c \in B : b <= c
  <2> HIDE DEF B
  <2> QED BY <1>1, LeastNatural
<1>3. b \in T
  <2> SUFFICES ASSUME b \notin T PROVE FALSE
    OBVIOUS
  <2>1. \A y \in T : y <= b - 1 /\ y \in Nat
    BY <1>1, <1>2
  <2>2. b - 1 \in Nat
    <3>1. PICK y \in T : TRUE
      OBVIOUS
    <3> QED BY <1>2, <2>1, <3>1
  <2>3. b - 1 \in B
    BY <2>1, <2>2
  <2> QED BY <1>2, <2>2, <2>3
<1>4. \E x \in T : \A y \in T : x >= y
  BY <1>1, <1>2, <1>3
<1>5. Max(T) \in T /\ \A y \in T : Max(T) >= y
  BY <1>4 DEF Max
<1> QED BY <1>1, <1>5

\* The smaller of two numbers.
LEMMA MinOfTwo ==
    ASSUME NEW a \in Nat, NEW b \in Nat
    PROVE  Min({a, b}) = IF a <= b THEN a ELSE b
<1>1. Min({a, b}) \in {a, b} /\ \A y \in {a, b} : Min({a, b}) <= y
  BY MinFacts
<1> QED BY <1>1

\* The greater of two numbers.
LEMMA MaxOfTwo ==
    ASSUME NEW a \in Nat, NEW b \in Nat
    PROVE  Max({a, b}) = IF a <= b THEN b ELSE a
<1> DEFINE n == a + b
<1>1. {a, b} \in SUBSET (0 .. n) /\ n \in Nat
  OBVIOUS
<1> HIDE DEF n
<1>2. Max({a, b}) \in {a, b} /\ \A y \in {a, b} : y <= Max({a, b})
  BY <1>1, MaxFacts
<1> QED BY <1>2

(***************************************************************************)
(* Prefixes.                                                               *)
(***************************************************************************)
\* The first n tokens and the rest make up the whole.
LEMMA SplitFacts ==
    ASSUME NEW S, NEW s \in Seq(S), NEW n \in 0 .. Len(s)
    PROVE  /\ SubSeq(s, 1, n) \in Seq(S) /\ Len(SubSeq(s, 1, n)) = n
           /\ \A i \in 1 .. n : SubSeq(s, 1, n)[i] = s[i]
           /\ From(s, n) \in Seq(S)
           /\ SubSeq(s, 1, n) \o From(s, n) = s
<1>1. Len(s) \in Nat /\ n \in Nat /\ n <= Len(s)
  BY LenProperties
<1>2. \A i \in 1 .. Len(s) : s[i] \in S
  BY ElementOfSeq
<1>3. /\ SubSeq(s, 1, n) \in Seq(S) /\ Len(SubSeq(s, 1, n)) = n
      /\ \A i \in 1 .. n : SubSeq(s, 1, n)[i] = s[i]
  BY <1>1, <1>2, SubSeqProperties
<1>4. From(s, n) \in Seq(S)
  BY <1>1, <1>2, SubSeqProperties DEF From
<1>5. SubSeq(s, 1, n) \o From(s, n) = SubSeq(s, 1, Len(s))
  <2>1. /\ 1 \in 1 .. Len(s) + 1 /\ n \in 1 - 1 .. Len(s)
        /\ Len(s) \in n .. Len(s)
    BY <1>1
  <2> QED BY <2>1, ConcatAdjacentSubSeq DEF From
<1> QED BY <1>3, <1>4, <1>5, SubSeqFull

\* Two sequences that agree on m elements agree on fewer.
LEMMA ShorterPrefix ==
    ASSUME NEW S, NEW s \in Seq(S), NEW t \in Seq(S),
           NEW m \in Nat, m <= Len(s), m <= Len(t),
           SubSeq(s, 1, m) = SubSeq(t, 1, m), NEW n \in 0 .. m
    PROVE  SubSeq(s, 1, n) = SubSeq(t, 1, n)
<1>0. m \in 0 .. Len(s) /\ m \in 0 .. Len(t) /\ n \in 0 .. Len(s) /\ n \in 0 .. Len(t)
  BY LenProperties
<1>1. \A i \in 1 .. n : s[i] = t[i]
  <2>1. \A i \in 1 .. m : SubSeq(s, 1, m)[i] = s[i] /\ SubSeq(t, 1, m)[i] = t[i]
    BY <1>0, SplitFacts
  <2> QED BY <2>1
<1>2. /\ SubSeq(s, 1, n) \in Seq(S) /\ Len(SubSeq(s, 1, n)) = n
      /\ \A i \in 1 .. n : SubSeq(s, 1, n)[i] = s[i]
      /\ SubSeq(t, 1, n) \in Seq(S) /\ Len(SubSeq(t, 1, n)) = n
      /\ \A i \in 1 .. n : SubSeq(t, 1, n)[i] = t[i]
  BY <1>0, SplitFacts
<1> QED BY <1>1, <1>2, SeqEqual

\* A sequence stays a prefix when tokens are appended; it is one of itself,
\* and the empty one is a prefix of all.
LEMMA PrefixFacts ==
    ASSUME NEW S, NEW s \in Seq(S)
    PROVE  /\ IsPrefix(<<>>, s) /\ IsPrefix(s, s)
           /\ \A r, t \in Seq(S) : IsPrefix(r, s) => IsPrefix(r, s \o t)
<1>1. IsPrefix(<<>>, s)
  <2>1. Len(<<>>) = 0 /\ Len(s) \in Nat
    BY LenProperties
  <2>2. SubSeq(<<>>, 1, 0) = <<>> /\ SubSeq(s, 1, 0) = <<>>
    BY SubSeqEmpty
  <2> QED BY <2>1, <2>2 DEF IsPrefix
<1>2. IsPrefix(s, s)
  BY LenProperties DEF IsPrefix
<1>3. ASSUME NEW r \in Seq(S), NEW t \in Seq(S), IsPrefix(r, s)
      PROVE  IsPrefix(r, s \o t)
  <2>1. Len(r) \in Nat /\ Len(s) \in Nat /\ Len(t) \in Nat
    BY LenProperties
  <2>2. /\ s \o t \in Seq(S) /\ Len(s \o t) = Len(s) + Len(t)
        /\ \A i \in 1 .. Len(s) + Len(t) :
              (s \o t)[i] = IF i <= Len(s) THEN s[i] ELSE t[i - Len(s)]
    BY ConcatProperties
  <2>3. Len(r) <= Len(s) /\ SubSeq(r, 1, Len(r)) = SubSeq(s, 1, Len(r))
    BY <1>3 DEF IsPrefix
  <2>4. SubSeq(s \o t, 1, Len(s)) = SubSeq(s, 1, Len(s))
    <3>1. CASE Len(s) = 0
      BY <3>1, SubSeqEmpty
    <3>2. CASE Len(s) # 0
      BY <2>1, <3>2, SubSeqOfConcat1
    <3> QED BY <3>1, <3>2
  <2>5. SubSeq(s \o t, 1, Len(r)) = SubSeq(s, 1, Len(r))
    <3>1. Len(r) \in 0 .. Len(s) /\ Len(s) <= Len(s \o t)
      BY <2>1, <2>2, <2>3
    <3> QED BY <2>1, <2>2, <2>4, <3>1, ShorterPrefix
  <2> QED BY <2>1, <2>2, <2>3, <2>5 DEF IsPrefix
<1> QED BY <1>1, <1>2, <1>3

\* CommonPrefixLen is the length of a common prefix.
LEMMA CommonPrefixFacts ==
    ASSUME NEW S, NEW s \in Seq(S), NEW t \in Seq(S)
    PROVE  LET n == CommonPrefixLen(s, t) IN
              /\ n \in 0 .. Len(s) /\ n \in 0 .. Len(t)
              /\ SubSeq(s, 1, n) = SubSeq(t, 1, n)
<1> DEFINE m == Min({Len(s), Len(t)})
           T == {n \in 0 .. m : SubSeq(s, 1, n) = SubSeq(t, 1, n)}
<1>1. Len(s) \in Nat /\ Len(t) \in Nat
  BY LenProperties
<1>2. m \in Nat /\ m <= Len(s) /\ m <= Len(t)
  BY <1>1, MinOfTwo
<1>3. CommonPrefixLen(s, t) = Max(T)
  BY DEF CommonPrefixLen
<1> HIDE DEF m
<1>4. T \in SUBSET (0 .. m) /\ 0 \in T
  BY <1>2, SubSeqEmpty
<1>5. Max(T) \in T
  <2> HIDE DEF T
  <2> QED BY <1>2, <1>4, MaxFacts
<1>6. \A n \in T : /\ n \in 0 .. Len(s) /\ n \in 0 .. Len(t)
                   /\ SubSeq(s, 1, n) = SubSeq(t, 1, n)
  BY <1>1, <1>2
<1> HIDE DEF T
<1> QED BY <1>3, <1>5, <1>6

\* Nothing is in q twice; u is in q.
Distinct(q) == \A i, j \in 1 .. Len(q) : q[i] = q[j] => i = j
Has(q, u) == \E i \in 1 .. Len(q) : q[i] = u

\* Removing an element from a sequence that has none twice leaves the others.
LEMMA RemoveFacts ==
    ASSUME NEW S, NEW q \in Seq(S), NEW e
    PROVE  /\ RemoveFirst(q, e) \in Seq(S)
           /\ \A i \in 1 .. Len(RemoveFirst(q, e)) :
                 \E j \in 1 .. Len(q) : RemoveFirst(q, e)[i] = q[j]
           /\ \A j \in 1 .. Len(q) : q[j] # e =>
                 \E i \in 1 .. Len(RemoveFirst(q, e)) : RemoveFirst(q, e)[i] = q[j]
           /\ (\A i, j \in 1 .. Len(q) : q[i] = q[j] => i = j) =>
                 LET r == RemoveFirst(q, e) IN
                    /\ \A i, j \in 1 .. Len(r) : r[i] = r[j] => i = j
                    /\ \A i \in 1 .. Len(r) : r[i] # e
<1>0. Len(q) \in Nat /\ \A i \in 1 .. Len(q) : q[i] \in S
  BY LenProperties, ElementOfSeq
<1>1. CASE ~\E i \in 1 .. Len(q) : q[i] = e
  BY <1>1 DEF RemoveFirst
<1>2. CASE \E i \in 1 .. Len(q) : q[i] = e
  <2> DEFINE I == {i \in 1 .. Len(q) : q[i] = e}
             k == Min(I)
             r == RemoveFirst(q, e)
  <2>1. k \in I
    <3>1. I \in SUBSET Nat /\ I # {}
      BY <1>2
    <3> HIDE DEF I
    <3> QED BY <3>1, MinFacts
  <2>2. r = SubSeq(q, 1, k - 1) \o SubSeq(q, k + 1, Len(q))
    BY <1>2 DEF RemoveFirst, RemoveAt, SelectInSeq
  <2>3. k \in 1 .. Len(q) /\ q[k] = e
    BY <2>1
  <2> HIDE DEF I, k, r
  <2>4. /\ SubSeq(q, 1, k - 1) \in Seq(S) /\ Len(SubSeq(q, 1, k - 1)) = k - 1
        /\ \A i \in 1 .. k - 1 : SubSeq(q, 1, k - 1)[i] = q[i]
    BY <1>0, <2>3, SplitFacts
  <2>5. /\ SubSeq(q, k + 1, Len(q)) \in Seq(S)
        /\ Len(SubSeq(q, k + 1, Len(q))) = Len(q) - k
        /\ \A i \in 1 .. Len(q) - k : SubSeq(q, k + 1, Len(q))[i] = q[k + i]
    BY <1>0, <2>3, SubSeqProperties
  <2>6. /\ r \in Seq(S) /\ Len(r) = Len(q) - 1
        /\ \A i \in 1 .. Len(q) - 1 : r[i] = IF i < k THEN q[i] ELSE q[i + 1]
    <3> DEFINE a == SubSeq(q, 1, k - 1)
               b == SubSeq(q, k + 1, Len(q))
    <3> HIDE DEF a, b
    <3>1. /\ a \o b \in Seq(S) /\ Len(a \o b) = Len(a) + Len(b)
          /\ \A i \in 1 .. Len(a) + Len(b) :
                (a \o b)[i] = IF i <= Len(a) THEN a[i] ELSE b[i - Len(a)]
      BY <2>4, <2>5, ConcatProperties DEF a, b
    <3>2. r = a \o b /\ Len(a) = k - 1 /\ Len(b) = Len(q) - k
          /\ (\A i \in 1 .. k - 1 : a[i] = q[i])
          /\ (\A i \in 1 .. Len(q) - k : b[i] = q[k + i])
      BY <2>2, <2>4, <2>5 DEF a, b
    <3>3. Len(r) = Len(q) - 1
      BY <1>0, <2>3, <3>1, <3>2
    <3>4. ASSUME NEW i \in 1 .. Len(q) - 1
          PROVE  r[i] = IF i < k THEN q[i] ELSE q[i + 1]
      <4>1. CASE i < k
        BY <1>0, <2>3, <3>1, <3>2, <4>1
      <4>2. CASE ~(i < k)
        <5>1. /\ i \in 1 .. Len(a) + Len(b) /\ ~(i <= Len(a))
              /\ i - Len(a) \in 1 .. Len(q) - k
          BY <1>0, <2>3, <3>2, <4>2
        <5>2. r[i] = b[i - Len(a)] /\ b[i - Len(a)] = q[k + (i - Len(a))]
          BY <3>1, <3>2, <5>1
        <5>3. k + (i - Len(a)) = i + 1
          BY <1>0, <2>3, <3>2
        <5> QED BY <4>2, <5>2, <5>3
      <4> QED BY <4>1, <4>2
    <3> QED BY <3>1, <3>2, <3>3, <3>4
  <2>7. \A i \in 1 .. Len(r) : \E j \in 1 .. Len(q) : r[i] = q[j]
    BY <1>0, <2>3, <2>6
  <2>8. ASSUME NEW j \in 1 .. Len(q), q[j] # e
        PROVE  \E i \in 1 .. Len(r) : r[i] = q[j]
    <3>1. CASE j < k
      BY <1>0, <2>3, <2>6, <3>1
    <3>2. CASE j > k
      <4>1. j - 1 \in 1 .. Len(r) /\ r[j - 1] = q[j]
        BY <1>0, <2>3, <2>6, <3>2
      <4> QED BY <4>1
    <3> QED BY <1>0, <2>3, <2>8, <3>1, <3>2
  <2>9. ASSUME \A i, j \in 1 .. Len(q) : q[i] = q[j] => i = j
        PROVE  /\ \A i, j \in 1 .. Len(r) : r[i] = r[j] => i = j
               /\ \A i \in 1 .. Len(r) : r[i] # e
    <3> DEFINE at(i) == IF i < k THEN i ELSE i + 1
    <3>0. Len(q) \in Nat /\ k \in 1 .. Len(q) /\ Len(r) = Len(q) - 1
      BY <1>0, <2>3, <2>6
    <3>1. \A i \in 1 .. Len(r) : at(i) \in 1 .. Len(q) /\ at(i) # k
      BY ONLY <3>0
    <3>2. \A i, j \in 1 .. Len(r) : at(i) = at(j) => i = j
      BY ONLY <3>0
    <3>3. \A i \in 1 .. Len(r) : r[i] = q[at(i)]
      BY <2>6, <3>0
    <3> HIDE DEF at
    <3> QED BY ONLY <2>3, <2>9, <3>1, <3>2, <3>3
  <2> QED BY <2>6, <2>7, <2>8, <2>9 DEF r
<1> QED BY <1>1, <1>2

(***************************************************************************)
(* The invariant.                                                          *)
(***************************************************************************)
Tok == Words \cup {"lead", "child", "user", "assistant", "think", Answer}

\* The types of the variables; a conversation starts with a user's turn.
Types ==
    /\ cfg \in Configs
    /\ conv \in [Sessions -> Seq(Tok)]
    /\ \A s \in Sessions : conv[s] = <<>> \/ (Len(conv[s]) > 0 /\ conv[s][1] = "user")
    /\ kv \in [Seqs -> Seq(Tok)]
    /\ resident \in [Slots -> Seq(Tok)]
    /\ active \in Slots
    /\ pool \in Nat /\ pool - 1 \in Slots
    /\ saved \in Seq(Tok)

\* The sessions that own a slot are the ones in the order of use, each once,
\* and no two own the same slot.
Pool ==
    /\ assigned \in [Sessions -> Slots \cup {NoSlot}]
    /\ order \in Seq(Sessions)
    /\ Distinct(order)
    /\ \A s \in Sessions : assigned[s] # NoSlot <=> Has(order, s)
    /\ \A s, t \in Sessions :
          assigned[s] = assigned[t] /\ assigned[s] # NoSlot => s = t

\* One session stays in sequence 0; a batch then finds its sequences empty.
Alone ==
    OneSession(cfg) =>
        /\ active = 0
        /\ \A s \in Sessions : assigned[s] = NoSlot
                               \/ (assigned[s] = 0 /\ s \in cfg.keys)
        /\ \A q \in Slots : q # 0 => resident[q] = <<>>
        /\ job.pc # "batch" => \A q \in Slots \cup {1, 2} : q # 0 => kv[q] = <<>>

\* A cached prefix is the system prompt and the header of a user's turn.
Prefix(sys) == <<sys, "user">>
CacheTrue ==
    /\ \A k \in DOMAIN cache : cache[k].data = Prefix(k) /\ cache[k].count = 2
    /\ lru \in Seq(Systems)
    /\ \A i \in 1 .. Len(lru) : lru[i] \in DOMAIN cache

\* A call in progress has its prompt, which opens with the system prompt and
\* the header of a user's turn.
Prefilling == [pc : {"prefill", "dispatch"}, key : Sessions, sys : Systems,
               word : Words, tokens : Seq(Tok), bound : BOOLEAN]
Jobs ==
    /\ job.pc \in {"idle", "prefill", "dispatch", "decode", "batch"}
    /\ job.pc = "idle" => job = Idle
    /\ job.pc \in {"prefill", "dispatch"} =>
          /\ job \in Prefilling
          /\ Len(job.tokens) > 2
          /\ job.tokens[1] = job.sys /\ job.tokens[2] = "user"
    /\ job.pc = "decode" =>
          /\ job.seq \in Slots /\ job.word \in Words
          /\ job.tokens \in Seq(Tok) /\ Len(job.tokens) > 0
          /\ job.sys = "lead" => job.key \in Sessions
          /\ OneSession(cfg) => job.seq = 0
    /\ job.pc = "batch" => cfg.parallel > 1 /\ DOMAIN job.arms = {1, 2}

Inv == /\ Types /\ Sound(cfg)
       /\ Pool /\ Alone /\ CacheTrue /\ Jobs /\ KvIsPrompt /\ RecordTrue

\* The sequences of the context, and the ones a batch uses.
LEMMA Geometry ==
    ASSUME cfg \in Configs
    PROVE  /\ cfg \in ConfigType
           /\ NSeqMax(cfg) \in 1 .. 3 /\ 0 \in Slots /\ NoSlot \notin Slots
           /\ Slots \subseteq {0, 1, 2} /\ Slots \subseteq Seqs
           /\ {0, 1, 2} \subseteq Seqs
           /\ NSeqMax(cfg) - 1 \in Slots
           /\ \A n \in Nat : n - 1 \in Slots /\ n > 1 => NSeqMax(cfg) # 1
           /\ cfg.parallel > 1 => TempSeqBase(cfg) = 1
<1>1. /\ cfg \in ConfigType /\ (cfg.maxSessions = 1 \/ cfg.parallel = 1)
      /\ cfg.maxSessions \in 1 .. 3 /\ cfg.parallel \in 1 .. 3
  BY ConfigsAssumption DEF ConfigType
<1>2. NSeqMax(cfg) = IF cfg.parallel <= cfg.maxSessions THEN cfg.maxSessions
                     ELSE cfg.parallel
  BY <1>1, MaxOfTwo DEF NSeqMax
<1>3. TempSeqBase(cfg) = cfg.maxSessions
  BY <1>1, MaxOfTwo DEF TempSeqBase
<1>4. NSeqMax(cfg) \in 1 .. 3 
  BY <1>1, <1>2
<1> HIDE DEF NSeqMax
<1> QED BY <1>1, <1>3, <1>4 DEF Slots, Seqs, NoSlot

\* A step keeps the records true if every slot that still has one and has
\* cells keeps both, or is recorded as what it holds, or only gains tokens.
LEMMA KeepRecords ==
    ASSUME Types, RecordTrue, UNCHANGED cfg,
           \A s \in Slots :
              /\ kv'[s] \in Seq(Tok)
              /\ \/ kv'[s] = <<>> \/ resident'[s] = <<>>
                 \/ resident'[s] = kv'[s]
                 \/ kv'[s] = kv[s] /\ resident'[s] = resident[s]
                 \/ /\ kv[s] # <<>> /\ resident'[s] = resident[s]
                    /\ \E t \in Seq(Tok) : kv'[s] = kv[s] \o t
    PROVE  RecordTrue'
<1> SUFFICES ASSUME cfg.warmKeep, NEW s \in Slots, kv'[s] # <<>>
             PROVE  IsPrefix(resident'[s], kv'[s])
  BY DEF RecordTrue, Slots, NSeqMax
<1>1. /\ s \in Seqs /\ kv[s] \in Seq(Tok) /\ resident[s] \in Seq(Tok)
      /\ kv'[s] \in Seq(Tok)
  BY Geometry DEF Types
<1>2. CASE resident'[s] = <<>>
  BY <1>1, <1>2, PrefixFacts
<1>3. CASE resident'[s] = kv'[s]
  BY <1>1, <1>3, PrefixFacts
<1>4. CASE kv'[s] = kv[s] /\ resident'[s] = resident[s]
  BY <1>4 DEF RecordTrue
<1>5. CASE /\ kv[s] # <<>> /\ resident'[s] = resident[s]
           /\ \E t \in Seq(Tok) : kv'[s] = kv[s] \o t
  <2>1. IsPrefix(resident[s], kv[s])
    BY <1>5 DEF RecordTrue
  <2> QED BY <1>1, <1>5, <2>1, PrefixFacts
<1> QED BY <1>2, <1>3, <1>4, <1>5

\* run_prefill fills the active slot; another sequence keeps its cells or is
\* cleared.
LEMMA PrefilledFacts ==
    ASSUME Types, NEW k \in Seq(Tok)
    PROVE  /\ Prefilled(k) \in [Seqs -> Seq(Tok)]
           /\ Prefilled(k)[active] = k
           /\ \A q \in Seqs : q # active => Prefilled(k)[q] \in {kv[q], <<>>}
<1>1. active \in Seqs /\ <<>> \in Seq(Tok)
  BY Geometry, EmptySeq DEF Types
<1>2. /\ EmptyKv \in [Seqs -> Seq(Tok)] /\ \A q \in Seqs : EmptyKv[q] = <<>>
      /\ kv \in [Seqs -> Seq(Tok)]
  BY <1>1 DEF EmptyKv, Types
<1> HIDE DEF EmptyKv
<1>3. /\ Cleared(active) \in [Seqs -> Seq(Tok)]
      /\ \A q \in Seqs : Cleared(active)[q] \in {kv[q], <<>>}
  BY <1>1, <1>2 DEF Cleared
<1> HIDE DEF Cleared
<1> QED BY <1>1, <1>3 DEF Prefilled

\* A step of the prefill keeps all but the cache true: it fills the active slot
\* with k, records k or nothing, and goes on to the decode only if k is the
\* prompt.
LEMMA PrefillStep ==
    ASSUME Inv, job.pc \in {"prefill", "dispatch"},
           UNCHANGED <<cfg, conv, pool, assigned, order, active, saved>>,
           NEW k \in Seq(Tok), kv' \in [Seqs -> Seq(Tok)], kv'[active] = k,
           \A q \in Seqs : q # active => kv'[q] \in {kv[q], <<>>},
           resident' \in [Slots -> Seq(Tok)], resident'[active] \in {<<>>, k},
           \A q \in Slots : q # active => resident'[q] \in {resident[q], <<>>},
           \/ job' = Idle \/ job' = [job EXCEPT !.pc = "dispatch"]
           \/ ToDecode(active) /\ k = job.tokens
    PROVE  Types' /\ Sound(cfg)' /\ Pool' /\ Alone' /\ Jobs' /\ KvIsPrompt'
           /\ RecordTrue'
<1>1. /\ cfg \in Configs /\ active \in Slots
      /\ Slots \subseteq Seqs /\ Slots \subseteq {0, 1, 2} /\ {0, 1, 2} \subseteq Seqs
  BY Geometry DEF Inv, Types
<1>2. Slots' = Slots
  BY DEF Slots, NSeqMax
<1>3. Types' /\ Sound(cfg)' /\ Pool'
  BY <1>2 DEF Inv, Types, Pool, Sound, OneSession, NSeqMax
<1>4. /\ job \in Prefilling /\ job.pc # "batch" /\ Len(job.tokens) > 2
      /\ job.tokens[1] = job.sys /\ job.tokens[2] = "user"
  BY DEF Inv, Jobs
<1>5. RecordTrue'
  <2>1. \A s \in Slots :
              /\ kv'[s] \in Seq(Tok)
              /\ \/ kv'[s] = <<>> \/ resident'[s] = <<>>
                 \/ resident'[s] = kv'[s]
                 \/ kv'[s] = kv[s] /\ resident'[s] = resident[s]
    BY <1>1
  <2> QED BY <2>1, KeepRecords DEF Inv
<1>6. job'.pc # "batch" /\ Jobs' /\ KvIsPrompt'
  <2>1. CASE job' = Idle
    BY <2>1 DEF Jobs, KvIsPrompt, Idle
  <2>2. CASE job' = [job EXCEPT !.pc = "dispatch"]
    <3>1. /\ job' \in Prefilling /\ job'.pc = "dispatch"
          /\ job'.tokens = job.tokens /\ job'.sys = job.sys
      BY <1>4, <2>2 DEF Prefilling
    <3> QED BY <1>4, <3>1 DEF Jobs, KvIsPrompt
  <2>3. CASE ToDecode(active) /\ k = job.tokens
    <3>1. /\ job'.pc = "decode" /\ job'.key = job.key /\ job'.sys = job.sys
          /\ job'.word = job.word /\ job'.tokens = job.tokens
          /\ job'.seq = active
      BY <2>3 DEF ToDecode
    <3>2. /\ job.key \in Sessions /\ job.word \in Words
          /\ job.tokens \in Seq(Tok) /\ Len(job.tokens) > 0
      BY <1>4 DEF Prefilling
    <3>3. OneSession(cfg)' => active = 0
      BY DEF Inv, Alone, OneSession, NSeqMax
    <3> QED BY <1>1, <1>2, <2>3, <3>1, <3>2, <3>3 DEF Jobs, KvIsPrompt
  <2> QED BY <2>1, <2>2, <2>3
<1>7. Alone'
  <2> SUFFICES ASSUME OneSession(cfg)' PROVE Alone'
    BY DEF Alone
  <2>1. OneSession(cfg)
    BY DEF OneSession, NSeqMax
  <2>2. /\ active = 0
        /\ \A s \in Sessions : assigned[s] = NoSlot
                               \/ (assigned[s] = 0 /\ s \in cfg.keys)
        /\ \A q \in Slots : q # 0 => resident[q] = <<>>
        /\ \A q \in Slots \cup {1, 2} : q # 0 => kv[q] = <<>>
    BY <2>1, <1>4 DEF Inv, Alone
  <2>3. \A q \in Slots \cup {1, 2} : q # 0 => kv'[q] = <<>>
    BY <1>1, <2>2
  <2> QED BY <1>2, <2>2, <2>3 DEF Alone
<1> QED BY <1>3, <1>5, <1>6, <1>7

(***************************************************************************)
(* The prefill.                                                            *)
(***************************************************************************)
\* What warm_keep_cut keeps of a slot is the start of the new prompt.
LEMMA CutFacts ==
    ASSUME Types, RecordTrue, NEW t \in Seq(Tok), Len(t) > 0
    PROVE  /\ Cut(t) \in 0 .. Len(t)
           /\ Cut(t) # 0 => /\ FirstOf(kv[active], Cut(t)) \in Seq(Tok)
                            /\ FirstOf(kv[active], Cut(t)) \o From(t, Cut(t)) = t
<1> DEFINE r == resident[active]
           c == kv[active]
           n == CommonPrefixLen(r, t)
<1>1. r \in Seq(Tok) /\ c \in Seq(Tok) /\ active \in Slots
  BY Geometry DEF Types
<1>2. Len(r) \in Nat /\ Len(c) \in Nat /\ Len(t) \in Nat
  BY <1>1, LenProperties
<1>3. /\ n \in 0 .. Len(r) /\ n \in 0 .. Len(t)
      /\ SubSeq(r, 1, n) = SubSeq(t, 1, n)
  <2> HIDE DEF r
  <2> QED BY <1>1, CommonPrefixFacts
<1>4. cfg.warmKeep => c = <<>> \/ IsPrefix(r, c)
  BY <1>1 DEF RecordTrue
<1>5. Cut(t) = IF cfg.warmKeep THEN WarmKeepCut(r, t, Len(c)) ELSE 0
  BY DEF Cut
<1>6. \/ WarmKeepCut(r, t, Len(c)) = 0
      \/ /\ Len(c) # 0 /\ Len(c) >= n
         /\ WarmKeepCut(r, t, Len(c)) = IF n <= Len(t) - 1 THEN n ELSE Len(t) - 1
  <2> HIDE DEF c, r, n
  <2>1. Min({n, Len(t) - 1}) = IF n <= Len(t) - 1 THEN n ELSE Len(t) - 1
    BY <1>2, <1>3, MinOfTwo
  <2>2. \/ WarmKeepCut(r, t, Len(c)) = 0
        \/ /\ Len(c) # 0 /\ ~(Len(c) < n)
           /\ WarmKeepCut(r, t, Len(c)) = Min({n, Len(t) - 1})
    BY DEF WarmKeepCut, n
  <2> QED BY <1>2, <1>3, <2>1, <2>2
<1> HIDE DEF r, c, n
<1>7. CASE Cut(t) = 0
  BY <1>2, <1>7
<1>8. CASE Cut(t) # 0
  <2> DEFINE m == Cut(t)
  <2>1. cfg.warmKeep /\ m \in 0 .. n /\ m \in Nat /\ m <= Len(t)
        /\ Len(c) # 0 /\ n <= Len(c)
    BY <1>2, <1>3, <1>5, <1>6, <1>8
  <2>2. IsPrefix(r, c)
    BY <1>4, <2>1, EmptySeq
  <2>3. Len(r) <= Len(c) /\ SubSeq(r, 1, Len(r)) = SubSeq(c, 1, Len(r))
    BY <2>2 DEF IsPrefix
  <2> HIDE DEF m
  <2>4. SubSeq(r, 1, m) = SubSeq(t, 1, m)
    BY <1>1, <1>2, <1>3, <2>1, ShorterPrefix
  <2>5. SubSeq(r, 1, m) = SubSeq(c, 1, m)
    <3>1. m \in 0 .. Len(r)
      BY <1>2, <1>3, <2>1
    <3> QED BY <1>1, <1>2, <2>3, <3>1, ShorterPrefix
  <2>6. FirstOf(c, m) = SubSeq(c, 1, m)
    <3>1. Min({m, Len(c)}) = m
      BY <1>2, <1>3, <2>1, MinOfTwo
    <3> QED BY <3>1 DEF FirstOf
  <2>7. m \in 0 .. Len(t)
    BY <1>2, <2>1
  <2>8. SubSeq(t, 1, m) \in Seq(Tok) /\ SubSeq(t, 1, m) \o From(t, m) = t
    BY <2>7, SplitFacts
  <2> QED BY <2>4, <2>5, <2>6, <2>7, <2>8 DEF m, c
<1> QED BY <1>7, <1>8

\* A part of a run of tokens is one too.
LEMMA PartialFacts ==
    ASSUME NEW u \in Seq(Tok), NEW part \in Partial(u)
    PROVE  part \in Seq(Tok)
<1>1. PICK n \in 0 .. Len(u) - 1 : part = SubSeq(u, 1, n)
  BY DEF Partial
<1>2. n \in 0 .. Len(u)
  BY <1>1, LenProperties
<1> QED BY <1>1, <1>2, SplitFacts

\* What a prefill finds: a typed prompt that opens with the cached prefix.
LEMMA PromptFacts ==
    ASSUME Inv, job.pc \in {"prefill", "dispatch"}
    PROVE  /\ job \in Prefilling /\ job.tokens \in Seq(Tok)
           /\ Len(job.tokens) > 2 /\ job.sys \in Systems
           /\ SubSeq(job.tokens, 1, 2) = Prefix(job.sys)
           /\ 2 \in 0 .. Len(job.tokens)
<1>1. /\ job \in Prefilling /\ Len(job.tokens) > 2
      /\ job.tokens[1] = job.sys /\ job.tokens[2] = "user"
  BY DEF Inv, Jobs
<1>2. job.tokens \in Seq(Tok) /\ job.sys \in Systems
  BY <1>1 DEF Prefilling
<1> DEFINE t == job.tokens
<1>3. 2 \in 0 .. Len(t)
  BY <1>1, <1>2, LenProperties
<1> HIDE DEF t
<1>4. /\ SubSeq(t, 1, 2) \in Seq(Tok) /\ Len(SubSeq(t, 1, 2)) = 2
      /\ \A i \in 1 .. 2 : SubSeq(t, 1, 2)[i] = t[i]
  BY <1>2, <1>3, SplitFacts DEF t
<1>5. Prefix(job.sys) \in Seq(Tok) /\ Len(Prefix(job.sys)) = 2
      /\ Prefix(job.sys)[1] = job.sys /\ Prefix(job.sys)[2] = "user"
  BY <1>2 DEF Prefix, Tok, Systems
<1>6. SubSeq(t, 1, 2) = Prefix(job.sys)
  <2>1. \A i \in 1 .. 2 : i = 1 \/ i = 2
    OBVIOUS
  <2>2. \A i \in 1 .. 2 : SubSeq(t, 1, 2)[i] = Prefix(job.sys)[i]
    BY <1>1, <1>4, <1>5, <2>1 DEF t
  <2> QED BY <1>4, <1>5, <2>2, SeqEqual
<1> QED BY <1>1, <1>2, <1>3, <1>6 DEF t

\* What a record becomes.
LEMMA RecordFacts ==
    ASSUME Types, NEW k \in Seq(Tok)
    PROVE  /\ [resident EXCEPT ![active] = k] \in [Slots -> Seq(Tok)]
           /\ [resident EXCEPT ![active] = k][active] = k
           /\ \A q \in Slots : q # active =>
                 [resident EXCEPT ![active] = k][q] = resident[q]
BY DEF Types

\* The empty sequence is typed.
LEMMA NothingFacts == <<>> \in Seq(Tok)
BY EmptySeq

\* A recurrent model's prefill keeps the invariant.
LEMMA HybridPrefillStep ==
    ASSUME Inv, HybridPrefill
    PROVE  Inv'
<1>1. /\ job.pc = "prefill" /\ kv' = Prefilled(job.tokens)
      /\ resident' = [resident EXCEPT ![active] = <<>>] /\ ToDecode(active)
      /\ UNCHANGED <<cfg, conv, pool, assigned, order, active, cache, lru, saved>>
  BY DEF HybridPrefill, Invalidated, poolVars
<1>2. job.tokens \in Seq(Tok) /\ Types
  BY <1>1, PromptFacts DEF Inv
<1>3. Types' /\ Sound(cfg)' /\ Pool' /\ Alone' /\ Jobs' /\ KvIsPrompt' /\ RecordTrue'
  BY <1>1, <1>2, NothingFacts, PrefilledFacts, RecordFacts, PrefillStep
<1> QED BY <1>1, <1>3 DEF Inv, CacheTrue

\* A cold prefill keeps it.
LEMMA PlainPrefillStep ==
    ASSUME Inv, PlainPrefill
    PROVE  Inv'
<1>1. /\ job.pc \in {"prefill", "dispatch"} /\ kv' = Prefilled(job.tokens)
      /\ resident' = [resident EXCEPT ![active] = job.tokens] /\ ToDecode(active)
      /\ UNCHANGED <<cfg, conv, pool, assigned, order, active, cache, lru, saved>>
  BY DEF PlainPrefill, Dispatching, poolVars
<1>2. job.tokens \in Seq(Tok) /\ Types
  BY <1>1, PromptFacts DEF Inv
<1>3. Types' /\ Sound(cfg)' /\ Pool' /\ Alone' /\ Jobs' /\ KvIsPrompt' /\ RecordTrue'
  BY <1>1, <1>2, PrefilledFacts, RecordFacts, PrefillStep
<1> QED BY <1>1, <1>3 DEF Inv, CacheTrue

\* Warm reuse keeps it, whether its decode succeeds or fails half way.
LEMMA WarmReuseStep ==
    ASSUME Inv, WarmReuse
    PROVE  Inv'
<1> DEFINE cut == Cut(job.tokens)
           kept == FirstOf(kv[active], cut)
           rest == From(job.tokens, cut)
<1>1. /\ job.pc = "prefill" /\ cut > 0
      /\ UNCHANGED <<cfg, conv, pool, assigned, order, active, cache, lru, saved>>
  BY DEF WarmReuse, poolVars
<1>2. /\ job.tokens \in Seq(Tok) /\ Len(job.tokens) > 2 /\ Types /\ RecordTrue
      /\ active \in Seqs /\ kv \in [Seqs -> Seq(Tok)]
  BY <1>1, PromptFacts, Geometry DEF Inv, Types
<1>3. cut \in 0 .. Len(job.tokens) /\ kept \in Seq(Tok) /\ kept \o rest = job.tokens
  <2>1. Len(job.tokens) > 0
    BY <1>2, LenProperties
  <2>2. /\ cut \in 0 .. Len(job.tokens)
        /\ cut # 0 => kept \in Seq(Tok) /\ kept \o rest = job.tokens
    BY <1>2, <2>1, CutFacts
  <2> HIDE DEF cut
  <2>3. cut # 0
    BY <1>1
  <2> QED BY <2>2, <2>3
<1>4. rest \in Seq(Tok)
  BY <1>2, <1>3, SplitFacts
<1>5. \/ /\ kv' = [kv EXCEPT ![active] = kept \o rest]
         /\ resident' = [resident EXCEPT ![active] = job.tokens]
         /\ ToDecode(active)
      \/ /\ \E part \in Partial(rest) : kv' = [kv EXCEPT ![active] = kept \o part]
         /\ resident' = [resident EXCEPT ![active] = <<>>]
         /\ job' = [job EXCEPT !.pc = "dispatch"]
  BY DEF WarmReuse, Invalidated
<1> HIDE DEF cut, kept, rest
<1>6. CASE /\ kv' = [kv EXCEPT ![active] = kept \o rest]
           /\ resident' = [resident EXCEPT ![active] = job.tokens]
           /\ ToDecode(active)
  <2>1. /\ kv' \in [Seqs -> Seq(Tok)] /\ kv'[active] = job.tokens
        /\ \A q \in Seqs : q # active => kv'[q] = kv[q]
    BY <1>2, <1>3, <1>6
  <2>2. Types' /\ Sound(cfg)' /\ Pool' /\ Alone' /\ Jobs' /\ KvIsPrompt' /\ RecordTrue'
    BY <1>1, <1>2, <1>6, <2>1, RecordFacts, PrefillStep
  <2> QED BY <1>1, <2>2 DEF Inv, CacheTrue
<1>7. CASE /\ \E part \in Partial(rest) : kv' = [kv EXCEPT ![active] = kept \o part]
           /\ resident' = [resident EXCEPT ![active] = <<>>]
           /\ job' = [job EXCEPT !.pc = "dispatch"]
  <2>1. PICK part \in Partial(rest) : kv' = [kv EXCEPT ![active] = kept \o part]
    BY <1>7
  <2>2. kept \o part \in Seq(Tok)
    BY <1>3, <1>4, PartialFacts, ConcatProperties
  <2>3. /\ kv' \in [Seqs -> Seq(Tok)] /\ kv'[active] = kept \o part
        /\ \A q \in Seqs : q # active => kv'[q] = kv[q]
    BY <1>2, <2>1, <2>2
  <2>4. Types' /\ Sound(cfg)' /\ Pool' /\ Alone' /\ Jobs' /\ KvIsPrompt' /\ RecordTrue'
    BY <1>1, <1>2, <1>7, <2>2, <2>3, NothingFacts, RecordFacts, PrefillStep
  <2> QED BY <1>1, <2>4 DEF Inv, CacheTrue
<1> QED BY <1>5, <1>6, <1>7

\* A hit makes its entry the most recent one.
LEMMA TouchedLru ==
    ASSUME CacheTrue, NEW k \in Systems, k \in DOMAIN cache,
           UNCHANGED cache, lru' = <<k>> \o RemoveFirst(lru, k)
    PROVE  CacheTrue'
<1> DEFINE r == RemoveFirst(lru, k)
<1>1. r \in Seq(Systems) /\ \A i \in 1 .. Len(r) : r[i] \in DOMAIN cache
  <2>1. lru \in Seq(Systems) /\ \A i \in 1 .. Len(lru) : lru[i] \in DOMAIN cache
    BY DEF CacheTrue
  <2>2. r \in Seq(Systems) /\ \A i \in 1 .. Len(r) : \E j \in 1 .. Len(lru) : r[i] = lru[j]
    BY <2>1, RemoveFacts
  <2> HIDE DEF r
  <2> QED BY <2>1, <2>2
<1> HIDE DEF r
<1>2. <<k>> \in Seq(Systems) /\ Len(<<k>>) = 1 /\ <<k>>[1] = k
  OBVIOUS
<1>3. /\ <<k>> \o r \in Seq(Systems) /\ Len(<<k>> \o r) = 1 + Len(r)
      /\ \A i \in 1 .. 1 + Len(r) :
            (<<k>> \o r)[i] = IF i <= 1 THEN <<k>>[i] ELSE r[i - 1]
  BY <1>1, <1>2, ConcatProperties
<1>4. Len(r) \in Nat
  BY <1>1, LenProperties
<1>5. \A i \in 1 .. 1 + Len(r) : (<<k>> \o r)[i] \in DOMAIN cache
  <2> TAKE i \in 1 .. 1 + Len(r)
  <2>1. CASE i = 1
    BY <1>2, <1>3, <1>4, <2>1
  <2>2. CASE i # 1
    <3>1. i - 1 \in 1 .. Len(r) /\ ~(i <= 1)
      BY <1>4, <2>2
    <3> QED BY <1>1, <1>3, <3>1
  <2> QED BY <2>1, <2>2
<1>6. lru' = <<k>> \o r
  BY DEF r
<1> QED BY <1>3, <1>5, <1>6 DEF CacheTrue

\* A prefill that fails part way keeps it.
LEMMA PrefillFailsStep ==
    ASSUME Inv, PrefillFails
    PROVE  Inv'
<1>1. /\ job.pc \in {"prefill", "dispatch"}
      /\ resident' = [resident EXCEPT ![active] = <<>>] /\ job' = Idle
      /\ UNCHANGED <<cfg, conv, pool, assigned, order, active, cache, saved>>
  BY DEF PrefillFails, Dispatching, Invalidated, poolVars
<1>2. job.tokens \in Seq(Tok) /\ Types /\ CacheTrue /\ job.sys \in Systems
  BY <1>1, PromptFacts DEF Inv
<1>3. PICK part \in Partial(job.tokens) : kv' = Prefilled(part)
  BY DEF PrefillFails
<1>4. part \in Seq(Tok)
  BY <1>2, PartialFacts
<1>5. Types' /\ Sound(cfg)' /\ Pool' /\ Alone' /\ Jobs' /\ KvIsPrompt' /\ RecordTrue'
  BY <1>1, <1>2, <1>3, <1>4, NothingFacts, PrefilledFacts, RecordFacts, PrefillStep
<1>6. CacheTrue'
  <2>1. \/ lru' = lru
        \/ job.sys \in DOMAIN cache /\ lru' = <<job.sys>> \o RemoveFirst(lru, job.sys)
    BY DEF PrefillFails, Hit
  <2>2. CASE lru' = lru
    BY <1>1, <1>2, <2>2 DEF CacheTrue
  <2> QED BY <1>1, <1>2, <2>1, <2>2, TouchedLru
<1> QED BY <1>5, <1>6 DEF Inv

\* A restored prefix and the rest make up the prompt.
LEMMA RestoreStep ==
    ASSUME Inv, RestoreCachedPrefix
    PROVE  Inv'
<1>1. /\ job.pc \in {"prefill", "dispatch"} /\ job.sys \in DOMAIN cache
      /\ kv' = Prefilled(cache[job.sys].data \o From(job.tokens, cache[job.sys].count))
      /\ lru' = <<job.sys>> \o RemoveFirst(lru, job.sys)
      /\ resident' = [resident EXCEPT ![active] = job.tokens] /\ ToDecode(active)
      /\ UNCHANGED <<cfg, conv, pool, assigned, order, active, cache, saved>>
  BY DEF RestoreCachedPrefix, Dispatching, Hit, poolVars
<1>2. /\ job.tokens \in Seq(Tok) /\ Types /\ CacheTrue /\ job.sys \in Systems
      /\ SubSeq(job.tokens, 1, 2) = Prefix(job.sys)
      /\ 2 \in 0 .. Len(job.tokens)
  BY <1>1, PromptFacts DEF Inv
<1>3. cache[job.sys].data \o From(job.tokens, cache[job.sys].count) = job.tokens
  <2>1. cache[job.sys].data = Prefix(job.sys) /\ cache[job.sys].count = 2
    BY <1>1, <1>2 DEF CacheTrue
  <2>2. SubSeq(job.tokens, 1, 2) \o From(job.tokens, 2) = job.tokens
    BY <1>2, SplitFacts
  <2> QED BY <1>2, <2>1, <2>2
<1>4. kv' = Prefilled(job.tokens)
  BY <1>1, <1>3
<1>5. Types' /\ Sound(cfg)' /\ Pool' /\ Alone' /\ Jobs' /\ KvIsPrompt' /\ RecordTrue'
  BY <1>1, <1>2, <1>4, PrefilledFacts, RecordFacts, PrefillStep
<1>6. CacheTrue'
  BY <1>1, <1>2, TouchedLru
<1> QED BY <1>5, <1>6 DEF Inv

\* PromptCache::store keeps the entries true.
LEMMA StoreFacts ==
    ASSUME CacheTrue, NEW k \in Systems, NEW e, e.data = Prefix(k), e.count = 2,
           Store(k, e)
    PROVE  CacheTrue'
<1> DEFINE r == RemoveFirst(lru, k)
           F == {n \in 1 .. Len(r) : Bytes(cache, ToSet(SubSeq(r, 1, n))) + Len(e.data)
                                         <= cfg.cacheBytes}
           m == Max({0} \cup F)
           t == SubSeq(r, 1, m)
<1>1. r \in Seq(Systems) /\ \A i \in 1 .. Len(r) : r[i] \in DOMAIN cache
  BY RemoveFacts DEF CacheTrue
<1>2. \/ UNCHANGED <<cache, lru>>
      \/ /\ lru' = <<k>> \o t
         /\ cache' = [x \in {k} \cup ToSet(t) |-> IF x = k THEN e ELSE cache[x]]
  BY DEF Store
<1> HIDE DEF r
<1>3. m \in 0 .. Len(r)
  <2>1. Len(r) \in Nat
    BY <1>1, LenProperties
  <2>2. F \subseteq 1 .. Len(r)
    OBVIOUS
  <2> HIDE DEF F
  <2>3. {0} \cup F \in SUBSET (0 .. Len(r)) /\ {0} \cup F # {}
    BY <2>1, <2>2
  <2>4. m \in {0} \cup F
    BY <2>1, <2>3, MaxFacts
  <2> QED BY <2>3, <2>4
<1> HIDE DEF F, m
<1>4. /\ t \in Seq(Systems) /\ Len(t) = m
      /\ \A i \in 1 .. m : t[i] = r[i]
  BY <1>1, <1>3, SplitFacts
<1> HIDE DEF t
<1>5. Len(t) \in Nat /\ DOMAIN t = 1 .. Len(t) /\ Len(r) \in Nat
  BY <1>1, <1>4, LenProperties
<1>6. \A i \in 1 .. Len(t) : t[i] \in DOMAIN cache
  BY <1>1, <1>3, <1>4, <1>5
<1>7. CASE UNCHANGED <<cache, lru>>
  BY <1>7 DEF CacheTrue
<1>8. CASE /\ lru' = <<k>> \o t
           /\ cache' = [x \in {k} \cup ToSet(t) |-> IF x = k THEN e ELSE cache[x]]
  <2>1. \A x \in DOMAIN cache' : cache'[x].data = Prefix(x) /\ cache'[x].count = 2
    <3>1. ToSet(t) \subseteq DOMAIN cache
      BY <1>5, <1>6 DEF ToSet
    <3> QED BY <1>8, <3>1 DEF CacheTrue
  <2>2. <<k>> \in Seq(Systems) /\ Len(<<k>>) = 1 /\ <<k>>[1] = k
    OBVIOUS
  <2>3. /\ <<k>> \o t \in Seq(Systems) /\ Len(<<k>> \o t) = 1 + Len(t)
        /\ \A i \in 1 .. 1 + Len(t) :
              (<<k>> \o t)[i] = IF i <= 1 THEN <<k>>[i] ELSE t[i - 1]
    BY <1>4, <2>2, ConcatProperties
  <2>4. ASSUME NEW i \in 1 .. 1 + Len(t)
        PROVE  (<<k>> \o t)[i] \in {k} \cup ToSet(t)
    <3>1. CASE i = 1
      BY <2>2, <2>3, <3>1
    <3>2. CASE i # 1
      <4>1. i - 1 \in 1 .. Len(t) /\ ~(i <= 1)
        BY <1>5, <3>2
      <4>2. t[i - 1] \in ToSet(t)
        BY <1>5, <4>1 DEF ToSet
      <4> QED BY <2>3, <4>1, <4>2
    <3> QED BY <3>1, <3>2
  <2>5. DOMAIN cache' = {k} \cup ToSet(t)
    BY <1>8
  <2> QED BY <1>8, <2>1, <2>3, <2>4, <2>5 DEF CacheTrue
<1> QED BY <1>2, <1>7, <1>8

\* The prefix prefilled for the cache is saved from the slot it is in, and the
\* rest of the prompt follows it.
LEMMA CachePrefixStep ==
    ASSUME Inv, PrefillAndCachePrefix
    PROVE  Inv'
<1> DEFINE count == PrefixTokens(job.sys)
           first == Prefilled(SubSeq(job.tokens, 1, count))
           rest == From(job.tokens, count)
<1>1. /\ job.pc \in {"prefill", "dispatch"} /\ cfg.cache
      /\ Store(job.sys, [data |-> first[0], count |-> count])
      /\ \/ /\ kv' = [first EXCEPT ![active] = first[active] \o rest]
            /\ resident' = [resident EXCEPT ![active] = job.tokens]
            /\ ToDecode(active)
         \/ /\ \E part \in Partial(rest) :
                  kv' = [first EXCEPT ![active] = first[active] \o part]
            /\ resident' = [resident EXCEPT ![active] = <<>>]
            /\ job' = Idle
      /\ UNCHANGED <<cfg, conv, pool, assigned, order, active, saved>>
  BY DEF PrefillAndCachePrefix, Dispatching, Invalidated, SavedSequence, poolVars
<1>2. /\ job.tokens \in Seq(Tok) /\ Types /\ CacheTrue /\ job.sys \in Systems
      /\ SubSeq(job.tokens, 1, 2) = Prefix(job.sys)
      /\ 2 \in 0 .. Len(job.tokens)
  BY <1>1, PromptFacts DEF Inv
<1>3. count = 2
  <2>1. cfg.gen = 1
    BY <1>1 DEF Inv, Sound
  <2>2. count = Len((<<job.sys>> \o <<>>) \o <<"assistant">>)
    BY <2>1 DEF PrefixTokens, Render, GenPrompt
  <2> QED BY <2>2
<1>4. active = 0 /\ active \in Seqs
  BY <1>1, Geometry DEF Inv, Sound, Alone, Types
<1>5. /\ SubSeq(job.tokens, 1, 2) \in Seq(Tok) /\ rest \in Seq(Tok)
      /\ SubSeq(job.tokens, 1, 2) \o rest = job.tokens
  BY <1>2, <1>3, SplitFacts
<1>6. /\ first \in [Seqs -> Seq(Tok)] /\ first[active] = SubSeq(job.tokens, 1, 2)
      /\ \A q \in Seqs : q # active => first[q] \in {kv[q], <<>>}
  BY <1>2, <1>3, <1>5, PrefilledFacts
<1>7. CacheTrue'
  <2> DEFINE e == [data |-> first[0], count |-> count]
  <2>1. e.data = Prefix(job.sys) /\ e.count = 2 /\ Store(job.sys, e)
    BY <1>1, <1>2, <1>3, <1>4, <1>6
  <2> HIDE DEF e
  <2> QED BY <1>2, <2>1, StoreFacts
<1> HIDE DEF first, rest, count
<1>8. CASE /\ kv' = [first EXCEPT ![active] = first[active] \o rest]
           /\ resident' = [resident EXCEPT ![active] = job.tokens]
           /\ ToDecode(active)
  <2>1. /\ kv' \in [Seqs -> Seq(Tok)] /\ kv'[active] = job.tokens
        /\ \A q \in Seqs : q # active => kv'[q] \in {kv[q], <<>>}
    BY <1>2, <1>4, <1>5, <1>6, <1>8
  <2>2. Types' /\ Sound(cfg)' /\ Pool' /\ Alone' /\ Jobs' /\ KvIsPrompt' /\ RecordTrue'
    BY <1>1, <1>2, <1>8, <2>1, RecordFacts, PrefillStep
  <2> QED BY <1>7, <2>2 DEF Inv
<1>9. CASE /\ \E part \in Partial(rest) :
                  kv' = [first EXCEPT ![active] = first[active] \o part]
           /\ resident' = [resident EXCEPT ![active] = <<>>]
           /\ job' = Idle
  <2>1. PICK part \in Partial(rest) :
               kv' = [first EXCEPT ![active] = first[active] \o part]
    BY <1>9
  <2>2. first[active] \o part \in Seq(Tok)
    BY <1>5, <1>6, PartialFacts, ConcatProperties
  <2>3. /\ kv' \in [Seqs -> Seq(Tok)] /\ kv'[active] = first[active] \o part
        /\ \A q \in Seqs : q # active => kv'[q] \in {kv[q], <<>>}
    BY <1>4, <1>6, <2>1, <2>2
  <2>4. Types' /\ Sound(cfg)' /\ Pool' /\ Alone' /\ Jobs' /\ KvIsPrompt' /\ RecordTrue'
    BY <1>1, <1>2, <1>9, <2>2, <2>3, NothingFacts, RecordFacts, PrefillStep
  <2> QED BY <1>7, <2>4 DEF Inv
<1> QED BY <1>1, <1>8, <1>9

\* With MTP, sequence 0 is the session's slot.
LEMMA MtpStep ==
    ASSUME Inv, GenerateMtp
    PROVE  Inv'
<1> DEFINE cut == Cut(job.tokens)
           rest == From(job.tokens, cut)
           before == IF cut = 0 THEN EmptyKv
                     ELSE [kv EXCEPT ![0] = FirstOf(kv[0], cut)]
           records == IF cut = 0 THEN NoRecords ELSE resident
<1>1. /\ job.pc = "prefill" /\ cfg.mtp
      /\ \/ /\ kv' = [before EXCEPT ![0] = before[0] \o rest]
            /\ resident' = [records EXCEPT ![active] = job.tokens]
            /\ ToDecode(0)
         \/ /\ \E part \in Partial(rest) : kv' = [before EXCEPT ![0] = before[0] \o part]
            /\ resident' = [records EXCEPT ![active] = <<>>]
            /\ job' = Idle
      /\ UNCHANGED <<cfg, conv, pool, assigned, order, active, cache, lru, saved>>
  BY DEF GenerateMtp, poolVars
<1>2. /\ job.tokens \in Seq(Tok) /\ Len(job.tokens) > 2 /\ Types /\ RecordTrue
      /\ active \in Seqs /\ kv \in [Seqs -> Seq(Tok)] /\ active \in Slots
  BY <1>1, PromptFacts, Geometry DEF Inv, Types
<1>3. active = 0
  BY <1>1 DEF Inv, Sound, Alone
<1>4. /\ cut \in 0 .. Len(job.tokens)
      /\ cut # 0 => /\ FirstOf(kv[0], cut) \in Seq(Tok)
                    /\ FirstOf(kv[0], cut) \o rest = job.tokens
  <2>1. Len(job.tokens) > 0
    BY <1>2, LenProperties
  <2> QED BY <1>2, <1>3, <2>1, CutFacts
<1> HIDE DEF cut
<1>5. /\ rest \in Seq(Tok)
      /\ cut = 0 => rest = job.tokens
  <2>1. rest \in Seq(Tok)
    BY <1>2, <1>4, SplitFacts
  <2>2. cut = 0 => rest = job.tokens
    BY <1>2, SubSeqFull DEF From
  <2> QED BY <2>1, <2>2
<1> HIDE DEF rest
<1>6. /\ before \in [Seqs -> Seq(Tok)] /\ before[0] \o rest = job.tokens
      /\ \A q \in Seqs : q # 0 => before[q] \in {kv[q], <<>>}
  <2>1. CASE cut = 0
    <3>1. EmptyKv \in [Seqs -> Seq(Tok)] /\ \A q \in Seqs : EmptyKv[q] = <<>>
      BY NothingFacts DEF EmptyKv
    <3>2. <<>> \o rest = rest
      BY <1>5, ConcatEmptySeq
    <3> QED BY <1>2, <1>3, <1>5, <2>1, <3>1, <3>2
  <2>2. CASE cut # 0
    BY <1>2, <1>3, <1>4, <2>2
  <2> QED BY <2>1, <2>2
<1>7. /\ records \in [Slots -> Seq(Tok)]
      /\ \A q \in Slots : records[q] \in {resident[q], <<>>}
  BY <1>2, NothingFacts DEF NoRecords, Types
<1> HIDE DEF before, records
<1>8. CASE /\ kv' = [before EXCEPT ![0] = before[0] \o rest]
           /\ resident' = [records EXCEPT ![active] = job.tokens]
           /\ ToDecode(0)
  <2>1. /\ kv' \in [Seqs -> Seq(Tok)] /\ kv'[active] = job.tokens
        /\ \A q \in Seqs : q # active => kv'[q] \in {kv[q], <<>>}
    BY <1>2, <1>3, <1>6, <1>8
  <2>2. /\ resident' \in [Slots -> Seq(Tok)] /\ resident'[active] = job.tokens
        /\ \A q \in Slots : q # active => resident'[q] \in {resident[q], <<>>}
    BY <1>2, <1>7, <1>8
  <2>3. Types' /\ Sound(cfg)' /\ Pool' /\ Alone' /\ Jobs' /\ KvIsPrompt' /\ RecordTrue'
    BY <1>1, <1>2, <1>3, <1>8, <2>1, <2>2, PrefillStep
  <2> QED BY <1>1, <2>3 DEF Inv, CacheTrue
<1>9. CASE /\ \E part \in Partial(rest) : kv' = [before EXCEPT ![0] = before[0] \o part]
           /\ resident' = [records EXCEPT ![active] = <<>>]
           /\ job' = Idle
  <2>1. PICK part \in Partial(rest) : kv' = [before EXCEPT ![0] = before[0] \o part]
    BY <1>9
  <2>2. before[0] \o part \in Seq(Tok)
    BY <1>2, <1>3, <1>5, <1>6, PartialFacts, ConcatProperties
  <2>3. /\ kv' \in [Seqs -> Seq(Tok)] /\ kv'[active] = before[0] \o part
        /\ \A q \in Seqs : q # active => kv'[q] \in {kv[q], <<>>}
    BY <1>2, <1>3, <1>6, <2>1, <2>2
  <2>4. /\ resident' \in [Slots -> Seq(Tok)] /\ resident'[active] = <<>>
        /\ \A q \in Slots : q # active => resident'[q] \in {resident[q], <<>>}
    BY <1>2, <1>7, <1>9, NothingFacts
  <2>5. Types' /\ Sound(cfg)' /\ Pool' /\ Alone' /\ Jobs' /\ KvIsPrompt' /\ RecordTrue'
    BY <1>1, <1>2, <1>9, <2>2, <2>3, <2>4, PrefillStep
  <2> QED BY <1>1, <2>5 DEF Inv, CacheTrue
<1> QED BY <1>1, <1>8, <1>9

\* With images, sequence 0 is the session's slot.
LEMMA MultimodalStep ==
    ASSUME Inv, GenerateMultimodal
    PROVE  Inv'
<1>1. /\ job.pc = "prefill" /\ cfg.vision /\ resident' = NoRecords
      /\ \/ kv' = [EmptyKv EXCEPT ![0] = job.tokens] /\ ToDecode(active)
         \/ /\ \E part \in Partial(job.tokens) : kv' = [EmptyKv EXCEPT ![0] = part]
            /\ job' = Idle
      /\ UNCHANGED <<cfg, conv, pool, assigned, order, active, cache, lru, saved>>
  BY DEF GenerateMultimodal, poolVars
<1>2. /\ job.tokens \in Seq(Tok) /\ Types /\ active \in Seqs /\ active \in Slots
  BY <1>1, PromptFacts, Geometry DEF Inv, Types
<1>3. active = 0
  BY <1>1 DEF Inv, Sound, Alone
<1>4. resident' \in [Slots -> Seq(Tok)] /\ \A q \in Slots : resident'[q] = <<>>
  BY <1>1, NothingFacts DEF NoRecords
<1>5. PICK k \in Seq(Tok) :
         /\ kv' = [EmptyKv EXCEPT ![0] = k]
         /\ job' = Idle \/ (ToDecode(active) /\ k = job.tokens)
  BY <1>1, <1>2, PartialFacts
<1>6. /\ kv' \in [Seqs -> Seq(Tok)] /\ kv'[active] = k
      /\ \A q \in Seqs : q # active => kv'[q] = <<>>
  BY <1>2, <1>3, <1>5, NothingFacts DEF EmptyKv
<1>7. Types' /\ Sound(cfg)' /\ Pool' /\ Alone' /\ Jobs' /\ KvIsPrompt' /\ RecordTrue'
  BY <1>1, <1>2, <1>4, <1>5, <1>6, PrefillStep
<1> QED BY <1>1, <1>7 DEF Inv, CacheTrue

(***************************************************************************)
(* The pool of slots.                                                      *)
(***************************************************************************)
\* A session that is touched is in the order once.
LEMMA TouchFacts ==
    ASSUME order \in Seq(Sessions), Distinct(order), NEW s \in Sessions
    PROVE  /\ Touch(s) \in Seq(Sessions) /\ Distinct(Touch(s))
           /\ \A u \in Sessions : Has(Touch(s), u) <=> u = s \/ Has(order, u)
<1> DEFINE r == RemoveFirst(order, s)
           o == Append(r, s)
<1>1. /\ r \in Seq(Sessions)
      /\ \A i \in 1 .. Len(r) : \E j \in 1 .. Len(order) : r[i] = order[j]
      /\ \A j \in 1 .. Len(order) : order[j] # s =>
            \E i \in 1 .. Len(r) : r[i] = order[j]
      /\ \A i, j \in 1 .. Len(r) : r[i] = r[j] => i = j
      /\ \A i \in 1 .. Len(r) : r[i] # s
  BY RemoveFacts DEF Distinct
<1> HIDE DEF r
<1>2. /\ o \in Seq(Sessions) /\ Len(o) = Len(r) + 1 /\ o[Len(r) + 1] = s
      /\ \A i \in 1 .. Len(r) : o[i] = r[i]
  BY <1>1, AppendProperties
<1>3. Len(r) \in Nat
  BY <1>1, LenProperties
<1>4. Touch(s) = o
  BY DEF Touch, r
<1> HIDE DEF o
<1>5. \A i \in 1 .. Len(o) : i \in 1 .. Len(r) \/ i = Len(r) + 1
  BY <1>2, <1>3
<1>6. Distinct(o)
  BY <1>1, <1>2, <1>5 DEF Distinct
<1>7. ASSUME NEW u \in Sessions
      PROVE  Has(o, u) <=> u = s \/ Has(order, u)
  <2>1. Len(r) + 1 \in 1 .. Len(o) /\ \A i \in 1 .. Len(r) : i \in 1 .. Len(o)
    BY <1>2, <1>3
  <2>2. ASSUME Has(o, u), u # s PROVE Has(order, u)
    <3>1. PICK i \in 1 .. Len(o) : o[i] = u
      BY <2>2 DEF Has
    <3>2. i \in 1 .. Len(r) /\ r[i] = u
      BY <1>2, <1>5, <2>2, <3>1
    <3> QED BY <1>1, <3>2 DEF Has
  <2>3. ASSUME u = s PROVE Has(o, u)
    BY <1>2, <2>1, <2>3 DEF Has
  <2>4. ASSUME Has(order, u), u # s PROVE Has(o, u)
    <3>1. PICK j \in 1 .. Len(order) : order[j] = u
      BY <2>4 DEF Has
    <3>2. PICK i \in 1 .. Len(r) : r[i] = u
      BY <1>1, <2>4, <3>1
    <3> QED BY <1>2, <2>1, <3>2 DEF Has
  <2> QED BY <2>2, <2>3, <2>4
<1> QED BY <1>2, <1>4, <1>6, <1>7

\* A session that is forgotten is not in the order any more.
LEMMA DropFacts ==
    ASSUME order \in Seq(Sessions), Distinct(order), NEW s \in Sessions
    PROVE  /\ RemoveFirst(order, s) \in Seq(Sessions)
           /\ Distinct(RemoveFirst(order, s))
           /\ \A u \in Sessions :
                 Has(RemoveFirst(order, s), u) <=> u # s /\ Has(order, u)
<1> DEFINE r == RemoveFirst(order, s)
<1>1. /\ r \in Seq(Sessions)
      /\ \A i \in 1 .. Len(r) : \E j \in 1 .. Len(order) : r[i] = order[j]
      /\ \A j \in 1 .. Len(order) : order[j] # s =>
            \E i \in 1 .. Len(r) : r[i] = order[j]
      /\ \A i, j \in 1 .. Len(r) : r[i] = r[j] => i = j
      /\ \A i \in 1 .. Len(r) : r[i] # s
  BY RemoveFacts DEF Distinct
<1> HIDE DEF r
<1>2. Distinct(r)
  BY <1>1 DEF Distinct
<1>3. ASSUME NEW u \in Sessions
      PROVE  Has(r, u) <=> u # s /\ Has(order, u)
  <2>1. ASSUME Has(r, u) PROVE u # s /\ Has(order, u)
    <3>1. PICK i \in 1 .. Len(r) : r[i] = u
      BY <2>1 DEF Has
    <3> QED BY <1>1, <3>1 DEF Has
  <2>2. ASSUME u # s, Has(order, u) PROVE Has(r, u)
    <3>1. PICK j \in 1 .. Len(order) : order[j] = u
      BY <2>2 DEF Has
    <3> QED BY <1>1, <2>2, <3>1 DEF Has
  <2> QED BY <2>1, <2>2
<1> QED BY <1>1, <1>2, <1>3 DEF r

\* acquire gives a session a slot of its own.
LEMMA BindFacts ==
    ASSUME Inv, job = Idle, UNCHANGED cfg, NEW s \in cfg.keys, BindSessionSlot(s)
    PROVE  /\ active' \in Slots
           /\ pool' \in Nat /\ pool' - 1 \in Slots
           /\ kv' \in [Seqs -> Seq(Tok)] /\ resident' \in [Slots -> Seq(Tok)]
           /\ Pool' /\ RecordTrue'
           /\ OneSession(cfg) =>
                 /\ active' = 0 /\ UNCHANGED kv
                 /\ \A q \in Slots : resident'[q] \in {resident[q], <<>>}
                 /\ \A u \in Sessions : assigned'[u] = NoSlot
                                        \/ (assigned'[u] = 0 /\ u \in cfg.keys)
<1>1. /\ cfg \in ConfigType /\ 0 \in Slots /\ NoSlot \notin Slots
      /\ Slots \subseteq {0, 1, 2} /\ Slots \subseteq Seqs
      /\ Pooled => NSeqMax(cfg) # 1
      /\ NSeqMax(cfg) \in Nat /\ NSeqMax(cfg) - 1 \in Slots
      /\ pool \in Nat /\ pool - 1 \in Slots
  BY Geometry DEF Inv, Types, Pooled
<1>2. s \in Sessions
  BY <1>1 DEF ConfigType
<1>3. Slots' = Slots
  BY DEF Slots, NSeqMax
<1>4. /\ kv \in [Seqs -> Seq(Tok)] /\ resident \in [Slots -> Seq(Tok)] /\ RecordTrue
      /\ Types
  BY DEF Inv, Types
<1>5. /\ assigned \in [Sessions -> Slots \cup {NoSlot}]
      /\ order \in Seq(Sessions)
      /\ Distinct(order)
      /\ \A u \in Sessions : assigned[u] # NoSlot <=> Has(order, u)
      /\ \A u, t \in Sessions :
            assigned[u] = assigned[t] /\ assigned[u] # NoSlot => u = t
  BY DEF Inv, Pool
<1>6. OneSession(cfg) =>
         \A u \in Sessions : assigned[u] = NoSlot \/ (assigned[u] = 0 /\ u \in cfg.keys)
  BY DEF Inv, Alone
<1>7. OneSession(cfg) /\ Pooled => \A u \in cfg.keys : u = s
  BY <1>1 DEF OneSession
<1>8. RecordTrue' \/ ~UNCHANGED <<kv, resident>>
  BY <1>3, <1>4 DEF RecordTrue
<1>9. CASE /\ pool' = NSeqMax(cfg) /\ active' = 0
           /\ assigned' = [r \in Sessions |-> IF r = s THEN 0 ELSE NoSlot]
           /\ order' = <<s>> /\ resident' = NoRecords /\ UNCHANGED kv
  <2>1. /\ resident' \in [Slots -> Seq(Tok)] /\ \A q \in Slots : resident'[q] = <<>>
    BY <1>9, NothingFacts DEF NoRecords
  <2>2. RecordTrue'
    BY <1>1, <1>4, <1>9, <2>1, KeepRecords
  <2>3. Pool'
    <3>1. /\ <<s>> \in Seq(Sessions) /\ Len(<<s>>) = 1 /\ <<s>>[1] = s
      BY <1>2
    <3>2. Distinct(order)' /\ \A u \in Sessions : Has(order, u)' <=> u = s
      BY <1>9, <3>1 DEF Distinct, Has
    <3>3. \A u \in Sessions : assigned'[u] = IF u = s THEN 0 ELSE NoSlot
      BY <1>9
    <3> QED BY <1>1, <1>3, <1>9, <3>1, <3>2, <3>3 DEF Pool
  <2> QED BY <1>1, <1>2, <1>4, <1>9, <2>1, <2>2, <2>3
<1>10. CASE NSeqMax(cfg) = 1 /\ active' = 0 /\ UNCHANGED <<pool, assigned, order, kv, resident>>
  <2>1. active' = 0 /\ UNCHANGED <<pool, assigned, order, kv, resident>>
    BY <1>10
  <2>2. Pool'
    BY <1>3, <1>5, <2>1 DEF Pool
  <2> QED BY <1>1, <1>4, <1>6, <1>8, <2>1, <2>2
<1>11. CASE /\ Pooled /\ assigned[s] # NoSlot /\ active' = assigned[s]
            /\ order' = Touch(s) /\ UNCHANGED <<pool, assigned, kv, resident>>
  <2>1. active' = assigned[s] /\ order' = Touch(s) /\ UNCHANGED <<pool, assigned, kv, resident>>
    BY <1>11
  <2>2. /\ order' \in Seq(Sessions) /\ Distinct(order')
        /\ \A u \in Sessions : Has(order', u) <=> u = s \/ Has(order, u)
    BY <1>2, <1>5, <2>1, TouchFacts
  <2>3. Pool'
    BY <1>2, <1>3, <1>5, <1>11, <2>1, <2>2 DEF Pool
  <2> QED BY <1>1, <1>2, <1>4, <1>5, <1>6, <1>8, <1>11, <2>1, <2>3
<1>12. CASE /\ Pooled /\ assigned[s] = NoSlot /\ FreeSlots # {}
            /\ active' = Min(FreeSlots) /\ assigned' = [assigned EXCEPT ![s] = active']
            /\ order' = Touch(s) /\ UNCHANGED <<pool, kv, resident>>
  <2>1. /\ active' = Min(FreeSlots) /\ assigned' = [assigned EXCEPT ![s] = active']
        /\ order' = Touch(s) /\ UNCHANGED <<pool, kv, resident>>
    BY <1>12
  <2>2. /\ FreeSlots \subseteq Slots
        /\ \A u \in Sessions : assigned[u] \notin FreeSlots
    BY DEF FreeSlots
  <2>3. active' \in FreeSlots /\ \A y \in FreeSlots : active' <= y
    <3>1. FreeSlots \in SUBSET Nat
      BY <1>1, <2>2
    <3>2. FreeSlots # {} /\ active' = Min(FreeSlots)
      BY <1>12
    <3> DEFINE T == FreeSlots
    <3>3. T \in SUBSET Nat /\ T # {} /\ active' = Min(T)
      BY <3>1, <3>2
    <3> HIDE DEF T
    <3>4. Min(T) \in T /\ \A y \in T : Min(T) <= y
      BY <3>3, MinFacts
    <3>5. active' \in T /\ \A y \in T : active' <= y
      BY <3>3, <3>4, Zenon
    <3> QED BY <3>5 DEF T
  <2>4. Pool'
    <3>1. assigned' \in [Sessions -> Slots \cup {NoSlot}]
      BY <1>5, <2>1, <2>2, <2>3
    <3>2. \A u, t \in Sessions :
             assigned'[u] = assigned'[t] /\ assigned'[u] # NoSlot => u = t
      BY <1>2, <1>5, <2>1, <2>2, <2>3
    <3>3. \A u \in Sessions : assigned'[u] # NoSlot <=> u = s \/ assigned[u] # NoSlot
      BY <1>1, <1>2, <1>5, <2>1, <2>2, <2>3
    <3>4. /\ order' \in Seq(Sessions) /\ Distinct(order')
          /\ \A u \in Sessions : Has(order', u) <=> u = s \/ Has(order, u)
      BY <1>2, <1>5, <2>1, TouchFacts
    <3> QED BY <1>3, <1>5, <3>1, <3>2, <3>3, <3>4 DEF Pool
  <2>5. ASSUME OneSession(cfg)
        PROVE  /\ active' = 0
               /\ \A u \in Sessions : assigned'[u] = NoSlot
                                      \/ (assigned'[u] = 0 /\ u \in cfg.keys)
    <3>1. \A u \in Sessions : assigned[u] = NoSlot
      BY <1>6, <1>7, <1>12, <2>5
    <3>2. 0 \in FreeSlots
      BY <1>1, <3>1 DEF FreeSlots
    <3>3. active' = 0
      BY <1>1, <2>2, <2>3, <3>2
    <3> QED BY <1>2, <1>5, <2>1, <3>1, <3>3
  <2> QED BY <1>1, <1>4, <1>8, <2>1, <2>2, <2>3, <2>4, <2>5
<1> DEFINE v == Head(order)
<1>13. CASE /\ Pooled /\ assigned[s] = NoSlot /\ FreeSlots = {}
            /\ active' = assigned[v]
            /\ assigned' = [assigned EXCEPT ![v] = NoSlot, ![s] = active']
            /\ order' = Append(Tail(order), s) /\ UNCHANGED pool
            /\ \/ UNCHANGED <<kv, resident>>
               \/ /\ kv' = [kv EXCEPT ![active'] = <<>>]
                  /\ resident' = [resident EXCEPT ![active'] = <<>>]
  <2>1. /\ active' = assigned[v]
        /\ assigned' = [assigned EXCEPT ![v] = NoSlot, ![s] = active']
        /\ order' = Append(Tail(order), s) /\ UNCHANGED pool
        /\ \/ UNCHANGED <<kv, resident>>
           \/ /\ kv' = [kv EXCEPT ![active'] = <<>>]
              /\ resident' = [resident EXCEPT ![active'] = <<>>]
    BY <1>13
  <2>2. PICK u \in Sessions : assigned[u] = 0
    BY <1>1, <1>13 DEF FreeSlots
  <2>3. Len(order) \in Nat /\ Len(order) > 0 /\ order # <<>>
    <3>1. Has(order, u)
      BY <1>1, <1>5, <2>2
    <3>2. Len(order) \in Nat /\ Len(<<>>) = 0
      BY <1>5, LenProperties
    <3> QED BY <3>1, <3>2 DEF Has
  <2>4. v = order[1] /\ 1 \in 1 .. Len(order) /\ v \in Sessions
    BY <1>5, <2>3
  <2>5. assigned[v] \in Slots /\ v # s
    <3>1. Has(order, v)
      BY <2>4 DEF Has
    <3> QED BY <1>5, <1>13, <2>4, <3>1
  <2>6. ~OneSession(cfg)
    BY <1>1, <1>6, <1>7, <1>13, <2>2
  <2>7. /\ Tail(order) \in Seq(Sessions) /\ Len(Tail(order)) = Len(order) - 1
        /\ \A i \in 1 .. Len(order) - 1 : Tail(order)[i] = order[i + 1]
    BY <1>5, <2>3, HeadTailProperties
  <2>8. /\ order' \in Seq(Sessions) /\ Len(order') = Len(order)
        /\ order'[Len(order)] = s
        /\ \A i \in 1 .. Len(order) - 1 : order'[i] = order[i + 1]
    <3> DEFINE t == Tail(order)
    <3> HIDE DEF t
    <3>1. /\ Append(t, s) \in Seq(Sessions) /\ Len(Append(t, s)) = Len(t) + 1
          /\ Append(t, s)[Len(t) + 1] = s
          /\ \A i \in 1 .. Len(t) : Append(t, s)[i] = t[i]
      BY <1>2, <2>7, AppendProperties DEF t
    <3>2. order' = Append(t, s) /\ Len(t) + 1 = Len(order) /\ Len(t) = Len(order) - 1
      BY <2>1, <2>3, <2>7 DEF t
    <3> QED BY <2>7, <3>1, <3>2 DEF t
  <2> HIDE DEF v
  <2>9. \A i \in 1 .. Len(order) : order[i] # s
    BY <1>2, <1>5, <1>13 DEF Has
  <2>10. \A i \in 1 .. Len(order) : i = Len(order) \/ (i \in 1 .. Len(order) - 1
                                                      /\ i + 1 \in 1 .. Len(order))
    BY <2>3
  <2>11. Distinct(order')
    <3> SUFFICES ASSUME NEW i \in 1 .. Len(order), NEW j \in 1 .. Len(order),
                        order'[i] = order'[j]
                 PROVE  i = j
      BY <2>8 DEF Distinct
    <3>1. CASE i = Len(order) \/ j = Len(order)
      BY <2>8, <2>9, <2>10, <3>1
    <3>2. CASE i # Len(order) /\ j # Len(order)
      <4>1. order[i + 1] = order[j + 1] /\ i + 1 \in 1 .. Len(order)
            /\ j + 1 \in 1 .. Len(order)
        BY <2>8, <2>10, <3>2
      <4>2. i + 1 = j + 1
        BY <1>5, <4>1 DEF Distinct
      <4> QED BY <4>2
    <3> QED BY <3>1, <3>2
  <2>12. \A t \in Sessions : assigned'[t] = IF t = s THEN active'
                                            ELSE IF t = v THEN NoSlot ELSE assigned[t]
    BY <1>2, <1>5, <2>1, <2>4
  <2>13. ASSUME NEW t \in Sessions
         PROVE  assigned'[t] # NoSlot <=> Has(order', t)
    <3>1. CASE t = s
      <4>1. Has(order', s)
        <5>1. Len(order) \in 1 .. Len(order')
          BY <2>3, <2>8
        <5> QED BY <2>8, <5>1 DEF Has
      <4> QED BY <1>1, <2>1, <2>5, <2>12, <3>1, <4>1
    <3>2. CASE t = v
      <4>1. \A i \in 1 .. Len(order) : order'[i] # v
        <5> SUFFICES ASSUME NEW i \in 1 .. Len(order), order'[i] = v PROVE FALSE
          OBVIOUS
        <5>1. CASE i = Len(order)
          BY <2>5, <2>8, <5>1
        <5>2. CASE i # Len(order)
          <6>1. order[i + 1] = order[1] /\ i + 1 \in 1 .. Len(order)
            BY <2>4, <2>8, <2>10, <5>2
          <6>2. i + 1 = 1
            BY <1>5, <2>4, <6>1 DEF Distinct
          <6> QED BY <6>2
        <5> QED BY <5>1, <5>2
      <4> QED BY <2>5, <2>8, <2>12, <3>2, <4>1 DEF Has
    <3>3. CASE t # s /\ t # v
      <4>1. assigned'[t] # NoSlot <=> Has(order, t)
        BY <1>5, <2>12, <3>3
      <4>2. ASSUME NEW i \in 1 .. Len(order), order[i] = t
            PROVE  \E j \in 1 .. Len(order) : order'[j] = t
        <5>1. i # 1
          BY <2>4, <3>3, <4>2
        <5>2. i - 1 \in 1 .. Len(order) - 1 /\ (i - 1) + 1 = i /\ i - 1 \in 1 .. Len(order)
          BY <2>3, <5>1
        <5> QED BY <2>8, <4>2, <5>2
      <4>3. ASSUME NEW i \in 1 .. Len(order), order'[i] = t
            PROVE  \E j \in 1 .. Len(order) : order[j] = t
        BY <2>8, <2>10, <3>3, <4>3
      <4> QED BY <2>8, <4>1, <4>2, <4>3 DEF Has
    <3> QED BY <3>1, <3>2, <3>3
  <2>14. Pool'
    <3>1. assigned' \in [Sessions -> Slots \cup {NoSlot}]
      BY <1>5, <2>1, <2>5
    <3>2. \A a, b \in Sessions :
             assigned'[a] = assigned'[b] /\ assigned'[a] # NoSlot => a = b
      BY <1>1, <1>5, <2>1, <2>4, <2>5, <2>12
    <3> QED BY <1>3, <2>8, <2>11, <2>13, <3>1, <3>2 DEF Pool
  <2>15. /\ kv' \in [Seqs -> Seq(Tok)] /\ resident' \in [Slots -> Seq(Tok)]
         /\ \A q \in Slots : \/ kv'[q] = <<>>
                             \/ kv'[q] = kv[q] /\ resident'[q] = resident[q]
    <3>1. CASE UNCHANGED <<kv, resident>>
      BY <1>4, <3>1
    <3>2. CASE /\ kv' = [kv EXCEPT ![active'] = <<>>]
               /\ resident' = [resident EXCEPT ![active'] = <<>>]
      <4>1. active' \in Slots /\ active' \in Seqs
        BY <1>1, <2>1, <2>5
      <4> QED BY <1>1, <1>4, <3>2, <4>1, NothingFacts
    <3> QED BY <2>1, <3>1, <3>2
  <2>16. RecordTrue'
    BY <1>1, <1>4, <2>15, KeepRecords
  <2> QED BY <1>1, <2>1, <2>5, <2>6, <2>14, <2>15, <2>16
<1> QED BY <1>9, <1>10, <1>11, <1>12, <1>13 DEF BindSessionSlot

(***************************************************************************)
(* Calls that generate.                                                    *)
(***************************************************************************)
\* Tokens that follow leave the start of a sequence.
LEMMA ConcatFacts ==
    ASSUME NEW a \in Seq(Tok), NEW b \in Seq(Tok)
    PROVE  /\ a \o b \in Seq(Tok) /\ Len(a \o b) = Len(a) + Len(b)
           /\ Len(a) \in Nat /\ Len(b) \in Nat
           /\ \A i \in 1 .. Len(a) : (a \o b)[i] = a[i]
<1>1. /\ a \o b \in Seq(Tok) /\ Len(a \o b) = Len(a) + Len(b)
      /\ \A i \in 1 .. Len(a) + Len(b) :
            (a \o b)[i] = IF i <= Len(a) THEN a[i] ELSE b[i - Len(a)]
  BY ConcatProperties
<1>2. Len(a) \in Nat /\ Len(b) \in Nat
  BY LenProperties
<1>3. \A i \in 1 .. Len(a) : i \in 1 .. Len(a) + Len(b) /\ i <= Len(a)
  BY <1>2
<1> QED BY <1>1, <1>2, <1>3

\* A user's turn behind a conversation.
LEMMA TurnFacts ==
    ASSUME NEW c \in Seq(Tok), c = <<>> \/ (Len(c) > 0 /\ c[1] = "user"),
           NEW w \in Words
    PROVE  /\ UserTurn(w) \in Seq(Tok) /\ Len(UserTurn(w)) = 2
           /\ UserTurn(w)[1] = "user"
           /\ c \o UserTurn(w) \in Seq(Tok) /\ Len(c \o UserTurn(w)) >= 2
           /\ (c \o UserTurn(w))[1] = "user"
<1> DEFINE u == UserTurn(w)
<1>1. u \in Seq(Tok) /\ Len(u) = 2 /\ u[1] = "user"
  BY DEF UserTurn, Tok
<1> HIDE DEF u
<1>2. /\ c \o u \in Seq(Tok) /\ Len(c \o u) = Len(c) + Len(u)
      /\ Len(c) \in Nat /\ \A i \in 1 .. Len(c) : (c \o u)[i] = c[i]
  BY <1>1, ConcatFacts
<1>3. CASE c = <<>>
  <2>1. c \o u = u
    BY <1>1, <1>3, ConcatEmptySeq
  <2> QED BY <1>1, <2>1 DEF u
<1>4. CASE Len(c) > 0 /\ c[1] = "user"
  <2>1. 1 \in 1 .. Len(c) /\ Len(c) + 2 >= 2
    BY <1>2, <1>4
  <2> QED BY <1>1, <1>2, <1>4, <2>1 DEF u
<1> QED BY <1>3, <1>4

\* A rendered prompt opens with the system prompt and a user's header.
LEMMA RenderFacts ==
    ASSUME Types, NEW s \in Sessions, NEW sys \in Systems, NEW w \in Words
    PROVE  LET t == Render(cfg, sys, Messages(s, sys, w)) IN
              /\ t \in Seq(Tok) /\ Len(t) > 2
              /\ t[1] = sys /\ t[2] = "user"
<1> DEFINE m == Messages(s, sys, w)
           g == GenPrompt(cfg)
<1>1. <<sys>> \in Seq(Tok) /\ Len(<<sys>>) = 1 /\ <<sys>>[1] = sys
  BY DEF Tok, Systems
<1>2. g \in Seq(Tok) /\ Len(g) >= 1
  <2>1. g = <<"assistant">> \/ g = <<"assistant", "think">>
    BY DEF GenPrompt
  <2>2. <<"assistant">> \in Seq(Tok) /\ Len(<<"assistant">>) >= 1
    BY DEF Tok
  <2>3. <<"assistant", "think">> \in Seq(Tok) /\ Len(<<"assistant", "think">>) >= 1
    BY DEF Tok
  <2> HIDE DEF g
  <2> QED BY <2>1, <2>2, <2>3
<1>3. m \in Seq(Tok) /\ Len(m) >= 2 /\ m[1] = "user"
  <2>1. m = conv[s] \o UserTurn(w) \/ m = UserTurn(w)
    BY DEF Messages
  <2>2. /\ conv[s] \in Seq(Tok)
        /\ conv[s] = <<>> \/ (Len(conv[s]) > 0 /\ conv[s][1] = "user")
    BY DEF Types
  <2>3. /\ UserTurn(w) \in Seq(Tok) /\ Len(UserTurn(w)) = 2
        /\ UserTurn(w)[1] = "user"
        /\ conv[s] \o UserTurn(w) \in Seq(Tok) /\ Len(conv[s] \o UserTurn(w)) >= 2
        /\ (conv[s] \o UserTurn(w))[1] = "user"
    BY <2>2, TurnFacts
  <2>4. 2 >= 2
    OBVIOUS
  <2> HIDE DEF m
  <2> QED BY <2>1, <2>3, <2>4
<1> HIDE DEF m, g
<1>4. Len(m) \in Nat /\ Len(g) \in Nat
  BY <1>2, <1>3, LenProperties
<1> DEFINE a == <<sys>> \o m
<1>5. /\ a \in Seq(Tok) /\ Len(a) = 1 + Len(m)
      /\ \A i \in 1 .. 1 + Len(m) :
            a[i] = IF i <= 1 THEN <<sys>>[i] ELSE m[i - 1]
  BY <1>1, <1>3, ConcatProperties
<1> HIDE DEF a
<1>6. a[1] = sys /\ a[2] = "user" /\ Len(a) \in Nat /\ Len(a) >= 3
  <2>1. 1 \in 1 .. 1 + Len(m) /\ 2 \in 1 .. 1 + Len(m) /\ ~(2 <= 1) /\ 2 - 1 = 1
    BY <1>3, <1>4
  <2> QED BY <1>1, <1>3, <1>4, <1>5, <2>1
<1>7. /\ a \o g \in Seq(Tok) /\ Len(a \o g) = Len(a) + Len(g)
      /\ \A i \in 1 .. Len(a) + Len(g) :
            (a \o g)[i] = IF i <= Len(a) THEN a[i] ELSE g[i - Len(a)]
  BY <1>2, <1>5, ConcatProperties
<1>8. /\ (a \o g)[1] = sys /\ (a \o g)[2] = "user" /\ Len(a \o g) > 2
  <2>1. 1 \in 1 .. Len(a) + Len(g) /\ 2 \in 1 .. Len(a) + Len(g)
        /\ 1 <= Len(a) /\ 2 <= Len(a) /\ Len(a) + Len(g) > 2
    BY <1>4, <1>6
  <2> QED BY <1>6, <1>7, <2>1
<1>9. Render(cfg, sys, Messages(s, sys, w)) = a \o g
  BY DEF Render, a, m, g
<1> QED BY <1>7, <1>8, <1>9

\* A call that binds its session's slot keeps the invariant.
LEMMA BeginBoundStep ==
    ASSUME Inv, NEW s \in cfg.keys, NEW sys \in Systems, NEW w \in Words,
           BeginBound(s, sys, w)
    PROVE  Inv'
<1> DEFINE t == Render(cfg, sys, Messages(s, sys, w))
           j == [pc |-> "prefill", key |-> s, sys |-> sys, word |-> w, tokens |-> t,
                 bound |-> TRUE]
<1>1. /\ job = Idle /\ BindSessionSlot(s) /\ (job' = Idle \/ job' = j)
      /\ UNCHANGED <<cfg, conv, cache, lru, saved>>
  BY DEF BeginBound, BeginCall, Generate
<1>2. s \in Sessions /\ Types /\ Slots' = Slots
  BY <1>1, Geometry DEF Inv, Types, ConfigType, Slots, NSeqMax
<1>3. t \in Seq(Tok) /\ Len(t) > 2 /\ t[1] = sys /\ t[2] = "user"
  BY <1>2, RenderFacts
<1> HIDE DEF t
<1>4. /\ active' \in Slots /\ pool' \in Nat /\ pool' - 1 \in Slots
      /\ kv' \in [Seqs -> Seq(Tok)] /\ resident' \in [Slots -> Seq(Tok)]
      /\ Pool' /\ RecordTrue'
      /\ OneSession(cfg) =>
            /\ active' = 0 /\ UNCHANGED kv
            /\ \A q \in Slots : resident'[q] \in {resident[q], <<>>}
            /\ \A u \in Sessions : assigned'[u] = NoSlot
                                   \/ (assigned'[u] = 0 /\ u \in cfg.keys)
  BY <1>1, BindFacts
<1>5. Types' /\ Sound(cfg)'
  BY <1>1, <1>2, <1>4 DEF Inv, Types, Sound, OneSession, NSeqMax
<1>6. Jobs' /\ KvIsPrompt' /\ job'.pc # "batch"
  <2>1. CASE job' = Idle
    BY <2>1 DEF Jobs, KvIsPrompt, Idle
  <2>2. CASE job' = j
    <3>1. j \in Prefilling /\ j.pc = "prefill" /\ j.tokens = t /\ j.sys = sys
      BY <1>2, <1>3 DEF Prefilling
    <3> HIDE DEF j
    <3> QED BY <1>3, <2>2, <3>1 DEF Jobs, KvIsPrompt
  <2> QED BY <1>1, <2>1, <2>2
<1>7. Alone'
  <2> SUFFICES ASSUME OneSession(cfg)' PROVE Alone'
    BY DEF Alone
  <2>1. OneSession(cfg)
    BY <1>1 DEF OneSession, NSeqMax
  <2>2. /\ \A q \in Slots : q # 0 => resident[q] = <<>>
        /\ \A q \in Slots \cup {1, 2} : q # 0 => kv[q] = <<>>
    BY <1>1, <2>1 DEF Inv, Alone, Idle
  <2> QED BY <1>1, <1>2, <1>4, <2>1, <2>2 DEF Alone
<1>8. CacheTrue'
  BY <1>1 DEF Inv, CacheTrue
<1> QED BY <1>4, <1>5, <1>6, <1>7, <1>8 DEF Inv

\* So does one that runs in the slot the last call left.
LEMMA BeginUnboundStep ==
    ASSUME Inv, NEW s \in cfg.keys, NEW sys \in Systems, NEW w \in Words,
           BeginUnbound(s, sys, w)
    PROVE  Inv'
<1> DEFINE t == Render(cfg, sys, Messages(s, sys, w))
           j == [pc |-> "prefill", key |-> s, sys |-> sys, word |-> w, tokens |-> t,
                 bound |-> FALSE]
<1>1. /\ job = Idle /\ (job' = Idle \/ job' = j)
      /\ UNCHANGED <<cfg, conv, kv, resident, pool, assigned, order, active, cache, lru, saved>>
  BY DEF BeginUnbound, BeginCall, Generate, poolVars
<1>2. s \in Sessions /\ Types /\ Slots' = Slots
  BY <1>1, Geometry DEF Inv, Types, ConfigType, Slots, NSeqMax
<1>3. t \in Seq(Tok) /\ Len(t) > 2 /\ t[1] = sys /\ t[2] = "user"
  BY <1>2, RenderFacts
<1> HIDE DEF t
<1>4. /\ Types' /\ Sound(cfg)' /\ CacheTrue' /\ RecordTrue'
  BY <1>1, <1>2 DEF Inv, Types, Sound, OneSession, NSeqMax, CacheTrue, RecordTrue
<1>5. Pool'
  BY <1>1, <1>2 DEF Inv, Pool, Distinct, Has
<1>6. Jobs' /\ KvIsPrompt' /\ job'.pc # "batch"
  <2>1. CASE job' = Idle
    BY <2>1 DEF Jobs, KvIsPrompt, Idle
  <2>2. CASE job' = j
    <3>1. j \in Prefilling /\ j.pc = "prefill" /\ j.tokens = t /\ j.sys = sys
      BY <1>2, <1>3 DEF Prefilling
    <3> HIDE DEF j
    <3> QED BY <1>3, <2>2, <3>1 DEF Jobs, KvIsPrompt
  <2> QED BY <1>1, <2>1, <2>2
<1>7. Alone'
  BY <1>1, <1>2, <1>6 DEF Inv, Alone, OneSession, NSeqMax, Idle
<1> QED BY <1>4, <1>5, <1>6, <1>7 DEF Inv

\* Every sequence empty, no slot recorded.
LEMMA ClearFacts ==
    /\ EmptyKv \in [Seqs -> Seq(Tok)] /\ \A q \in Seqs : EmptyKv[q] = <<>>
    /\ NoRecords \in [Slots -> Seq(Tok)] /\ \A q \in Slots : NoRecords[q] = <<>>
BY NothingFacts DEF EmptyKv, NoRecords

\* A completion is read from the slot the last call left.
LEMMA CompleteStep ==
    ASSUME Inv, NEW w \in Words, Complete(w)
    PROVE  Inv'
<1> DEFINE t == <<w>>
<1>1. /\ job = Idle /\ resident' = NoRecords /\ kv' = Prefilled(t)
      /\ job' = [pc |-> "decode", key |-> "", sys |-> "child", word |-> w,
                 tokens |-> t, seq |-> active]
      /\ UNCHANGED <<cfg, conv, pool, assigned, order, active, cache, lru, saved>>
  BY DEF Complete, BeginCall, poolVars
<1>2. t \in Seq(Tok) /\ Len(t) = 1
  BY DEF Tok
<1> HIDE DEF t
<1>3. /\ Types /\ active \in Slots /\ Slots \subseteq Seqs /\ Slots' = Slots
      /\ {0, 1, 2} \subseteq Seqs
  BY <1>1, Geometry DEF Inv, Types, Slots, NSeqMax
<1>4. /\ kv' \in [Seqs -> Seq(Tok)] /\ kv'[active] = t
      /\ \A q \in Seqs : q # active => kv'[q] \in {kv[q], <<>>}
  BY <1>1, <1>2, <1>3, PrefilledFacts
<1>5. resident' \in [Slots -> Seq(Tok)] /\ \A q \in Slots : resident'[q] = <<>>
  BY <1>1, ClearFacts
<1>6. Types' /\ Sound(cfg)' /\ Pool' /\ CacheTrue'
  BY <1>1, <1>3, <1>4, <1>5 DEF Inv, Types, Pool, CacheTrue, Sound, OneSession,
     NSeqMax
<1>7. RecordTrue'
  BY <1>1, <1>3, <1>4, <1>5, KeepRecords DEF Inv
<1>8. /\ job'.pc = "decode" /\ job'.seq = active /\ job'.word = w
      /\ job'.tokens = t /\ job'.sys = "child"
  BY <1>1
<1>9. OneSession(cfg)' => OneSession(cfg) /\ active = 0
  BY <1>1 DEF Inv, Alone, OneSession, NSeqMax
<1>10. Jobs' /\ KvIsPrompt'
  <2>0. cfg' = cfg
    BY <1>1
  <2>1. Len(t) > 0
    BY <1>2
  <2>2. Jobs'
    BY <1>2, <1>3, <1>8, <1>9, <2>0, <2>1 DEF Jobs
  <2>3. KvIsPrompt'
    BY <1>4, <1>8 DEF KvIsPrompt
  <2> QED BY <2>2, <2>3
<1>11. Alone'
  <2> SUFFICES ASSUME OneSession(cfg)' PROVE Alone'
    BY DEF Alone
  <2>1. OneSession(cfg) /\ active = 0
    BY <1>9
  <2>2. /\ \A u \in Sessions : assigned[u] = NoSlot
                               \/ (assigned[u] = 0 /\ u \in cfg.keys)
        /\ \A q \in Slots \cup {1, 2} : q # 0 => kv[q] = <<>>
    BY <1>1, <2>1 DEF Inv, Alone, Idle
  <2>3. \A q \in Slots \cup {1, 2} : q # 0 => kv'[q] = <<>>
    BY <1>3, <1>4, <2>1, <2>2
  <2> QED BY <1>1, <1>3, <1>5, <2>1, <2>2, <2>3 DEF Alone
<1> QED BY <1>6, <1>7, <1>10, <1>11 DEF Inv

\* A decode adds to the cells that hold the prompt.
LEMMA DecodeStep ==
    ASSUME Inv, Decode
    PROVE  Inv'
<1>1. /\ job.pc = "decode" /\ job' = Idle
      /\ kv' = [kv EXCEPT ![job.seq] = kv[job.seq] \o <<Answer>>] \/ UNCHANGED kv
      /\ \/ /\ job.sys = "lead"
            /\ conv' = [conv EXCEPT ![job.key] =
                    (conv[job.key] \o UserTurn(job.word)) \o <<"assistant", Answer>>]
         \/ UNCHANGED conv
      /\ UNCHANGED <<cfg, resident, pool, assigned, order, active, cache, lru, saved>>
  BY DEF Decode, poolVars
<1>2. /\ job.seq \in Slots /\ job.word \in Words
      /\ job.tokens \in Seq(Tok) /\ Len(job.tokens) > 0
      /\ job.sys = "lead" => job.key \in Sessions
      /\ OneSession(cfg) => job.seq = 0
      /\ kv[job.seq] = job.tokens
  BY <1>1 DEF Inv, Jobs, KvIsPrompt
<1>3. /\ Types /\ Slots \subseteq Seqs /\ Slots' = Slots /\ {0, 1, 2} \subseteq Seqs
      /\ kv \in [Seqs -> Seq(Tok)]
  BY <1>1, Geometry DEF Inv, Types, Slots, NSeqMax
<1>4. <<Answer>> \in Seq(Tok)
  BY DEF Tok
<1>5. kv[job.seq] \o <<Answer>> \in Seq(Tok)
  BY <1>2, <1>4, ConcatProperties
<1>6. /\ kv' \in [Seqs -> Seq(Tok)]
      /\ \A q \in Seqs : \/ kv'[q] = kv[q]
                         \/ q = job.seq /\ kv'[q] = kv[q] \o <<Answer>>
  <2>1. CASE UNCHANGED kv
    BY <1>3, <2>1
  <2>2. CASE kv' = [kv EXCEPT ![job.seq] = kv[job.seq] \o <<Answer>>]
    <3> DEFINE k == kv[job.seq] \o <<Answer>>
    <3> HIDE DEF k
    <3>1. k \in Seq(Tok) /\ kv' = [kv EXCEPT ![job.seq] = k]
      BY <1>5, <2>2 DEF k
    <3>2. /\ kv' \in [Seqs -> Seq(Tok)]
          /\ \A q \in Seqs : kv'[q] = kv[q] \/ (q = job.seq /\ kv'[q] = k)
      BY <1>3, <3>1
    <3> QED BY <3>2 DEF k
  <2> QED BY <1>1, <2>1, <2>2
<1>7. kv[job.seq] # <<>>
  <2>1. Len(<<>>) = 0
    BY EmptySeq
  <2> QED BY <1>2, <2>1
<1>8. RecordTrue'
  <2>1. \A s \in Slots :
           /\ kv'[s] \in Seq(Tok)
           /\ \/ kv'[s] = kv[s] /\ resident'[s] = resident[s]
              \/ /\ kv[s] # <<>> /\ resident'[s] = resident[s]
                 /\ \E t \in Seq(Tok) : kv'[s] = kv[s] \o t
    BY <1>1, <1>3, <1>4, <1>6, <1>7
  <2> QED BY <1>1, <1>3, <2>1, KeepRecords DEF Inv
<1>9. /\ conv' \in [Sessions -> Seq(Tok)]
      /\ \A s \in Sessions : conv'[s] = <<>> \/ (Len(conv'[s]) > 0 /\ conv'[s][1] = "user")
  <2>1. CASE UNCHANGED conv
    BY <1>3, <2>1 DEF Types
  <2>2. CASE /\ job.sys = "lead"
             /\ conv' = [conv EXCEPT ![job.key] =
                    (conv[job.key] \o UserTurn(job.word)) \o <<"assistant", Answer>>]
    <3> DEFINE a == conv[job.key] \o UserTurn(job.word)
               b == a \o <<"assistant", Answer>>
    <3>1. /\ conv[job.key] \in Seq(Tok) /\ job.word \in Words
          /\ \/ conv[job.key] = <<>>
             \/ Len(conv[job.key]) > 0 /\ conv[job.key][1] = "user"
      BY <1>2, <1>3, <2>2 DEF Types
    <3>2. a \in Seq(Tok) /\ Len(a) >= 2 /\ a[1] = "user"
      BY <3>1, TurnFacts
    <3> HIDE DEF a
    <3>3. b \in Seq(Tok) /\ Len(b) > 0 /\ b[1] = "user"
      <4> DEFINE r == <<"assistant", Answer>>
      <4>1. r \in Seq(Tok) /\ Len(r) = 2
        BY DEF Tok
      <4> HIDE DEF r
      <4>2. /\ a \o r \in Seq(Tok) /\ Len(a \o r) = Len(a) + Len(r)
            /\ Len(a) \in Nat /\ \A i \in 1 .. Len(a) : (a \o r)[i] = a[i]
        BY <3>2, <4>1, ConcatFacts
      <4>3. 1 \in 1 .. Len(a) /\ Len(a) + Len(r) > 0
        BY <3>2, <4>1, <4>2
      <4>4. a \o r \in Seq(Tok) /\ Len(a \o r) > 0 /\ (a \o r)[1] = "user"
        BY <3>2, <4>2, <4>3
      <4> QED BY <4>4 DEF r
    <3>4. conv' = [conv EXCEPT ![job.key] = b]
      BY <2>2 DEF a
    <3> HIDE DEF b
    <3> QED BY <1>3, <3>3, <3>4 DEF Types
  <2> QED BY <1>1, <2>1, <2>2
<1>10. Types' /\ Sound(cfg)' /\ Pool' /\ CacheTrue'
  BY <1>1, <1>3, <1>6, <1>9 DEF Inv, Types, Pool, CacheTrue, Sound, OneSession,
     NSeqMax
<1>11. Jobs' /\ KvIsPrompt'
  BY <1>1 DEF Jobs, KvIsPrompt, Idle
<1>12. Alone'
  <2> SUFFICES ASSUME OneSession(cfg)' PROVE Alone'
    BY DEF Alone
  <2>1. OneSession(cfg)
    BY <1>1 DEF OneSession, NSeqMax
  <2>2. /\ active = 0 /\ job.seq = 0
        /\ \A u \in Sessions : assigned[u] = NoSlot
                               \/ (assigned[u] = 0 /\ u \in cfg.keys)
        /\ \A q \in Slots : q # 0 => resident[q] = <<>>
        /\ \A q \in Slots \cup {1, 2} : q # 0 => kv[q] = <<>>
    BY <1>1, <1>2, <2>1 DEF Inv, Alone
  <2>3. \A q \in Slots \cup {1, 2} : q # 0 => kv'[q] = <<>>
    BY <1>3, <1>6, <2>2
  <2> QED BY <1>1, <1>3, <2>2, <2>3 DEF Alone
<1> QED BY <1>8, <1>10, <1>11, <1>12 DEF Inv

\* What a batch's two prompts share is decoded once and copied; each arm ends
\* with its own prompt.
LEMMA BatchPrompts ==
    ASSUME NEW v \in Words, NEW w \in Words
    PROVE  LET p == Render(cfg, "lead", UserTurn(v))
               q == Render(cfg, "lead", UserTurn(w))
               shared == CommonPrefixLen(p, q)
               base == <<>> \o SubSeq(p, 1, shared)
           IN /\ p \in Seq(Tok) /\ q \in Seq(Tok)
              /\ base \o From(p, shared) = p
              /\ <<>> \o FirstOf(base, shared) \o From(q, shared) = q
<1> DEFINE p == Render(cfg, "lead", UserTurn(v))
           q == Render(cfg, "lead", UserTurn(w))
           shared == CommonPrefixLen(p, q)
           b == SubSeq(p, 1, shared)
<1>1. p \in Seq(Tok) /\ q \in Seq(Tok)
  <2>1. <<"lead">> \in Seq(Tok) /\ GenPrompt(cfg) \in Seq(Tok)
    <3>1. /\ <<"lead">> \in Seq(Tok) /\ <<"assistant">> \in Seq(Tok)
          /\ <<"assistant", "think">> \in Seq(Tok)
      BY DEF Tok
    <3> QED BY <3>1 DEF GenPrompt
  <2>2. UserTurn(v) \in Seq(Tok) /\ UserTurn(w) \in Seq(Tok)
    BY DEF UserTurn, Tok
  <2>3. <<"lead">> \o UserTurn(v) \in Seq(Tok) /\ <<"lead">> \o UserTurn(w) \in Seq(Tok)
    BY <2>1, <2>2, ConcatProperties
  <2> QED BY <2>1, <2>3, ConcatProperties DEF Render
<1> HIDE DEF p, q
<1>2. shared \in 0 .. Len(p) /\ shared \in 0 .. Len(q) /\ b = SubSeq(q, 1, shared)
  BY <1>1, CommonPrefixFacts
<1> HIDE DEF shared
<1>3. b \in Seq(Tok) /\ Len(b) = shared /\ b \o From(p, shared) = p
  BY <1>1, <1>2, SplitFacts
<1>4. SubSeq(q, 1, shared) \o From(q, shared) = q
  BY <1>1, <1>2, SplitFacts
<1>5. b \o From(q, shared) = q
  BY <1>2, <1>4
<1>6. <<>> \o b = b
  BY <1>3, ConcatEmptySeq
<1>7. FirstOf(b, shared) = b
  <2>1. Min({shared, Len(b)}) = shared
    BY <1>2, <1>3, MinOfTwo
  <2>2. FirstOf(b, shared) = SubSeq(b, 1, shared)
    BY <2>1 DEF FirstOf
  <2> HIDE DEF b
  <2>3. SubSeq(b, 1, Len(b)) = b
    BY <1>3, SubSeqFull
  <2> QED BY <1>3, <2>2, <2>3
<1>8. /\ (<<>> \o b) \o From(p, shared) = p
      /\ (<<>> \o FirstOf(<<>> \o b, shared)) \o From(q, shared) = q
  <2> HIDE DEF b
  <2> QED BY <1>3, <1>5, <1>6, <1>7
<1> QED BY <1>1, <1>8 DEF p, q, shared, b

\* A batch finds its two sequences empty and leaves a prompt in each.
LEMMA BatchStep ==
    ASSUME Inv, NEW v \in Words, NEW w \in Words, GenerateBatch(v, w)
    PROVE  Inv'
<1>1. /\ job = Idle /\ cfg.parallel >= 2
      /\ UNCHANGED <<cfg, conv, resident, pool, assigned, order, active, cache, lru, saved>>
  BY DEF GenerateBatch, BeginCall, poolVars
<1>2. /\ Types /\ cfg \in ConfigType /\ Slots \subseteq Seqs /\ Slots' = Slots
      /\ {0, 1, 2} \subseteq Seqs /\ kv \in [Seqs -> Seq(Tok)]
  BY <1>1, Geometry DEF Inv, Types, Slots, NSeqMax
<1>3. cfg.parallel > 1
  <2>1. cfg.parallel \in 1 .. 3
    BY <1>2 DEF ConfigType
  <2> QED BY <1>1, <2>1
<1>4. TempSeqBase(cfg) = 1 /\ OneSession(cfg)
  BY <1>2, <1>3, Geometry DEF Inv, Sound, Types
<1>5. /\ active = 0
      /\ \A u \in Sessions : assigned[u] = NoSlot
                             \/ (assigned[u] = 0 /\ u \in cfg.keys)
      /\ \A s \in Slots : s # 0 => resident[s] = <<>>
      /\ \A s \in Slots \cup {1, 2} : s # 0 => kv[s] = <<>>
  BY <1>1, <1>4 DEF Inv, Alone, Idle
<1>6. kv[1] = <<>> /\ kv[2] = <<>>
  BY <1>5
<1> DEFINE p == Render(cfg, "lead", UserTurn(v))
           q == Render(cfg, "lead", UserTurn(w))
           shared == CommonPrefixLen(p, q)
           base(x) == kv[x] \o SubSeq(p, 1, shared)
<1>7. PICK lead \in {1, 2} :
         LET other == 3 - lead IN
         /\ kv' = [kv EXCEPT
                     ![lead] = base(lead) \o From(p, shared),
                     ![other] = @ \o FirstOf(base(lead), shared) \o From(q, shared)]
         /\ job' = [pc |-> "batch", arms |-> [a \in {lead, other} |->
                                                 IF a = lead THEN p ELSE q]]
  <2> DEFINE T == TempSeqBase(cfg)
  <2>1. PICK lead \in {T, T + 1} :
         LET other == 2 * T + 1 - lead IN
         /\ kv' = [kv EXCEPT
                     ![lead] = base(lead) \o From(p, shared),
                     ![other] = @ \o FirstOf(base(lead), shared) \o From(q, shared)]
         /\ job' = [pc |-> "batch", arms |-> [a \in {lead, other} |->
                                                 IF a = lead THEN p ELSE q]]
    BY Zenon DEF GenerateBatch
  <2>2. lead \in {1, 2} /\ 2 * T + 1 - lead = 3 - lead
    BY <1>4
  <2> HIDE DEF T, p, q, shared, base
  <2> QED BY <2>1, <2>2, Zenon
<1>8. /\ p \in Seq(Tok) /\ q \in Seq(Tok)
      /\ base(lead) \o From(p, shared) = p
      /\ kv[3 - lead] \o FirstOf(base(lead), shared) \o From(q, shared) = q
  <2>1. kv[lead] = <<>> /\ kv[3 - lead] = <<>>
    BY <1>6
  <2>2. /\ p \in Seq(Tok) /\ q \in Seq(Tok)
        /\ (<<>> \o SubSeq(p, 1, shared)) \o From(p, shared) = p
        /\ <<>> \o FirstOf(<<>> \o SubSeq(p, 1, shared), shared) \o From(q, shared) = q
    BY BatchPrompts
  <2> HIDE DEF p, q, shared
  <2> QED BY <2>1, <2>2
<1> HIDE DEF p, q, shared, base
<1> DEFINE other == 3 - lead
<1>9. /\ kv' = [kv EXCEPT ![lead] = p, ![other] = q]
      /\ job' = [pc |-> "batch", arms |-> [a \in {lead, other} |->
                                              IF a = lead THEN p ELSE q]]
  <2>1. kv' = [kv EXCEPT ![lead] = base(lead) \o From(p, shared),
                         ![other] = kv[other] \o FirstOf(base(lead), shared)
                                              \o From(q, shared)]
    BY <1>7, Zenon DEF other
  <2>2. kv[other] \o FirstOf(base(lead), shared) \o From(q, shared) = q
    BY <1>8, Zenon DEF other
  <2> QED BY <1>7, <1>8, <2>1, <2>2, Zenon DEF other
<1>10. /\ lead \in Seqs /\ other \in Seqs /\ lead # other
       /\ {lead, other} = {1, 2} /\ lead # 0 /\ other # 0
  BY <1>2
<1> HIDE DEF other
<1>11. /\ kv' \in [Seqs -> Seq(Tok)] /\ kv'[lead] = p /\ kv'[other] = q
       /\ \A s \in Seqs : s \notin {1, 2} => kv'[s] = kv[s]
  BY <1>2, <1>8, <1>9, <1>10
<1>12. /\ job'.pc = "batch" /\ DOMAIN job'.arms = {lead, other}
       /\ job'.arms[lead] = p /\ job'.arms[other] = q
  BY <1>9, <1>10
<1>13. Types' /\ Sound(cfg)' /\ Pool' /\ CacheTrue'
  BY <1>1, <1>2, <1>11 DEF Inv, Types, Pool, CacheTrue, Sound, OneSession, NSeqMax
<1>14. Jobs' /\ KvIsPrompt'
  <2>1. cfg'.parallel > 1
    BY <1>1, <1>3
  <2>2. Jobs'
    BY <1>10, <1>12, <2>1 DEF Jobs
  <2>3. KvIsPrompt'
    BY <1>11, <1>12 DEF KvIsPrompt
  <2> QED BY <2>2, <2>3
<1>15. RecordTrue'
  <2>1. \A s \in Slots : /\ kv'[s] \in Seq(Tok)
                         /\ \/ resident'[s] = <<>>
                            \/ kv'[s] = kv[s] /\ resident'[s] = resident[s]
    BY <1>1, <1>2, <1>5, <1>11
  <2> QED BY <1>1, <1>2, <2>1, KeepRecords DEF Inv
<1>16. Alone'
  BY <1>1, <1>2, <1>5, <1>12 DEF Alone
<1> QED BY <1>13, <1>14, <1>15, <1>16 DEF Inv

\* The sequences of a batch are emptied when it ends.
LEMMA EndBatchStep ==
    ASSUME Inv, EndBatch
    PROVE  Inv'
<1>1. /\ job.pc = "batch" /\ job' = Idle
      /\ kv' = [q \in Seqs |-> IF q \in DOMAIN job.arms THEN <<>> ELSE kv[q]]
      /\ UNCHANGED <<cfg, conv, resident, pool, assigned, order, active, cache, lru, saved>>
  BY DEF EndBatch, poolVars
<1>2. /\ Types /\ Slots \subseteq {0, 1, 2} /\ Slots \subseteq Seqs /\ Slots' = Slots
      /\ {0, 1, 2} \subseteq Seqs /\ kv \in [Seqs -> Seq(Tok)]
  BY <1>1, Geometry DEF Inv, Types, Slots, NSeqMax
<1>3. DOMAIN job.arms = {1, 2} /\ OneSession(cfg)
  BY <1>1 DEF Inv, Jobs, Sound
<1>4. /\ kv' \in [Seqs -> Seq(Tok)]
      /\ \A q \in Seqs : kv'[q] = IF q \in {1, 2} THEN <<>> ELSE kv[q]
  BY <1>1, <1>2, <1>3, NothingFacts
<1>5. Types' /\ Sound(cfg)' /\ Pool' /\ CacheTrue'
  BY <1>1, <1>2, <1>4 DEF Inv, Types, Pool, CacheTrue, Sound, OneSession, NSeqMax
<1>6. Jobs' /\ KvIsPrompt'
  BY <1>1 DEF Jobs, KvIsPrompt, Idle
<1>7. RecordTrue'
  <2>1. \A s \in Slots : /\ kv'[s] \in Seq(Tok)
                         /\ \/ kv'[s] = <<>>
                            \/ kv'[s] = kv[s] /\ resident'[s] = resident[s]
    BY <1>1, <1>2, <1>4
  <2> QED BY <1>1, <1>2, <2>1, KeepRecords DEF Inv
<1>8. Alone'
  <2>1. /\ active = 0
        /\ \A u \in Sessions : assigned[u] = NoSlot
                               \/ (assigned[u] = 0 /\ u \in cfg.keys)
        /\ \A q \in Slots : q # 0 => resident[q] = <<>>
    BY <1>3 DEF Inv, Alone
  <2>2. \A q \in Slots \cup {1, 2} : q # 0 => kv'[q] = <<>>
    BY <1>2, <1>4
  <2> QED BY <1>1, <1>2, <2>1, <2>2 DEF Alone
<1> QED BY <1>5, <1>6, <1>7, <1>8 DEF Inv

(***************************************************************************)
(* Calls that only manage the cells.                                       *)
(***************************************************************************)
\* A call that is over at once keeps the invariant if it leaves each slot as
\* it was, empty or without a record, and writes no cells outside sequence 0.
LEMMA QuietStep ==
    ASSUME Inv, job = Idle, UNCHANGED <<cfg, pool, active, job>>,
           Types', Pool', CacheTrue',
           \A s \in Sessions : assigned'[s] \in {assigned[s], NoSlot},
           \A q \in Slots \cup {1, 2} : kv'[q] = kv[q] \/ kv'[q] = <<>> \/ q = 0,
           \A q \in Slots : resident'[q] = resident[q] \/ resident'[q] = <<>>,
           cfg.warmKeep => \A q \in Slots : \/ kv'[q] = <<>> \/ resident'[q] = <<>>
                                            \/ kv'[q] = kv[q]
    PROVE  Inv'
<1>1. /\ Types /\ Slots \subseteq Seqs /\ Slots' = Slots
  BY Geometry DEF Inv, Types, Slots, NSeqMax
<1>2. Sound(cfg)' /\ Jobs' /\ KvIsPrompt'
  BY DEF Inv, Sound, OneSession, NSeqMax, Jobs, KvIsPrompt, Idle
<1>3. RecordTrue'
  <2>1. CASE ~cfg.warmKeep
    BY <2>1 DEF RecordTrue
  <2>2. CASE cfg.warmKeep
    <3>1. \A q \in Slots : kv'[q] \in Seq(Tok)
      BY <1>1 DEF Types
    <3> QED BY <1>1, <2>2, <3>1, KeepRecords DEF Inv
  <2> QED BY <2>1, <2>2
<1>4. Alone'
  <2> SUFFICES ASSUME OneSession(cfg)' PROVE Alone'
    BY DEF Alone
  <2>1. OneSession(cfg)
    BY DEF OneSession, NSeqMax
  <2>2. /\ active = 0
        /\ \A u \in Sessions : assigned[u] = NoSlot
                               \/ (assigned[u] = 0 /\ u \in cfg.keys)
        /\ \A q \in Slots : q # 0 => resident[q] = <<>>
        /\ \A q \in Slots \cup {1, 2} : q # 0 => kv[q] = <<>>
    BY <2>1 DEF Inv, Alone, Idle
  <2>3. \A u \in Sessions : assigned'[u] = NoSlot
                            \/ (assigned'[u] = 0 /\ u \in cfg'.keys)
    BY <2>2
  <2> QED BY <1>1, <2>2, <2>3 DEF Alone
<1> QED BY <1>2, <1>3, <1>4 DEF Inv

\* forget_session_kv gives back the slot, its cells and its record together.
LEMMA ForgetStep ==
    ASSUME Inv, NEW s \in cfg.keys, NEW m \in {<<>>} \cup {UserTurn(w) : w \in Words},
           ForgetSessionKv(s, m)
    PROVE  Inv'
<1>1. /\ job = Idle /\ conv' = [conv EXCEPT ![s] = m]
      /\ UNCHANGED <<cfg, pool, active, cache, lru, saved, job>>
  BY DEF ForgetSessionKv, BeginCall, poolVars
<1>2. /\ s \in Sessions /\ Types /\ Slots' = Slots /\ Slots \subseteq Seqs
      /\ {0, 1, 2} \subseteq Seqs /\ NoSlot \notin Slots
  BY <1>1, Geometry DEF Inv, Types, ConfigType, Slots, NSeqMax
<1>3. m \in Seq(Tok) /\ (m = <<>> \/ (Len(m) > 0 /\ m[1] = "user"))
  <2>1. CASE m = <<>>
    BY <2>1, NothingFacts
  <2>2. CASE \E w \in Words : m = UserTurn(w)
    <3>1. PICK w \in Words : m = UserTurn(w)
      BY <2>2
    <3>2. UserTurn(w) \in Seq(Tok) /\ Len(UserTurn(w)) = 2 /\ UserTurn(w)[1] = "user"
      BY NothingFacts, TurnFacts
    <3> HIDE DEF UserTurn
    <3> QED BY <3>1, <3>2
  <2> QED BY <2>1, <2>2
<1>4. /\ conv' \in [Sessions -> Seq(Tok)]
      /\ \A u \in Sessions : conv'[u] = <<>> \/ (Len(conv'[u]) > 0 /\ conv'[u][1] = "user")
  BY <1>1, <1>2, <1>3 DEF Types
<1>5. CacheTrue'
  BY <1>1 DEF Inv, CacheTrue
<1>6. CASE UNCHANGED <<assigned, order, kv, resident>>
  <2>1. Types' /\ Pool'
    BY <1>1, <1>2, <1>4, <1>6 DEF Inv, Types, Pool
  <2> QED BY <1>1, <1>5, <1>6, <2>1, QuietStep
<1>7. CASE /\ assigned[s] # NoSlot
           /\ assigned' = [assigned EXCEPT ![s] = NoSlot]
           /\ order' = RemoveFirst(order, s)
           /\ kv' = [kv EXCEPT ![assigned[s]] = <<>>]
           /\ resident' = [resident EXCEPT ![assigned[s]] = <<>>]
  <2>1. assigned \in [Sessions -> Slots \cup {NoSlot}] /\ assigned[s] \in Slots
    BY <1>2, <1>7 DEF Inv, Pool
  <2>2. /\ kv' \in [Seqs -> Seq(Tok)] /\ resident' \in [Slots -> Seq(Tok)]
        /\ \A q \in Seqs : kv'[q] = kv[q] \/ kv'[q] = <<>>
        /\ \A q \in Slots : resident'[q] = resident[q] \/ resident'[q] = <<>>
    BY <1>2, <1>7, <2>1, NothingFacts DEF Types
  <2>3. /\ assigned' \in [Sessions -> Slots \cup {NoSlot}] /\ assigned'[s] = NoSlot
        /\ \A u \in Sessions : u # s => assigned'[u] = assigned[u]
    <3>1. assigned' = [assigned EXCEPT ![s] = NoSlot]
      BY <1>7
    <3> QED BY <1>2, <2>1, <3>1
  <2>4. /\ order' \in Seq(Sessions) /\ Distinct(order')
        /\ \A u \in Sessions : Has(order', u) <=> u # s /\ Has(order, u)
    BY <1>2, <1>7, DropFacts DEF Inv, Pool
  <2>5. \A u \in Sessions : assigned'[u] # NoSlot <=> Has(order', u)
    BY <2>3, <2>4 DEF Inv, Pool
  <2>6. \A u, t \in Sessions :
           assigned'[u] = assigned'[t] /\ assigned'[u] # NoSlot => u = t
    BY <2>3 DEF Inv, Pool
  <2>7. Types' /\ Pool'
    <3>1. Distinct(order)'
      BY <2>4 DEF Distinct
    <3>2. \A u \in Sessions : assigned'[u] # NoSlot <=> Has(order, u)'
      BY <2>5 DEF Has
    <3>3. Types'
      BY <1>1, <1>2, <1>4, <2>2 DEF Types
    <3> QED BY <1>2, <2>3, <2>4, <2>6, <3>1, <3>2, <3>3 DEF Pool
  <2>8. \A u \in Sessions : assigned'[u] \in {assigned[u], NoSlot}
    BY <2>3
  <2>9. \A q \in Slots \cup {1, 2} : kv'[q] = kv[q] \/ kv'[q] = <<>> \/ q = 0
    BY <1>2, <2>2
  <2>10. \A q \in Slots : kv'[q] = <<>> \/ resident'[q] = <<>> \/ kv'[q] = kv[q]
    BY <1>2, <2>2
  <2> QED BY <1>1, <1>5, <2>2, <2>7, <2>8, <2>9, <2>10, QuietStep
<1> QED BY <1>6, <1>7 DEF ForgetSessionKv

\* Log-probabilities, host snapshots and a dropped context.
LEMMA ContextStep ==
    ASSUME Inv, EvaluateLogprobs \/ SaveState \/ RestoreState \/ DropContext
    PROVE  Inv'
<1>1. /\ job = Idle /\ UNCHANGED <<cfg, conv, pool, assigned, order, active, job>>
  BY DEF EvaluateLogprobs, SaveState, RestoreState, DropContext, BeginCall, poolVars
<1>2. /\ Types /\ Slots \subseteq Seqs /\ Slots' = Slots /\ {0, 1, 2} \subseteq Seqs
      /\ kv \in [Seqs -> Seq(Tok)] /\ saved \in Seq(Tok)
  BY <1>1, Geometry DEF Inv, Types, Slots, NSeqMax
<1>3. Pool'
  BY <1>1, <1>2 DEF Inv, Pool
<1>4. \A s \in Sessions : assigned'[s] \in {assigned[s], NoSlot}
  BY <1>1
<1>5. CASE EvaluateLogprobs
  <2>1. kv' = EmptyKv /\ UNCHANGED <<resident, cache, lru, saved>>
    BY <1>5 DEF EvaluateLogprobs
  <2>2. /\ kv' \in [Seqs -> Seq(Tok)] /\ \A q \in Slots \cup {1, 2} : kv'[q] = <<>>
    BY <1>2, <2>1, ClearFacts
  <2>3. Types' /\ CacheTrue'
    BY <1>1, <1>2, <2>1, <2>2 DEF Inv, Types, CacheTrue
  <2> QED BY <1>1, <1>3, <1>4, <2>1, <2>2, <2>3, QuietStep
<1>6. CASE SaveState
  <2>1. saved' = kv[0] /\ UNCHANGED <<kv, resident, cache, lru>>
    BY <1>6 DEF SaveState
  <2>2. Types' /\ CacheTrue'
    BY <1>1, <1>2, <2>1 DEF Inv, Types, CacheTrue
  <2> QED BY <1>1, <1>3, <1>4, <2>1, <2>2, QuietStep
<1>7. CASE RestoreState
  <2>1. kv' = [kv EXCEPT ![0] = saved] /\ UNCHANGED <<resident, cache, lru, saved>>
    BY <1>7 DEF RestoreState
  <2>2. ~cfg.warmKeep
    BY <1>7 DEF RestoreState, Inv, Sound
  <2>3. kv' \in [Seqs -> Seq(Tok)] /\ \A q \in Slots \cup {1, 2} : kv'[q] = kv[q] \/ q = 0
    BY <1>2, <2>1
  <2>4. Types' /\ CacheTrue'
    BY <1>1, <1>2, <2>1, <2>3 DEF Inv, Types, CacheTrue
  <2> QED BY <1>1, <1>3, <1>4, <2>1, <2>2, <2>3, <2>4, QuietStep
<1>8. CASE DropContext
  <2>1. kv' = EmptyKv /\ resident' = NoRecords /\ UNCHANGED saved
    BY <1>8 DEF DropContext
  <2>2. /\ kv' \in [Seqs -> Seq(Tok)] /\ \A q \in Slots \cup {1, 2} : kv'[q] = <<>>
        /\ resident' \in [Slots -> Seq(Tok)] /\ \A q \in Slots : resident'[q] = <<>>
    BY <1>2, <2>1, ClearFacts
  <2>3. CacheTrue'
    <3>1. CASE UNCHANGED <<cache, lru>>
      BY <3>1 DEF Inv, CacheTrue
    <3>2. CASE cache' = <<>> /\ lru' = <<>>
      BY <3>2 DEF CacheTrue
    <3> QED BY <1>8, <3>1, <3>2 DEF DropContext
  <2>4. Types'
    BY <1>1, <1>2, <2>1, <2>2 DEF Types
  <2> QED BY <1>1, <1>3, <1>4, <2>2, <2>3, <2>4, QuietStep
<1> QED BY <1>5, <1>6, <1>7, <1>8

(***************************************************************************)
(* The invariant holds throughout.                                         *)
(***************************************************************************)
\* The constants' part of the argument: only sound configurations are run.
SoundConfigs == \A c \in Configs : Sound(c)

\* A new backend has an empty context and no records.
LEMMA InvInit ==
    ASSUME SoundConfigs, Init
    PROVE  Inv
<1>1. cfg \in Configs /\ Slots \subseteq Seqs /\ 0 \in Slots /\ {0, 1, 2} \subseteq Seqs
  BY Geometry DEF Init
<1>2. /\ \A q \in Seqs : kv[q] = <<>>
      /\ \A q \in Slots : resident[q] = <<>>
      /\ kv \in [Seqs -> Seq(Tok)] /\ resident \in [Slots -> Seq(Tok)]
  BY ClearFacts DEF Init
<1>3. Types
  BY <1>1, <1>2, NothingFacts DEF Init, Types
<1>4. Pool
  <2>1. order = <<>> /\ Len(<<>>) = 0 /\ <<>> \in Seq(Sessions)
    BY EmptySeq DEF Init
  <2>2. Distinct(order) /\ \A s \in Sessions : ~Has(order, s)
    BY <2>1 DEF Distinct, Has
  <2> QED BY <2>1, <2>2 DEF Init, Pool
<1>5. Alone
  BY <1>1, <1>2 DEF Init, Alone
<1>6. CacheTrue
  BY DEF Init, CacheTrue
<1>7. Jobs /\ KvIsPrompt
  BY DEF Init, Jobs, KvIsPrompt, Idle
<1>8. RecordTrue
  BY <1>1, <1>2 DEF RecordTrue
<1>9. Sound(cfg)
  BY <1>1 DEF SoundConfigs
<1> QED BY <1>3, <1>4, <1>5, <1>6, <1>7, <1>8, <1>9 DEF Inv

\* Every step keeps the invariant.
LEMMA InvNext ==
    ASSUME Inv, [Next]_vars
    PROVE  Inv'
<1>1. CASE Next
  BY <1>1, BeginBoundStep, BeginUnboundStep, HybridPrefillStep, WarmReuseStep,
     PlainPrefillStep, RestoreStep, CachePrefixStep, PrefillFailsStep, MtpStep, MultimodalStep, DecodeStep,
     CompleteStep, BatchStep, EndBatchStep, ForgetStep, ContextStep DEF Next
<1>2. CASE UNCHANGED vars
  BY <1>2 DEF vars, poolVars, Inv, Types, Sound, OneSession, NSeqMax, Slots, Pool, Distinct, Has,
     Alone, CacheTrue, Jobs, KvIsPrompt, RecordTrue
<1> QED BY <1>1, <1>2

\* The invariant.
LEMMA Invariance ==
    ASSUME SoundConfigs
    PROVE  Spec => []Inv
<1>1. Init => Inv
  BY InvInit
<1>2. Inv /\ [Next]_vars => Inv'
  BY InvNext
<1> QED BY <1>1, <1>2, PTL DEF Spec

\* In a sound configuration a reply is sampled from exactly the prompt the
\* engine rendered, whether the call bound its session's slot or, like the
\* cancellable and streaming ones, ran in the slot another session's call left,
\* and whatever warm-keep, the prompt cache, the session pool, MTP, images,
\* batches and failed prefills did before (llama_cpp_backend.cpp).
THEOREM PromptIsRead ==
    ASSUME SoundConfigs
    PROVE  Spec => []KvIsPrompt
<1>1. Inv => KvIsPrompt
  BY DEF Inv
<1> QED BY <1>1, Invariance, PTL

\* In a sound configuration a slot's record (warm_keep_util.h) is true of the
\* slot's cells, or the slot is empty, at all times: also in a slot that one
\* session owns and the unbound calls of others wrote.
THEOREM RecordsHold ==
    ASSUME SoundConfigs
    PROVE  Spec => []RecordTrue
<1>1. Inv => RecordTrue
  BY DEF Inv
<1> QED BY <1>1, Invariance, PTL

\* The bookkeeping of the session pool (session_residency.h) assigns no slot to
\* two sessions, and has every session with a slot in the order of use, so that
\* it can be evicted.  It says who owns a slot, not who wrote it: an unbound
\* call writes the slot of another session.
THEOREM SlotsAreAssignedOnce ==
    ASSUME SoundConfigs
    PROVE  Spec => []Pool
<1>1. Inv => Pool
  BY DEF Inv
<1> QED BY <1>1, Invariance, PTL
=============================================================================
