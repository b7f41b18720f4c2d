------------------------- MODULE ThinkFilterProofs -------------------------
(***************************************************************************)
(* Proofs about ThinkFilter, for every sequence of chunks of every length. *)
(*                                                                         *)
(* The loops of the code (over the bytes of a chunk, the rounds of         *)
(* strip_think_blocks, the concatenation of what was delivered) are        *)
(* recursive functions on an interval; they are reasoned about by          *)
(* induction in the form of Induction, on the set of the indices at which  *)
(* a fact holds.                                                           *)
(***************************************************************************)
EXTENDS ThinkFilter, SequenceTheorems, WellFoundedInduction, TLAPS

(***************************************************************************)
(* Induction and recursion on an interval.                                 *)
(***************************************************************************)
\* A set of naturals that has an element has a least one.
LEMMA LeastNatural ==
    ASSUME NEW T \in SUBSET Nat, T # {}
    PROVE  \E x \in T : \A y \in T : x <= y
<1>1. \E x \in T : \A y \in T : ~(<<y, x>> \in OpToRel(<, Nat))
  BY NatLessThanWellFounded, WFMin
<1>2. \A x, y \in Nat : ~(<<y, x>> \in OpToRel(<, Nat)) => x <= y
  BY DEF OpToRel
<1> QED BY <1>1, <1>2

\* Min of a set of naturals that has an element is its least one.
LEMMA MinFacts ==
    ASSUME NEW T \in SUBSET Nat, T # {}
    PROVE  Min(T) \in T /\ \A y \in T : Min(T) <= y
BY LeastNatural DEF Min

\* A set that has a, and with each index below n the next, has all of a .. n.
LEMMA Induction ==
    ASSUME NEW a \in Nat, NEW n \in Nat, NEW T, a \in T,
           \A i \in a .. n : i < n /\ i \in T => i + 1 \in T
    PROVE  \A i \in a .. n : i \in T
<1> SUFFICES ASSUME NEW k \in a .. n, k \notin T PROVE FALSE
  OBVIOUS
<1> DEFINE U == {i \in a .. n : i \notin T}
<1>1. U \in SUBSET Nat /\ U # {}
  OBVIOUS
<1>2. PICK m \in U : \A y \in U : m <= y
  BY <1>1, LeastNatural
<1>3. m # a /\ m \in a .. n /\ m \notin T
  BY <1>2
<1>4. m - 1 \in a .. n /\ m - 1 < n /\ m - 1 < m
  BY <1>3
<1>5. m - 1 \in T
  BY <1>2, <1>4
<1>6. m - 1 + 1 = m
  BY <1>3
<1> QED BY <1>3, <1>4, <1>5, <1>6

\* h has the results of a loop of n rounds, round i of which turns x into
\* G[i][x].
Loop(A, n, a, G, h) == /\ h \in [0 .. n -> A] /\ h[0] = a
                       /\ \A i \in 1 .. n : h[i] = G[i][h[i - 1]]

\* Such a loop has a result after each round.
LEMMA Recursion ==
    ASSUME NEW A, NEW n \in Nat, NEW a \in A, NEW G \in [1 .. n -> [A -> A]]
    PROVE  \E h : Loop(A, n, a, G, h)
<1> DEFINE Runs(m, h) == Loop(A, m, a, G, h)
           T == {m \in 0 .. n : \E h : Runs(m, h)}
<1>1. 0 \in T
  <2> DEFINE g == [i \in 0 .. 0 |-> a]
  <2>1. Runs(0, g)
    BY DEF Loop
  <2> HIDE DEF Runs, g
  <2> QED BY <2>1
<1>2. ASSUME NEW m \in 0 .. n, m < n, m \in T PROVE m + 1 \in T
  <2>1. PICK h : Runs(m, h)
    BY <1>2
  <2> DEFINE g == [i \in 0 .. m + 1 |-> IF i = m + 1 THEN G[m + 1][h[m]] ELSE h[i]]
  <2>2. m + 1 \in 1 .. n /\ h[m] \in A /\ G[m + 1][h[m]] \in A
    BY <1>2, <2>1 DEF Loop
  <2>3. g \in [0 .. m + 1 -> A] /\ g[0] = a
    BY <1>2, <2>1, <2>2 DEF Loop
  <2>4. \A i \in 1 .. m + 1 : g[i] = G[i][g[i - 1]]
    BY <1>2, <2>1, <2>2 DEF Loop
  <2>5. Runs(m + 1, g)
    BY <2>3, <2>4 DEF Loop
  <2> HIDE DEF Runs, g
  <2> QED BY <1>2, <2>2, <2>5
<1>3. n \in T
  <2>1. \A i \in 0 .. n : i < n /\ i \in T => i + 1 \in T
    BY <1>2
  <2> HIDE DEF T
  <2>2. \A i \in 0 .. n : i \in T
    BY <1>1, <2>1, Induction
  <2> QED BY <2>2
<1> QED BY <1>3

(***************************************************************************)
(* The types of the filter.                                                *)
(***************************************************************************)
Str == Seq(Bytes)

FilterStates == [think : BOOLEAN, tag : Str, utf8 : Str, out : Seq(Str)]

\* The bytes of a string; the empty string.
LEMMA StrFacts ==
    /\ <<>> \in Str /\ Len(<<>>) = 0
    /\ \A s \in Str : Len(s) \in Nat /\ \A i \in 1 .. Len(s) : s[i] \in Bytes
    /\ \A s \in Str : s = <<>> <=> Len(s) = 0
BY EmptySeq DEF Str

\* Strings of one byte.
LEMMA OneByte ==
    ASSUME NEW b \in Bytes
    PROVE  <<b>> \in Str /\ Len(<<b>>) = 1 /\ <<b>>[1] = b
<1>1. <<b>> \in Seq(Bytes)
  OBVIOUS
<1> QED BY <1>1 DEF Str

\* The markers.
LEMMA Markers ==
    /\ Open \in Str /\ Len(Open) = 3
    /\ Open[1] = "<" /\ Open[2] = "t" /\ Open[3] = ">"
    /\ Close \in Str /\ Len(Close) = 4
    /\ Close[1] = "<" /\ Close[2] = "/" /\ Close[3] = "t" /\ Close[4] = ">"
<1>1. {"<", "/", "t", ">"} \subseteq Bytes
  BY BytesAssumption
<1>2. \A a, b, c, d \in Bytes : <<a, b, c>> \in Seq(Bytes) /\ <<a, b, c, d>> \in Seq(Bytes)
  OBVIOUS
<1>3. Open \in Str /\ Close \in Str
  BY <1>1, <1>2 DEF Str, Open, Close
<1> QED BY <1>3 DEF Open, Close

\* The bytes of a concatenation.
LEMMA ConcatFacts ==
    ASSUME NEW s \in Str, NEW t \in Str
    PROVE  /\ s \o t \in Str /\ Len(s \o t) = Len(s) + Len(t)
           /\ \A i \in 1 .. Len(s) : (s \o t)[i] = s[i]
           /\ \A i \in 1 .. Len(t) : (s \o t)[Len(s) + i] = t[i]
           /\ \A i \in Len(s) + 1 .. Len(s) + Len(t) : (s \o t)[i] = t[i - Len(s)]
<1>1. Len(s) \in Nat /\ Len(t) \in Nat
  BY StrFacts
<1>2. /\ s \o t \in Str /\ Len(s \o t) = Len(s) + Len(t)
      /\ \A i \in 1 .. Len(s) + Len(t) :
            (s \o t)[i] = IF i <= Len(s) THEN s[i] ELSE t[i - Len(s)]
  BY ConcatProperties DEF Str
<1>3. ASSUME NEW i \in 1 .. Len(t) PROVE (s \o t)[Len(s) + i] = t[i]
  <2>1. Len(s) + i \in 1 .. Len(s) + Len(t) /\ ~(Len(s) + i <= Len(s))
        /\ Len(s) + i - Len(s) = i
    BY <1>1
  <2> QED BY <1>2, <2>1
<1>4. \A i \in 1 .. Len(s) : (s \o t)[i] = s[i]
  BY <1>1, <1>2
<1>5. ASSUME NEW i \in Len(s) + 1 .. Len(s) + Len(t)
      PROVE  (s \o t)[i] = t[i - Len(s)]
  <2>1. i \in 1 .. Len(s) + Len(t) /\ ~(i <= Len(s))
    BY <1>1
  <2> QED BY <1>2, <2>1
<1> QED BY <1>2, <1>3, <1>4, <1>5

\* Concatenation is associative and <<>> its unit.
LEMMA ConcatLaws ==
    /\ \A s, t, u \in Str : (s \o t) \o u = s \o (t \o u)
    /\ \A s \in Str : s \o <<>> = s /\ <<>> \o s = s
BY ConcatAssociative, ConcatEmptySeq DEF Str

\* A byte at the end.
LEMMA AppendFacts ==
    ASSUME NEW s \in Str, NEW b \in Bytes
    PROVE  /\ Append(s, b) \in Str /\ Len(Append(s, b)) = Len(s) + 1
           /\ \A i \in 1 .. Len(s) : Append(s, b)[i] = s[i]
           /\ Append(s, b)[Len(s) + 1] = b
           /\ Append(s, b) = s \o <<b>>
BY AppendProperties, AppendIsConcat DEF Str

\* Two strings of the same bytes are equal.
LEMMA StrEqual ==
    ASSUME NEW s \in Str, NEW t \in Str, Len(s) = Len(t),
           \A i \in 1 .. Len(s) : s[i] = t[i]
    PROVE  s = t
BY SeqEqual DEF Str

\* The bytes of a part.
LEMMA PartFacts ==
    ASSUME NEW s \in Str, NEW m \in Nat, NEW n \in Nat, m >= 1, n <= Len(s)
    PROVE  /\ SubSeq(s, m, n) \in Str
           /\ Len(SubSeq(s, m, n)) = IF m <= n THEN n - m + 1 ELSE 0
           /\ \A i \in 1 .. n - m + 1 : SubSeq(s, m, n)[i] = s[m + i - 1]
<1>1. \A i \in m .. n : s[i] \in Bytes
  BY StrFacts
<1> QED BY <1>1, SubSeqProperties DEF Str

\* A string cut in two.
LEMMA CutFacts ==
    ASSUME NEW s \in Str, NEW n \in 0 .. Len(s)
    PROVE  /\ SubSeq(s, 1, n) \in Str /\ Len(SubSeq(s, 1, n)) = n
           /\ \A i \in 1 .. n : SubSeq(s, 1, n)[i] = s[i]
           /\ SubSeq(s, n + 1, Len(s)) \in Str
           /\ s = SubSeq(s, 1, n) \o SubSeq(s, n + 1, Len(s))
<1>1. Len(s) \in Nat /\ n \in Nat /\ n <= Len(s)
  BY StrFacts
<1>2. /\ SubSeq(s, 1, n) \in Str /\ Len(SubSeq(s, 1, n)) = n
      /\ \A i \in 1 .. n : SubSeq(s, 1, n)[i] = s[i]
  BY <1>1, PartFacts
<1>3. SubSeq(s, n + 1, Len(s)) \in Str
  <2>1. n + 1 \in Nat /\ n + 1 >= 1 /\ Len(s) <= Len(s)
    BY <1>1
  <2> QED BY <1>1, <2>1, PartFacts
<1>4. SubSeq(s, 1, n) \o SubSeq(s, n + 1, Len(s)) = SubSeq(s, 1, Len(s))
  <2>1. s \in Seq(Bytes) /\ 1 \in 1 .. Len(s) + 1 /\ n \in 1 - 1 .. Len(s)
        /\ Len(s) \in n .. Len(s)
    BY <1>1 DEF Str
  <2> QED BY <2>1, ConcatAdjacentSubSeq
<1>5. SubSeq(s, 1, Len(s)) = s
  BY SubSeqFull DEF Str
<1> QED BY <1>2, <1>3, <1>4, <1>5

(***************************************************************************)
(* What was delivered, as one text.                                        *)
(***************************************************************************)
\* The steps of FlattenSeq.
FlatRuns(d, h) == /\ h \in [0 .. Len(d) -> Str] /\ h[0] = <<>>
                  /\ \A i \in 1 .. Len(d) : h[i] = h[i - 1] \o d[i]

LEMMA FlatRunsExist ==
    ASSUME NEW d \in Seq(Str)
    PROVE  \E h : FlatRuns(d, h)
<1>1. Len(d) \in Nat /\ \A i \in 1 .. Len(d) : d[i] \in Str
  OBVIOUS
<1> DEFINE G == [i \in 1 .. Len(d) |-> [s \in Str |-> s \o d[i]]]
<1>2. G \in [1 .. Len(d) -> [Str -> Str]]
  BY <1>1, ConcatFacts
<1>3. PICK h : Loop(Str, Len(d), <<>>, G, h)
  <2>1. <<>> \in Str
    BY StrFacts
  <2> HIDE DEF G
  <2> QED BY <1>1, <1>2, <2>1, Recursion
<1>4. \A i \in 1 .. Len(d) : h[i - 1] \in Str
  BY <1>1, <1>3 DEF Loop
<1>5. \A i \in 1 .. Len(d) : h[i] = h[i - 1] \o d[i]
  BY <1>3, <1>4 DEF Loop
<1> QED BY <1>3, <1>5 DEF FlatRuns, Loop

LEMMA FlatRunsEnd ==
    ASSUME NEW d \in Seq(Str), NEW h, FlatRuns(d, h)
    PROVE  FlattenSeq(d) = h[Len(d)]
<1>1. Len(d) \in Nat
  OBVIOUS
<1>2. CASE Len(d) = 0
  BY <1>2, EmptySeq DEF FlatRuns, FlattenSeq
<1>3. CASE Len(d) # 0
  <2> DEFINE Eq(f) == f = [i \in 1 .. Len(d) |-> IF i = 1 THEN d[i] ELSE f[i - 1] \o d[i]]
             f == CHOOSE g : Eq(g)
             k == [i \in 1 .. Len(d) |-> h[i]]
  <2>1. Eq(k)
    <3>1. \A i \in 1 .. Len(d) : k[i] = IF i = 1 THEN d[i] ELSE k[i - 1] \o d[i]
      <4> SUFFICES ASSUME NEW i \in 1 .. Len(d)
                   PROVE  k[i] = IF i = 1 THEN d[i] ELSE k[i - 1] \o d[i]
        OBVIOUS
      <4>1. k[i] = h[i - 1] \o d[i] /\ d[i] \in Str
        BY DEF FlatRuns
      <4>2. CASE i = 1
        <5>1. h[i - 1] = <<>>
          BY <4>2 DEF FlatRuns
        <5>2. <<>> \o d[i] = d[i]
          BY <4>1, ConcatLaws
        <5> HIDE DEF k
        <5> QED BY <4>1, <4>2, <5>1, <5>2
      <4>3. CASE i # 1
        <5>1. i - 1 \in 1 .. Len(d)
          BY <1>1, <4>3
        <5>2. k[i - 1] = h[i - 1]
          BY <5>1
        <5> HIDE DEF k
        <5> QED BY <4>1, <4>3, <5>2
      <4> QED BY <4>2, <4>3
    <3> QED BY <3>1
  <2>2. Eq(f)
    <3> HIDE DEF Eq, k
    <3> QED BY <2>1
  <2>3. FlattenSeq(d) = f[Len(d)]
    BY <1>3 DEF FlattenSeq
  <2> DEFINE T == {i \in 1 .. Len(d) : f[i] = k[i]}
  <2>4. /\ \A i \in 1 .. Len(d) : f[i] = IF i = 1 THEN d[i] ELSE f[i - 1] \o d[i]
        /\ \A i \in 1 .. Len(d) : k[i] = IF i = 1 THEN d[i] ELSE k[i - 1] \o d[i]
    <3> HIDE DEF f, k
    <3> QED BY <2>1, <2>2
  <2>5. 1 \in T
    <3> HIDE DEF f, k
    <3> QED BY <1>1, <1>3, <2>4
  <2>6. \A i \in 1 .. Len(d) : i < Len(d) /\ i \in T => i + 1 \in T
    <3> HIDE DEF f, k
    <3> QED BY <1>1, <2>4
  <2>7. Len(d) \in T
    <3> HIDE DEF T
    <3>1. \A i \in 1 .. Len(d) : i \in T
      BY <1>1, <2>5, <2>6, Induction
    <3> QED BY <1>1, <1>3, <3>1
  <2>8. f[Len(d)] = k[Len(d)]
    <3> HIDE DEF f, k
    <3> QED BY <2>7
  <2> QED BY <1>1, <1>3, <2>3, <2>8
<1> QED BY <1>2, <1>3

\* A chunk delivered comes after the text delivered before.
LEMMA FlattenFacts ==
    ASSUME NEW d \in Seq(Str)
    PROVE  /\ FlattenSeq(d) \in Str
           /\ \A c \in Str : FlattenSeq(Append(d, c)) = FlattenSeq(d) \o c
<1>1. Len(d) \in Nat
  OBVIOUS
<1>2. FlattenSeq(d) \in Str
  <2>1. PICK h : FlatRuns(d, h)
    BY FlatRunsExist
  <2> QED BY <1>1, <2>1, FlatRunsEnd DEF FlatRuns
<1>3. ASSUME NEW c \in Str PROVE FlattenSeq(Append(d, c)) = FlattenSeq(d) \o c
  <2> DEFINE e == Append(d, c)
             n == Len(d)
  <2>1. /\ e \in Seq(Str) /\ Len(e) = n + 1 /\ e[n + 1] = c
        /\ \A i \in 1 .. n : e[i] = d[i]
    BY AppendProperties
  <2> HIDE DEF e, n
  <2>2. n \in Nat
    BY <1>1 DEF n
  <2>3. PICK h : FlatRuns(e, h)
    BY <2>1, FlatRunsExist
  <2> DEFINE g == [i \in 0 .. n |-> h[i]]
  <2>4. FlatRuns(d, g)
    <3>1. Len(d) = n
      BY DEF n
    <3>2. g \in [0 .. n -> Str] /\ g[0] = <<>>
      BY <2>1, <2>2, <2>3 DEF FlatRuns
    <3>3. ASSUME NEW i \in 1 .. n PROVE g[i] = g[i - 1] \o d[i]
      <4>1. i \in 1 .. Len(e) /\ i \in 0 .. n /\ i - 1 \in 0 .. n
        BY <2>1, <2>2
      <4>2. h[i] = h[i - 1] \o e[i] /\ e[i] = d[i]
        BY <2>1, <2>3, <4>1 DEF FlatRuns
      <4>3. g[i] = h[i] /\ g[i - 1] = h[i - 1]
        BY <4>1
      <4> HIDE DEF g
      <4> QED BY <4>2, <4>3
    <3> QED BY <3>1, <3>2, <3>3 DEF FlatRuns
  <2>5. FlattenSeq(d) = h[n]
    <3>1. FlattenSeq(d) = g[n]
      <4> HIDE DEF g
      <4> QED BY <2>4, FlatRunsEnd DEF n
    <3> QED BY <2>2, <3>1
  <2>6. FlattenSeq(e) = h[n + 1]
    BY <2>1, <2>3, FlatRunsEnd
  <2>7. h[n + 1] = h[n] \o c
    <3>1. n + 1 \in 1 .. Len(e) /\ (n + 1) - 1 = n
      BY <2>1, <2>2
    <3> QED BY <2>1, <2>3, <3>1 DEF FlatRuns
  <2> QED BY <2>5, <2>6, <2>7 DEF e
<1> QED BY <1>2, <1>3

(***************************************************************************)
(* The steps of the filter.                                                *)
(***************************************************************************)
\* The longest marker is the closing one.
LEMMA LongestMarker == MaxMarkerLen = 4
<1>1. {Len(Open), Len(Close)} = {3, 4}
  BY Markers
<1>2. \E x \in {3, 4} : \A y \in {3, 4} : x >= y
  BY \A y \in {3, 4} : 4 >= y
<1>3. Max({3, 4}) \in {3, 4} /\ \A y \in {3, 4} : Max({3, 4}) >= y
  BY <1>2 DEF Max
<1>4. Max({3, 4}) = 4
  BY <1>3
<1> QED BY <1>1, <1>4 DEF MaxMarkerLen

\* The lengths of characters.
LEMMA Lengths ==
    /\ \A b : CharLen(b) \in 0 .. 4
    /\ \A b : CharLen(b) = 0 <=> b = "+"
BY DEF CharLen

\* The backward scan: the least distance from the end of a byte that begins a
\* character, among the last four.
Leads(s) == {i \in 1 .. Min({4, Len(s)}) : CharLen(s[Len(s) + 1 - i]) > 0}

LEMMA HeldFacts ==
    ASSUME NEW s \in Str
    PROVE  /\ \A i \in 1 .. 4 : i <= Len(s) /\ CharLen(s[Len(s) + 1 - i]) > 0 => i \in Leads(s)
           /\ \/ Leads(s) = {} /\ Held(s) = 0
              \/ \E k \in 1 .. 4 :
                    /\ k <= Len(s) /\ CharLen(s[Len(s) + 1 - k]) > 0
                    /\ \A i \in Leads(s) : k <= i
                    /\ Held(s) = IF k >= CharLen(s[Len(s) + 1 - k]) THEN 0 ELSE k
<1> DEFINE m == Min({4, Len(s)})
           leads == Leads(s)
           k == Min(leads)
<1>1. Len(s) \in Nat
  BY StrFacts
<1>2. m \in Nat /\ m <= Len(s) /\ m <= 4 /\ (m = 4 \/ m = Len(s))
  <2>1. {4, Len(s)} \in SUBSET Nat /\ {4, Len(s)} # {}
    BY <1>1
  <2>2. m \in {4, Len(s)} /\ \A y \in {4, Len(s)} : m <= y
    BY <2>1, MinFacts
  <2> QED BY <1>1, <2>2
<1>3. Held(s) = IF leads = {} \/ k >= CharLen(s[Len(s) + 1 - k]) THEN 0 ELSE k
  BY DEF Held, Leads
<1>4. leads = {i \in 1 .. m : CharLen(s[Len(s) + 1 - i]) > 0}
  BY DEF Leads
<1> HIDE DEF m, leads
<1>5. leads \in SUBSET Nat
  BY <1>2, <1>4
<1>6. leads # {} => k \in leads /\ \A y \in leads : k <= y
  BY <1>5, MinFacts
<1>7. ASSUME NEW i \in 1 .. 4, i <= Len(s), CharLen(s[Len(s) + 1 - i]) > 0
      PROVE  i \in leads
  BY <1>1, <1>2, <1>4, <1>7
<1> HIDE DEF k
<1>8. ASSUME leads # {}
      PROVE  k \in 1 .. 4 /\ k <= Len(s) /\ CharLen(s[Len(s) + 1 - k]) > 0
  BY <1>1, <1>2, <1>4, <1>6, <1>8
<1>9. CASE leads = {}
  BY <1>3, <1>7, <1>9 DEF leads
<1>10. CASE leads # {}
  <2>1. Held(s) = IF k >= CharLen(s[Len(s) + 1 - k]) THEN 0 ELSE k
    BY <1>3, <1>10
  <2> QED BY <1>6, <1>7, <1>8, <1>10, <2>1 DEF leads
<1> QED BY <1>9, <1>10

\* No more than the bytes there are is held back.
LEMMA HeldBound ==
    ASSUME NEW s \in Str
    PROVE  Held(s) \in 0 .. Len(s)
<1>1. Len(s) \in Nat
  BY StrFacts
<1>2. \/ Held(s) = 0
      \/ \E k \in 1 .. 4 : k <= Len(s) /\ Held(s) \in {0, k}
  BY HeldFacts
<1> QED BY <1>1, <1>2

\* What emit_utf8_safe has to deliver, and how much of it is complete.
Buffer(f, bytes) == f.utf8 \o bytes
Safe(f, bytes) == Len(Buffer(f, bytes)) - Held(Buffer(f, bytes))

\* emit_utf8_safe changes the character buffer and what was delivered.
LEMMA EmitFacts ==
    ASSUME NEW f \in FilterStates, NEW bytes \in Str
    PROVE  /\ Emit(f, bytes) \in FilterStates
           /\ Emit(f, bytes).think = f.think /\ Emit(f, bytes).tag = f.tag
           /\ Emit(f, bytes).utf8 =
                 SubSeq(Buffer(f, bytes), Safe(f, bytes) + 1, Len(Buffer(f, bytes)))
           /\ Emit(f, bytes).out =
                 IF Safe(f, bytes) > 0
                 THEN Append(f.out, SubSeq(Buffer(f, bytes), 1, Safe(f, bytes)))
                 ELSE f.out
           /\ Buffer(f, bytes) \in Str
           /\ Safe(f, bytes) \in 0 .. Len(Buffer(f, bytes))
<1> DEFINE buf == Buffer(f, bytes)
           safe == Safe(f, bytes)
<1>1. f.utf8 \in Str /\ f.out \in Seq(Str)
  BY DEF FilterStates
<1>2. buf \in Str /\ Len(buf) \in Nat
  BY <1>1, ConcatFacts, StrFacts DEF Buffer
<1>3. safe \in 0 .. Len(buf)
  <2>1. Held(buf) \in 0 .. Len(buf)
    BY <1>2, HeldBound
  <2>2. safe = Len(buf) - Held(buf)
    BY DEF Safe
  <2> HIDE DEF buf, safe
  <2> QED BY <1>2, <2>1, <2>2
<1> DEFINE a == SubSeq(buf, 1, safe)
           c == SubSeq(buf, safe + 1, Len(buf))
           o == IF safe > 0 THEN Append(f.out, a) ELSE f.out
<1>4. a \in Str /\ c \in Str
  BY <1>2, <1>3, CutFacts
<1>5. Emit(f, bytes) = [f EXCEPT !.out = o, !.utf8 = c]
  BY DEF Emit, Buffer, Safe
<1> HIDE DEF a, c
<1>6. o \in Seq(Str)
  BY <1>1, <1>4
<1> HIDE DEF o
<1>7. /\ Emit(f, bytes) \in FilterStates
      /\ Emit(f, bytes).think = f.think /\ Emit(f, bytes).tag = f.tag
      /\ Emit(f, bytes).utf8 = c /\ Emit(f, bytes).out = o
  BY <1>4, <1>5, <1>6 DEF FilterStates
<1> QED BY <1>2, <1>3, <1>7 DEF a, c, o

\* The visible text so far, delivered or held back as part of a character.
Kept(f) == FlattenSeq(f.out) \o f.utf8

\* emit_utf8_safe neither loses nor reorders a byte.
LEMMA EmitKeeps ==
    ASSUME NEW f \in FilterStates, NEW bytes \in Str
    PROVE  /\ Kept(f) \in Str
           /\ Kept(Emit(f, bytes)) = Kept(f) \o bytes
<1> DEFINE buf == Buffer(f, bytes)
           safe == Safe(f, bytes)
           d == FlattenSeq(f.out)
           a == SubSeq(buf, 1, safe)
           c == SubSeq(buf, safe + 1, Len(buf))
           g == Emit(f, bytes)
<1>1. f.utf8 \in Str /\ f.out \in Seq(Str)
  BY DEF FilterStates
<1>2. /\ buf \in Str /\ safe \in 0 .. Len(buf)
      /\ g.utf8 = c /\ g.out = IF safe > 0 THEN Append(f.out, a) ELSE f.out
  BY EmitFacts
<1>3. d \in Str /\ \A x \in Str : FlattenSeq(Append(f.out, x)) = d \o x
  BY <1>1, FlattenFacts
<1> HIDE DEF d, g, safe
<1>4. buf = f.utf8 \o bytes
  BY DEF Buffer
<1> HIDE DEF buf
<1>5. a \in Str /\ Len(a) = safe /\ c \in Str /\ buf = a \o c
  BY <1>2, CutFacts
<1>6. FlattenSeq(g.out) = d \o a
  <2>1. CASE safe > 0
    <3> HIDE DEF a, c
    <3> QED BY <1>2, <1>3, <1>5, <2>1
  <2>2. CASE ~(safe > 0)
    <3>1. Len(a) = 0
      BY <1>2, <1>5, <2>2, StrFacts
    <3>2. a = <<>>
      <4> HIDE DEF a, c
      <4> QED BY <1>5, <3>1, StrFacts
    <3> HIDE DEF a, c
    <3> QED BY <1>2, <1>3, <2>2, <3>2, ConcatLaws DEF d
  <2> QED BY <2>1, <2>2
<1> HIDE DEF a, c
<1>7. Kept(g) = (d \o a) \o c /\ Kept(f) = d \o f.utf8
  BY <1>2, <1>6 DEF Kept, d
<1>8. (d \o a) \o c = d \o (a \o c) /\ (d \o f.utf8) \o bytes = d \o (f.utf8 \o bytes)
  BY <1>1, <1>3, <1>5, ConcatLaws
<1>9. Kept(f) \in Str
  <2>1. d \o f.utf8 \in Str
    BY <1>1, <1>3, ConcatFacts
  <2> QED BY <1>7, <2>1
<1> QED BY <1>4, <1>5, <1>7, <1>8, <1>9 DEF g

LEMMA EmitOutsideFacts ==
    ASSUME NEW f \in FilterStates, NEW bytes \in Str
    PROVE  /\ EmitOutside(f, bytes) \in FilterStates
           /\ EmitOutside(f, bytes).think = f.think
           /\ EmitOutside(f, bytes).tag = f.tag
<1>1. /\ Emit(f, bytes) \in FilterStates
      /\ Emit(f, bytes).think = f.think /\ Emit(f, bytes).tag = f.tag
  BY EmitFacts
<1> QED BY <1>1 DEF EmitOutside

\* Changes of the block flag and of the marker buffer.
LEMMA FlagFacts ==
    ASSUME NEW f \in FilterStates, NEW t \in BOOLEAN, NEW s \in Str,
           NEW g, g = [f EXCEPT !.think = t, !.tag = s]
    PROVE  /\ g \in FilterStates /\ g.think = t /\ g.tag = s
           /\ g.utf8 = f.utf8 /\ g.out = f.out /\ Kept(g) = Kept(f)
BY DEF FilterStates, Kept

LEMMA TagFacts ==
    ASSUME NEW f \in FilterStates, NEW s \in Str, NEW g, g = [f EXCEPT !.tag = s]
    PROVE  /\ g \in FilterStates /\ g.think = f.think /\ g.tag = s
           /\ g.utf8 = f.utf8 /\ g.out = f.out /\ Kept(g) = Kept(f)
BY DEF FilterStates, Kept

\* process_byte: a plain byte, a byte that completes a marker, one that makes
\* the buffer longer than any, or one that may still become a marker.
ByteStep(f, b, tag, g) ==
    \/ f.tag = <<>> /\ b # "<" /\ g = EmitOutside(f, <<b>>)
    \/ /\ f.tag # <<>> \/ b = "<"
       /\ \/ /\ tag \in {Open, Close}
             /\ g = [f EXCEPT !.think = (tag = Open), !.tag = <<>>]
          \/ /\ tag \notin {Open, Close} /\ Len(tag) > 4
             /\ g = [EmitOutside(f, tag) EXCEPT !.tag = <<>>]
          \/ /\ tag \notin {Open, Close} /\ Len(tag) <= 4
             /\ g = [f EXCEPT !.tag = tag]

LEMMA ProcessByteCases ==
    ASSUME NEW f \in FilterStates, NEW b \in Bytes
    PROVE  /\ Append(f.tag, b) \in Str /\ ProcessByte(f, b) \in FilterStates
           /\ ByteStep(f, b, Append(f.tag, b), ProcessByte(f, b))
<1> DEFINE tag == Append(f.tag, b)
           g == ProcessByte(f, b)
<1>1. f.tag \in Str /\ <<>> \in Str
  BY StrFacts DEF FilterStates
<1>2. tag \in Str /\ Len(tag) \in Nat
  BY <1>1, AppendFacts, StrFacts
<1>3. Head(Open) = "<" /\ Head(Close) = "<"
  BY DEF Open, Close
<1>4. ByteStep(f, b, tag, g)
  BY <1>2, <1>3, LongestMarker DEF ProcessByte, ByteStep
<1> HIDE DEF tag, g
<1>5. EmitOutside(f, <<b>>) \in FilterStates
  BY OneByte, EmitOutsideFacts
<1>6. EmitOutside(f, tag) \in FilterStates
  BY <1>2, EmitOutsideFacts
<1>7. \A e \in FilterStates : [e EXCEPT !.tag = <<>>] \in FilterStates
  BY <1>1, TagFacts
<1>8. \A t \in BOOLEAN : [f EXCEPT !.think = t, !.tag = <<>>] \in FilterStates
  BY <1>1, FlagFacts
<1>9. [f EXCEPT !.tag = tag] \in FilterStates
  BY <1>2, TagFacts
<1>10. g \in FilterStates
  BY <1>4, <1>5, <1>6, <1>7, <1>8, <1>9 DEF ByteStep
<1> QED BY <1>2, <1>4, <1>10 DEF tag, g

\* on_token: the filter's states after the bytes of a chunk, one by one.
LEMMA ProcessBytesLoop ==
    ASSUME NEW f \in FilterStates, NEW chunk \in Str
    PROVE  \E h : /\ h \in [0 .. Len(chunk) -> FilterStates] /\ h[0] = f
                  /\ \A i \in 1 .. Len(chunk) : h[i] = ProcessByte(h[i - 1], chunk[i])
                  /\ ProcessBytes(f, chunk) = h[Len(chunk)]
<1> DEFINE n == Len(chunk)
           G == [i \in 1 .. n |-> [s \in FilterStates |-> ProcessByte(s, chunk[i])]]
           Eq(h) == h = [i \in 0 .. n |-> IF i = 0 THEN f ELSE ProcessByte(h[i - 1], chunk[i])]
           after == CHOOSE h : Eq(h)
<1>1. n \in Nat /\ \A i \in 1 .. n : chunk[i] \in Bytes
  BY StrFacts
<1>2. \A s \in FilterStates, b \in Bytes : ProcessByte(s, b) \in FilterStates
  BY ProcessByteCases
<1>3. G \in [1 .. n -> [FilterStates -> FilterStates]]
  BY <1>1, <1>2
<1>4. PICK h : Loop(FilterStates, n, f, G, h)
  <2> HIDE DEF G, n
  <2> QED BY <1>1, <1>3, Recursion
<1>5. /\ h \in [0 .. n -> FilterStates] /\ h[0] = f
      /\ \A i \in 1 .. n : h[i] = ProcessByte(h[i - 1], chunk[i])
  <2>1. \A i \in 1 .. n : h[i - 1] \in FilterStates
    BY <1>1, <1>4 DEF Loop
  <2> QED BY <1>4, <2>1 DEF Loop
<1> HIDE DEF n, G
<1>6. Eq(h)
  BY <1>1, <1>5
<1>7. Eq(after)
  <2> HIDE DEF Eq
  <2> QED BY <1>6
<1>8. ProcessBytes(f, chunk) = after[n]
  BY DEF ProcessBytes, n
<1> HIDE DEF after
<1>9. /\ after[0] = f
      /\ \A i \in 1 .. n : after[i] = ProcessByte(after[i - 1], chunk[i])
  BY <1>1, <1>7
<1> HIDE DEF Eq
<1> DEFINE T == {i \in 0 .. n : after[i] = h[i]}
<1>10. 0 \in T
  BY <1>1, <1>5, <1>9
<1>11. \A i \in 0 .. n : i < n /\ i \in T => i + 1 \in T
  <2> SUFFICES ASSUME NEW i \in 0 .. n, i < n, after[i] = h[i]
               PROVE  i + 1 \in 0 .. n /\ after[i + 1] = h[i + 1]
    OBVIOUS
  <2>1. i + 1 \in 1 .. n /\ i + 1 \in 0 .. n /\ (i + 1) - 1 = i
    BY <1>1
  <2>2. after[i + 1] = ProcessByte(after[i], chunk[i + 1])
    BY <1>9, <2>1
  <2>3. h[i + 1] = ProcessByte(h[i], chunk[i + 1])
    BY <1>5, <2>1
  <2> QED BY <2>1, <2>2, <2>3
<1>12. n \in T
  <2> HIDE DEF T
  <2>1. \A i \in 0 .. n : i \in T
    BY <1>1, <1>10, <1>11, Induction
  <2> QED BY <1>1, <2>1
<1>13. ProcessBytes(f, chunk) = h[n]
  BY <1>8, <1>12
<1> QED BY <1>5, <1>13 DEF n

\* What every byte keeps, a chunk keeps: J relates the filter to the bytes it
\* was given.
LEMMA ChunkKeeps ==
    ASSUME NEW J, \A f \in FilterStates, r \in Str, b \in Bytes :
                      <<f, r>> \in J => <<ProcessByte(f, b), Append(r, b)>> \in J,
           NEW f \in FilterStates, NEW r \in Str, <<f, r>> \in J, NEW chunk \in Str
    PROVE  /\ ProcessBytes(f, chunk) \in FilterStates
           /\ <<ProcessBytes(f, chunk), r \o chunk>> \in J
<1>1. PICK h : /\ h \in [0 .. Len(chunk) -> FilterStates] /\ h[0] = f
               /\ \A i \in 1 .. Len(chunk) : h[i] = ProcessByte(h[i - 1], chunk[i])
               /\ ProcessBytes(f, chunk) = h[Len(chunk)]
  BY ProcessBytesLoop
<1> DEFINE n == Len(chunk)
           T == {i \in 0 .. n : <<h[i], r \o SubSeq(chunk, 1, i)>> \in J}
<1>2. n \in Nat /\ \A i \in 1 .. n : chunk[i] \in Bytes
  BY StrFacts
<1>3. 0 \in T
  <2>1. SubSeq(chunk, 1, 0) = <<>>
    BY SubSeqEmpty
  <2>2. r \o <<>> = r
    BY ConcatLaws
  <2>3. h[0] = f /\ r \o SubSeq(chunk, 1, 0) = r
    BY <1>1, <2>1, <2>2
  <2>4. <<h[0], r \o SubSeq(chunk, 1, 0)>> \in J
    BY <2>3
  <2> QED BY <1>2, <2>4
<1>4. \A i \in 0 .. n : i < n /\ i \in T => i + 1 \in T
  <2> SUFFICES ASSUME NEW i \in 0 .. n, i < n, i \in T PROVE i + 1 \in T
    OBVIOUS
  <2> DEFINE a == SubSeq(chunk, 1, i)
             b == chunk[i + 1]
  <2>1. i + 1 \in 1 .. n /\ i + 1 \in 0 .. n /\ (i + 1) - 1 = i
    BY <1>2
  <2>2. a \in Str /\ b \in Bytes
    BY <1>2, <2>1, CutFacts
  <2>3. SubSeq(chunk, 1, i + 1) = a \o <<b>>
    <3>1. 1 \in 1 .. Len(chunk) /\ i + 1 \in 1 .. Len(chunk)
      BY <1>2, <2>1
    <3> QED BY <2>1, <3>1, SubSeqRecursiveSecond DEF Str
  <2>4. h[i] \in FilterStates /\ h[i + 1] = ProcessByte(h[i], b)
    BY <1>1, <2>1
  <2>5. <<h[i], r \o a>> \in J
    OBVIOUS
  <2> HIDE DEF a, b, n
  <2>6. r \o a \in Str /\ Append(r \o a, b) = (r \o a) \o <<b>>
    BY <2>2, ConcatFacts, AppendFacts
  <2>7. (r \o a) \o <<b>> = r \o (a \o <<b>>)
    BY <2>2, OneByte, ConcatLaws
  <2>8. <<h[i + 1], r \o SubSeq(chunk, 1, i + 1)>> \in J
    <3>1. <<ProcessByte(h[i], b), Append(r \o a, b)>> \in J
      BY <2>2, <2>4, <2>5, <2>6
    <3> QED BY <3>1, <2>3, <2>4, <2>6, <2>7
  <2> QED BY <2>1, <2>8
<1>5. n \in T
  <2> HIDE DEF T, n
  <2>1. \A i \in 0 .. n : i \in T
    BY <1>2, <1>3, <1>4, Induction
  <2> QED BY <1>2, <2>1
<1>6. SubSeq(chunk, 1, n) = chunk
  BY SubSeqFull DEF Str
<1> QED BY <1>1, <1>2, <1>5, <1>6

LEMMA ChunkType ==
    ASSUME NEW f \in FilterStates, NEW chunk \in Str
    PROVE  ProcessBytes(f, chunk) \in FilterStates
BY ProcessBytesLoop, StrFacts

(***************************************************************************)
(* Whole characters.                                                       *)
(***************************************************************************)
\* Continuation bytes are where a character reaches, and only there.
Aligned(s) == \A i \in 1 .. Len(s) : s[i] = "+" <=> WithinChar(s, i)

EndsInside(s) == WithinChar(s, Len(s) + 1)

\* t is what r ends with.
Ending(t, r) == /\ Len(t) <= Len(r)
                /\ \A i \in 1 .. Len(t) : t[i] = r[Len(r) - Len(t) + i]

\* t is the beginning of the character that r stops in.
Incomplete(t, r) == Ending(t, r) /\ Len(t) > 0 /\ CharLen(t[1]) > 0

\* Of an aligned generation, whole characters were delivered; the character
\* buffer has the beginning of an incomplete one, if it is to be delivered and
\* no marker is being read.
Whole(f, r) ==
    /\ Ending(f.tag, r) /\ (f.tag # <<>> => f.tag[1] = "<")
    /\ Aligned(r) => /\ \A i \in 1 .. Len(f.out) : Utf8(f.out[i])
                     /\ IF ~f.think /\ f.tag = <<>> /\ EndsInside(r)
                        THEN Incomplete(f.utf8, r) ELSE f.utf8 = <<>>

\* Where characters reach is decided by the bytes before.
LEMMA WithinPrefix ==
    ASSUME NEW s \in Str, NEW t \in Str, NEW n \in Nat, n <= Len(s), n <= Len(t),
           \A i \in 1 .. n : t[i] = s[i], NEW i \in 1 .. n + 1
    PROVE  WithinChar(t, i) <=> WithinChar(s, i)
<1>1. \A k \in 1 .. 3 : k < i => i - k \in 1 .. n
  OBVIOUS
<1>2. \A k \in 1 .. 3 : k < i => t[i - k] = s[i - k]
  BY <1>1
<1> QED BY <1>2 DEF WithinChar

\* A beginning of an aligned text is aligned.
LEMMA PrefixAligned ==
    ASSUME NEW s \in Str, NEW t \in Str, Aligned(s), Len(t) <= Len(s),
           \A i \in 1 .. Len(t) : t[i] = s[i]
    PROVE  Aligned(t) /\ (EndsInside(t) <=> WithinChar(s, Len(t) + 1))
<1>1. Len(t) \in Nat /\ Len(s) \in Nat
  BY StrFacts
<1>2. \A i \in 1 .. Len(t) + 1 : WithinChar(t, i) <=> WithinChar(s, i)
  BY <1>1, WithinPrefix
<1>3. ASSUME NEW i \in 1 .. Len(t) PROVE t[i] = "+" <=> WithinChar(t, i)
  <2>1. i \in 1 .. Len(t) + 1 /\ i \in 1 .. Len(s)
    BY <1>1
  <2> QED BY <1>2, <2>1 DEF Aligned
<1>4. Len(t) + 1 \in 1 .. Len(t) + 1
  BY <1>1
<1> QED BY <1>2, <1>3, <1>4 DEF Aligned, EndsInside

\* A beginning of an aligned text is made of whole characters if it does not
\* stop inside one.
LEMMA PrefixUtf8 ==
    ASSUME NEW s \in Str, Aligned(s), NEW n \in 0 .. Len(s), ~WithinChar(s, n + 1)
    PROVE  Utf8(SubSeq(s, 1, n))
<1> DEFINE t == SubSeq(s, 1, n)
<1>1. t \in Str /\ Len(t) = n /\ \A i \in 1 .. n : t[i] = s[i]
  BY CutFacts
<1>2. Len(s) \in Nat /\ n \in Nat /\ n <= Len(s)
  BY StrFacts
<1> HIDE DEF t
<1>3. Aligned(t) /\ ~EndsInside(t)
  BY <1>1, <1>2, PrefixAligned
<1> QED BY <1>3 DEF Utf8, Aligned, EndsInside, t

\* The last lead byte of an aligned text decides whether the text stops inside a
\* character; it is one of the last four bytes.
LEMMA LastLead ==
    ASSUME NEW s \in Str, Aligned(s), Len(s) > 0
    PROVE  /\ Leads(s) # {}
           /\ \A k \in 1 .. 4 :
                 k <= Len(s) /\ CharLen(s[Len(s) + 1 - k]) > 0 /\ (\A i \in Leads(s) : k <= i)
                 => (EndsInside(s) <=> k < CharLen(s[Len(s) + 1 - k]))
<1>1. Len(s) \in Nat /\ Len(s) \in 1 .. Len(s)
  BY StrFacts
<1>2. \A i \in 1 .. 4 : i <= Len(s) /\ CharLen(s[Len(s) + 1 - i]) > 0 => i \in Leads(s)
  BY HeldFacts
<1>3. Leads(s) # {}
  <2>1. CASE s[Len(s)] # "+"
    <3>1. CharLen(s[Len(s)]) > 0 /\ Len(s) + 1 - 1 = Len(s) /\ 1 <= Len(s) /\ 1 \in 1 .. 4
      BY <1>1, <2>1, Lengths
    <3> QED BY <1>2, <3>1
  <2>2. CASE s[Len(s)] = "+"
    <3>1. WithinChar(s, Len(s))
      BY <1>1, <2>2 DEF Aligned
    <3>2. PICK k \in 1 .. 3 : k < Len(s) /\ CharLen(s[Len(s) - k]) > k
      BY <3>1 DEF WithinChar
    <3>3. k + 1 \in 1 .. 4 /\ k + 1 <= Len(s) /\ Len(s) + 1 - (k + 1) = Len(s) - k
      BY <1>1, <3>2
    <3>4. CharLen(s[Len(s) + 1 - (k + 1)]) > 0
      BY <3>2, <3>3, Lengths
    <3> QED BY <1>2, <3>3, <3>4
  <2> QED BY <2>1, <2>2
<1>4. ASSUME NEW k \in 1 .. 4, k <= Len(s), CharLen(s[Len(s) + 1 - k]) > 0,
             \A i \in Leads(s) : k <= i
      PROVE  EndsInside(s) <=> k < CharLen(s[Len(s) + 1 - k])
  <2>1. ASSUME k < CharLen(s[Len(s) + 1 - k]) PROVE EndsInside(s)
    <3>1. CharLen(s[Len(s) + 1 - k]) \in 0 .. 4
      BY Lengths
    <3>2. k \in 1 .. 3 /\ k < Len(s) + 1
      BY <1>1, <1>4, <2>1, <3>1
    <3> QED BY <2>1, <3>2 DEF EndsInside, WithinChar
  <2>2. ASSUME EndsInside(s) PROVE k < CharLen(s[Len(s) + 1 - k])
    <3>1. PICK d \in 1 .. 3 : d < Len(s) + 1 /\ CharLen(s[Len(s) + 1 - d]) > d
      BY <2>2 DEF EndsInside, WithinChar
    <3>2. d \in Leads(s)
      <4>1. d \in 1 .. 4 /\ d <= Len(s)
        BY <1>1, <3>1
      <4>2. CharLen(s[Len(s) + 1 - d]) > 0
        BY <3>1, Lengths
      <4> QED BY <1>2, <4>1, <4>2
    <3>3. k <= d
      BY <1>4, <3>2
    <3>4. CASE k = d
      BY <3>1, <3>4
    <3>5. CASE k # d
      <4> DEFINE j == Len(s) + 1 - k
                 e == d - k
      <4>1. /\ e \in 1 .. 3 /\ e < j /\ j - e = Len(s) + 1 - d /\ j \in 1 .. Len(s)
            /\ e <= d
        BY <1>1, <1>4, <3>1, <3>3, <3>5
      <4>2. CharLen(s[j - e]) > e
        <5>1. CharLen(s[Len(s) + 1 - d]) \in 0 .. 4
          BY Lengths
        <5> QED BY <3>1, <4>1, <5>1
      <4> HIDE DEF e
      <4>3. s[j] = "+"
        <5> HIDE DEF j
        <5>1. WithinChar(s, j)
          BY <4>1, <4>2 DEF WithinChar
        <5> QED BY <4>1, <5>1 DEF Aligned
      <4> QED BY <1>4, <4>3, Lengths
    <3> QED BY <3>4, <3>5
  <2> QED BY <2>1, <2>2
<1> QED BY <1>3, <1>4

\* emit_utf8_safe on aligned bytes.
LEMMA EmitWhole ==
    ASSUME NEW f \in FilterStates, NEW bytes \in Str,
           Aligned(Buffer(f, bytes)), Len(Buffer(f, bytes)) > 0,
           \A i \in 1 .. Len(f.out) : Utf8(f.out[i])
    PROVE  /\ \A i \in 1 .. Len(Emit(f, bytes).out) : Utf8(Emit(f, bytes).out[i])
           /\ IF EndsInside(Buffer(f, bytes))
              THEN Incomplete(Emit(f, bytes).utf8, Buffer(f, bytes))
              ELSE Emit(f, bytes).utf8 = <<>>
<1> DEFINE s == Buffer(f, bytes)
           n == Safe(f, bytes)
           g == Emit(f, bytes)
           a == SubSeq(s, 1, n)
<1>1. /\ s \in Str /\ n \in 0 .. Len(s) /\ g \in FilterStates
      /\ g.utf8 = SubSeq(s, n + 1, Len(s))
      /\ g.out = IF n > 0 THEN Append(f.out, a) ELSE f.out
  BY EmitFacts
<1>2. n = Len(s) - Held(s) /\ Aligned(s) /\ Len(s) > 0
  BY DEF Safe
<1>3. f.out \in Seq(Str)
  BY DEF FilterStates
<1> HIDE DEF s, n, g
<1>4. Len(s) \in Nat
  BY <1>1, StrFacts
<1>5. PICK k \in 1 .. 4 :
          /\ k <= Len(s) /\ CharLen(s[Len(s) + 1 - k]) > 0
          /\ \A i \in Leads(s) : k <= i
          /\ Held(s) = IF k >= CharLen(s[Len(s) + 1 - k]) THEN 0 ELSE k
  BY <1>1, <1>2, HeldFacts, LastLead
<1>6. EndsInside(s) <=> k < CharLen(s[Len(s) + 1 - k])
  BY <1>1, <1>2, <1>5, LastLead
<1>7. CharLen(s[Len(s) + 1 - k]) \in Nat
  BY Lengths
<1>8. n = IF EndsInside(s) THEN Len(s) - k ELSE Len(s)
  <2> DEFINE c == CharLen(s[Len(s) + 1 - k])
  <2>1. Held(s) = (IF k >= c THEN 0 ELSE k) /\ (EndsInside(s) <=> k < c) /\ c \in Nat
    BY <1>5, <1>6, <1>7
  <2> HIDE DEF c
  <2>2. CASE EndsInside(s)
    <3>1. ~(k >= c)
      BY <2>1, <2>2
    <3> QED BY <1>2, <2>1, <2>2, <3>1
  <2>3. CASE ~EndsInside(s)
    <3>1. k >= c
      BY <2>1, <2>3
    <3>2. Held(s) = 0
      BY <2>1, <3>1
    <3> QED BY <1>2, <1>4, <2>3, <3>2
  <2> QED BY <2>2, <2>3
<1>9. ~WithinChar(s, n + 1)
  <2>1. CASE EndsInside(s)
    <3>1. n + 1 = Len(s) + 1 - k /\ n + 1 \in 1 .. Len(s)
      BY <1>4, <1>5, <1>8, <2>1
    <3>2. s[n + 1] # "+"
      BY <1>5, <3>1, Lengths
    <3> QED BY <1>2, <3>1, <3>2 DEF Aligned
  <2>2. CASE ~EndsInside(s)
    BY <1>8, <2>2 DEF EndsInside
  <2> QED BY <2>1, <2>2
<1>10. Utf8(a)
  BY <1>1, <1>2, <1>9, PrefixUtf8
<1>11. \A i \in 1 .. Len(g.out) : Utf8(g.out[i])
  <2>1. a \in Str
    BY <1>1, CutFacts
  <2> HIDE DEF a
  <2>2. /\ Append(f.out, a) \in Seq(Str) /\ Len(Append(f.out, a)) = Len(f.out) + 1
        /\ \A i \in 1 .. Len(f.out) : Append(f.out, a)[i] = f.out[i]
        /\ Append(f.out, a)[Len(f.out) + 1] = a
    BY <1>3, <2>1, AppendProperties
  <2>3. Len(f.out) \in Nat
    BY <1>3
  <2> QED BY <1>1, <1>10, <2>2, <2>3
<1>12. IF EndsInside(s) THEN Incomplete(g.utf8, s) ELSE g.utf8 = <<>>
  <2>1. CASE EndsInside(s)
    <3>1. n + 1 = Len(s) + 1 - k /\ n + 1 >= 1 /\ n + 1 <= Len(s)
          /\ Len(s) - (n + 1) + 1 = k /\ 1 \in 1 .. k /\ n + 1 \in Nat
      BY <1>4, <1>5, <1>8, <2>1
    <3>2. /\ Len(g.utf8) = k
          /\ \A i \in 1 .. k : g.utf8[i] = s[n + 1 + i - 1]
      BY <1>1, <1>4, <3>1, PartFacts
    <3>3. ASSUME NEW i \in 1 .. Len(g.utf8)
          PROVE  g.utf8[i] = s[Len(s) - Len(g.utf8) + i]
      <4>1. n + 1 + i - 1 = Len(s) - Len(g.utf8) + i
        BY <1>4, <3>1, <3>2
      <4> QED BY <3>2, <4>1
    <3>4. Ending(g.utf8, s)
      BY <1>4, <1>5, <3>2, <3>3 DEF Ending
    <3>5. g.utf8[1] = s[Len(s) + 1 - k]
      <4>1. n + 1 + 1 - 1 = Len(s) + 1 - k
        BY <3>1
      <4> QED BY <3>1, <3>2, <4>1
    <3> QED BY <1>5, <2>1, <3>2, <3>4, <3>5 DEF Incomplete
  <2>2. CASE ~EndsInside(s)
    <3>1. SubSeq(s, n + 1, Len(s)) = <<>>
      BY <1>4, <1>8, <2>2, SubSeqEmpty
    <3> QED BY <1>1, <2>2, <3>1
  <2> QED BY <2>1, <2>2
<1> QED BY <1>11, <1>12 DEF g, s

\* A byte more at the end of the text and of the marker buffer.
LEMMA EndingGrows ==
    ASSUME NEW t \in Str, NEW r \in Str, NEW b \in Bytes, Ending(t, r)
    PROVE  Ending(Append(t, b), Append(r, b)) /\ Ending(<<>>, Append(r, b))
<1> DEFINE u == Append(t, b)
           v == Append(r, b)
<1>1. /\ Len(u) = Len(t) + 1 /\ u[Len(t) + 1] = b
      /\ \A i \in 1 .. Len(t) : u[i] = t[i]
  BY AppendFacts
<1>2. /\ Len(v) = Len(r) + 1 /\ v[Len(r) + 1] = b
      /\ \A i \in 1 .. Len(r) : v[i] = r[i]
  BY AppendFacts
<1>3. Len(t) \in Nat /\ Len(r) \in Nat /\ Len(t) <= Len(r)
  BY StrFacts DEF Ending
<1> HIDE DEF u, v
<1>4. ASSUME NEW i \in 1 .. Len(u) PROVE u[i] = v[Len(v) - Len(u) + i]
  <2>1. Len(v) - Len(u) + i = Len(r) - Len(t) + i
    BY <1>1, <1>2, <1>3
  <2>2. CASE i = Len(t) + 1
    <3>1. Len(r) - Len(t) + i = Len(r) + 1
      BY <1>3, <2>2
    <3> QED BY <1>1, <1>2, <2>1, <2>2, <3>1
  <2>3. CASE i # Len(t) + 1
    <3>1. i \in 1 .. Len(t) /\ Len(r) - Len(t) + i \in 1 .. Len(r)
      BY <1>1, <1>3, <2>3
    <3>2. t[i] = r[Len(r) - Len(t) + i]
      BY <3>1 DEF Ending
    <3> QED BY <1>1, <1>2, <2>1, <3>1, <3>2
  <2> QED BY <2>2, <2>3
<1>5. Len(u) <= Len(v) /\ 0 <= Len(v)
  BY <1>1, <1>2, <1>3
<1> QED BY <1>4, <1>5, StrFacts DEF Ending, u, v

\* An ending of an ending.
LEMMA EndingOfEnding ==
    ASSUME NEW t \in Str, NEW u \in Str, NEW r \in Str, Ending(t, u), Ending(u, r)
    PROVE  Ending(t, r)
<1>1. /\ Len(t) \in Nat /\ Len(u) \in Nat /\ Len(r) \in Nat
      /\ Len(t) <= Len(u) /\ Len(u) <= Len(r)
  BY StrFacts DEF Ending
<1>2. ASSUME NEW i \in 1 .. Len(t) PROVE t[i] = r[Len(r) - Len(t) + i]
  <2> DEFINE j == Len(u) - Len(t) + i
  <2>1. j \in 1 .. Len(u) /\ Len(r) - Len(u) + j = Len(r) - Len(t) + i
    BY <1>1
  <2>2. t[i] = u[j]
    BY DEF Ending
  <2> HIDE DEF j
  <2>3. u[j] = r[Len(r) - Len(u) + j]
    BY <2>1 DEF Ending
  <2> QED BY <2>1, <2>2, <2>3
<1> QED BY <1>1, <1>2 DEF Ending

\* An ending of an aligned text that does not begin inside a character is
\* aligned: no character before it reaches into it.
LEMMA EndingAligned ==
    ASSUME NEW t \in Str, NEW r \in Str, Ending(t, r), Aligned(r), Len(t) > 0, t[1] # "+"
    PROVE  Aligned(t) /\ (EndsInside(t) <=> EndsInside(r))
<1>1. Len(t) \in Nat /\ Len(r) \in Nat /\ Len(t) <= Len(r) /\ Len(t) > 0
  BY StrFacts DEF Ending
<1> DEFINE m == Len(r) - Len(t)
<1>2. m \in Nat /\ \A i \in 1 .. Len(t) : t[i] = r[m + i]
  BY <1>1 DEF Ending
<1>3. m + Len(t) = Len(r)
  BY <1>1
<1> HIDE DEF m
<1>4. ~WithinChar(r, m + 1)
  <2>1. m + 1 \in 1 .. Len(r) /\ 1 \in 1 .. Len(t)
    BY <1>1, <1>2, <1>3
  <2>2. r[m + 1] # "+"
    BY <1>2, <2>1
  <2> QED BY <2>1, <2>2 DEF Aligned
<1>5. ASSUME NEW i \in 1 .. Len(t) + 1 PROVE WithinChar(t, i) <=> WithinChar(r, m + i)
  <2>1. ASSUME WithinChar(t, i) PROVE WithinChar(r, m + i)
    <3>1. PICK k \in 1 .. 3 : k < i /\ CharLen(t[i - k]) > k
      BY <2>1 DEF WithinChar
    <3>2. i - k \in 1 .. Len(t) /\ m + (i - k) = (m + i) - k /\ k < m + i
      BY <1>1, <1>2, <3>1
    <3>3. t[i - k] = r[(m + i) - k]
      BY <1>2, <3>2
    <3> QED BY <3>1, <3>2, <3>3 DEF WithinChar
  <2>2. ASSUME WithinChar(r, m + i) PROVE WithinChar(t, i)
    <3>1. PICK k \in 1 .. 3 : k < m + i /\ CharLen(r[(m + i) - k]) > k
      BY <2>2 DEF WithinChar
    <3>2. CASE k < i
      <4>1. i - k \in 1 .. Len(t) /\ m + (i - k) = (m + i) - k
        BY <1>1, <1>2, <3>1, <3>2
      <4>2. t[i - k] = r[(m + i) - k]
        BY <1>2, <4>1
      <4> QED BY <3>1, <3>2, <4>2 DEF WithinChar
    <3>3. CASE ~(k < i)
      <4> DEFINE d == k - i + 1
      <4>1. d \in 1 .. 3 /\ d < m + 1 /\ (m + 1) - d = (m + i) - k /\ d <= k
        BY <1>1, <1>2, <3>1, <3>3
      <4> HIDE DEF d
      <4>2. CharLen(r[(m + 1) - d]) > d
        <5>1. CharLen(r[(m + i) - k]) \in Nat
          BY Lengths
        <5> QED BY <3>1, <4>1, <5>1
      <4> QED BY <1>4, <4>1, <4>2 DEF WithinChar
    <3> QED BY <3>2, <3>3
  <2> QED BY <2>1, <2>2
<1>6. ASSUME NEW i \in 1 .. Len(t) PROVE t[i] = "+" <=> WithinChar(t, i)
  <2> DEFINE j == m + i
  <2>1. j \in 1 .. Len(r) /\ i \in 1 .. Len(t) + 1 /\ t[i] = r[j]
    BY <1>1, <1>2, <1>3
  <2>2. WithinChar(t, i) <=> WithinChar(r, j)
    BY <1>5, <2>1
  <2> HIDE DEF j
  <2> QED BY <2>1, <2>2 DEF Aligned
<1>7. WithinChar(t, Len(t) + 1) <=> WithinChar(r, Len(r) + 1)
  <2>1. Len(t) + 1 \in 1 .. Len(t) + 1 /\ m + (Len(t) + 1) = Len(r) + 1
    BY <1>1, <1>2, <1>3
  <2> QED BY <1>5, <2>1
<1> QED BY <1>6, <1>7 DEF Aligned, EndsInside

\* process_byte delivers whole characters only.
LEMMA WholeStep ==
    ASSUME NEW f \in FilterStates, NEW r \in Str, NEW b \in Bytes, Whole(f, r)
    PROVE  Whole(ProcessByte(f, b), Append(r, b))
<1> DEFINE g == ProcessByte(f, b)
           v == Append(r, b)
           tag == Append(f.tag, b)
<1>1. f.tag \in Str /\ f.utf8 \in Str /\ f.out \in Seq(Str) /\ f.think \in BOOLEAN
  BY DEF FilterStates
<1>2. /\ v \in Str /\ Len(v) = Len(r) + 1 /\ v[Len(r) + 1] = b
      /\ \A i \in 1 .. Len(r) : v[i] = r[i]
  BY AppendFacts
<1>3. /\ tag \in Str /\ Len(tag) = Len(f.tag) + 1 /\ tag[Len(f.tag) + 1] = b
      /\ \A i \in 1 .. Len(f.tag) : tag[i] = f.tag[i]
  BY <1>1, AppendFacts
<1>4. Ending(tag, v) /\ Ending(<<>>, v)
  BY <1>1, EndingGrows DEF Whole
<1>5. g \in FilterStates /\ ByteStep(f, b, tag, g)
  BY ProcessByteCases
<1> HIDE DEF g, v, tag
<1>6. Len(r) \in Nat /\ Len(f.tag) \in Nat /\ (f.tag = <<>> <=> Len(f.tag) = 0)
  BY <1>1, StrFacts
<1>7. v[Len(v)] = b /\ Len(v) > 0
  BY <1>2, <1>6
<1>8. ASSUME Aligned(v)
      PROVE  /\ Aligned(r) /\ (b = "+" <=> EndsInside(r))
             /\ \A i \in 1 .. Len(f.out) : Utf8(f.out[i])
             /\ IF ~f.think /\ f.tag = <<>> /\ EndsInside(r)
                THEN Incomplete(f.utf8, r) ELSE f.utf8 = <<>>
  <2>1. Aligned(r) /\ (EndsInside(r) <=> WithinChar(v, Len(r) + 1))
    <3>1. Len(r) <= Len(v)
      BY <1>2, <1>6
    <3> QED BY <1>2, <1>8, <3>1, PrefixAligned
  <2>2. b = "+" <=> EndsInside(r)
    <3>1. Len(r) + 1 \in 1 .. Len(v)
      BY <1>2, <1>6
    <3>2. v[Len(r) + 1] = "+" <=> WithinChar(v, Len(r) + 1)
      BY <1>8, <3>1 DEF Aligned
    <3> QED BY <1>2, <2>1, <3>2
  <2> QED BY <2>1, <2>2 DEF Whole
<1>9. tag # <<>> /\ (f.tag # <<>> \/ b = "<" => tag[1] = "<")
  <2>1. tag # <<>>
    BY <1>3, <1>6, StrFacts
  <2>2. CASE f.tag = <<>>
    BY <1>3, <1>6, <2>1, <2>2
  <2>3. CASE f.tag # <<>>
    <3>1. 1 \in 1 .. Len(f.tag) /\ f.tag[1] = "<"
      BY <1>6, <2>3 DEF Whole
    <3> QED BY <1>3, <2>1, <3>1
  <2> QED BY <2>2, <2>3
<1>10. ASSUME Aligned(v), f.tag # <<>> \/ b = "<"
       PROVE  f.utf8 = <<>>
  <2>1. "<" # "+"
    OBVIOUS
  <2> QED BY <1>8, <1>10, <2>1
<1>11. CASE f.tag = <<>> /\ b # "<" /\ g = EmitOutside(f, <<b>>)
  <2>1. g.tag = <<>> /\ g.think = f.think /\ <<b>> \in Str
    BY <1>11, OneByte, EmitOutsideFacts
  <2>2. ASSUME Aligned(v)
        PROVE  /\ \A i \in 1 .. Len(g.out) : Utf8(g.out[i])
               /\ IF ~g.think /\ g.tag = <<>> /\ EndsInside(v)
                  THEN Incomplete(g.utf8, v) ELSE g.utf8 = <<>>
    <3>1. CASE f.think
      <4>1. g = f
        BY <1>11, <3>1 DEF EmitOutside
      <4> QED BY <1>8, <2>2, <3>1, <4>1
    <3>2. CASE ~f.think
      <4> DEFINE s == Buffer(f, <<b>>)
      <4>1. g = Emit(f, <<b>>)
        BY <1>11, <3>2 DEF EmitOutside
      <4>2. Ending(f.utf8, r) /\ (f.utf8 = <<>> => b # "+") /\ (f.utf8 # <<>> => f.utf8[1] # "+")
        <5>1. CASE EndsInside(r)
          <6>1. Ending(f.utf8, r) /\ Len(f.utf8) > 0 /\ CharLen(f.utf8[1]) > 0
            BY <1>8, <1>11, <2>2, <3>2, <5>1 DEF Incomplete
          <6> QED BY <1>1, <6>1, Lengths, StrFacts
        <5>2. CASE ~EndsInside(r)
          <6>1. f.utf8 = <<>> /\ b # "+"
            BY <1>8, <2>2, <5>2
          <6>2. Ending(<<>>, r)
            BY <1>6, StrFacts DEF Ending
          <6> QED BY <6>1, <6>2
        <5> QED BY <5>1, <5>2
      <4>3. s = Append(f.utf8, b)
        BY <1>1, AppendFacts DEF Buffer
      <4>4. Len(f.utf8) \in Nat /\ (f.utf8 = <<>> <=> Len(f.utf8) = 0)
        BY <1>1, StrFacts
      <4> HIDE DEF s
      <4>5. /\ s \in Str /\ Len(s) = Len(f.utf8) + 1 /\ s[Len(f.utf8) + 1] = b
            /\ \A i \in 1 .. Len(f.utf8) : s[i] = f.utf8[i]
        BY <1>1, <4>3, AppendFacts
      <4>6. Ending(s, v)
        BY <1>1, <4>2, <4>3, EndingGrows DEF v
      <4>7. Len(s) > 0 /\ s[1] # "+"
        <5>1. CASE f.utf8 = <<>>
          <6>1. Len(f.utf8) + 1 = 1
            BY <4>4, <5>1
          <6> QED BY <4>2, <4>5, <5>1, <6>1
        <5>2. CASE f.utf8 # <<>>
          <6>1. 1 \in 1 .. Len(f.utf8)
            BY <4>4, <5>2
          <6> QED BY <4>2, <4>4, <4>5, <5>2, <6>1
        <5> QED BY <5>1, <5>2
      <4>8. Aligned(s) /\ (EndsInside(s) <=> EndsInside(v))
        BY <1>2, <2>2, <4>5, <4>6, <4>7, EndingAligned
      <4>9. /\ \A i \in 1 .. Len(g.out) : Utf8(g.out[i])
            /\ IF EndsInside(s) THEN Incomplete(g.utf8, s) ELSE g.utf8 = <<>>
        BY <1>8, <2>1, <2>2, <4>1, <4>7, <4>8, EmitWhole DEF s
      <4>10. g.utf8 \in Str
        BY <1>5 DEF FilterStates
      <4>11. Incomplete(g.utf8, s) => Incomplete(g.utf8, v)
        BY <1>2, <4>5, <4>6, <4>10, EndingOfEnding DEF Incomplete
      <4> QED BY <2>1, <3>2, <4>8, <4>9, <4>11
    <3> QED BY <3>1, <3>2
  <2> QED BY <1>4, <2>1, <2>2 DEF Whole, g, v
<1>12. CASE (f.tag # <<>> \/ b = "<") /\ tag \in {Open, Close}
            /\ g = [f EXCEPT !.think = (tag = Open), !.tag = <<>>]
  <2>1. g.tag = <<>> /\ g.utf8 = f.utf8 /\ g.out = f.out
    BY <1>12 DEF FilterStates
  <2>2. b = ">"
    <3>1. Len(tag) \in {3, 4} /\ tag[Len(tag)] = ">"
      BY <1>12, Markers
    <3> QED BY <1>3, <3>1
  <2>3. ASSUME Aligned(v) PROVE ~EndsInside(v)
    <3>1. CharLen(b) = 1
      BY <2>2 DEF CharLen
    <3>2. /\ 1 \in 1 .. 4 /\ 1 <= Len(v) /\ Len(v) + 1 - 1 = Len(v)
          /\ \A i \in Leads(v) : 1 <= i
      BY <1>2, <1>6, <1>7 DEF Leads
    <3> QED BY <1>2, <1>7, <2>3, <3>1, <3>2, LastLead
  <2>4. Whole(g, v)
    <3>1. Aligned(v) => /\ \A i \in 1 .. Len(g.out) : Utf8(g.out[i])
                        /\ ~EndsInside(v) /\ g.utf8 = <<>>
      BY <1>8, <1>10, <1>12, <2>1, <2>3
    <3> QED BY <1>4, <2>1, <3>1 DEF Whole
  <2> QED BY <2>4 DEF g, v
<1>13. CASE (f.tag # <<>> \/ b = "<") /\ tag \notin {Open, Close} /\ Len(tag) > 4
            /\ g = [EmitOutside(f, tag) EXCEPT !.tag = <<>>]
  <2> DEFINE e == EmitOutside(f, tag)
  <2>1. e \in FilterStates /\ e.think = f.think
    BY <1>3, EmitOutsideFacts
  <2>2. g.tag = <<>> /\ g.think = f.think /\ g.utf8 = e.utf8 /\ g.out = e.out
    <3> HIDE DEF e
    <3>1. g = [e EXCEPT !.tag = <<>>]
      BY <1>13 DEF e
    <3> QED BY <2>1, <3>1, StrFacts, TagFacts
  <2>3. ASSUME Aligned(v)
        PROVE  /\ \A i \in 1 .. Len(g.out) : Utf8(g.out[i])
               /\ IF ~g.think /\ g.tag = <<>> /\ EndsInside(v)
                  THEN Incomplete(g.utf8, v) ELSE g.utf8 = <<>>
    <3>0. f.utf8 = <<>> /\ \A i \in 1 .. Len(f.out) : Utf8(f.out[i])
      BY <1>8, <1>10, <1>13, <2>3
    <3>1. CASE f.think
      <4>1. e = f
        BY <3>1 DEF EmitOutside
      <4> QED BY <2>2, <3>0, <3>1, <4>1
    <3>2. CASE ~f.think
      <4>1. e = Emit(f, tag)
        BY <3>2 DEF EmitOutside
      <4>2. Buffer(f, tag) = tag
        BY <1>3, <3>0, ConcatLaws DEF Buffer
      <4>3. Len(tag) > 0 /\ tag[1] # "+"
        BY <1>3, <1>6, <1>9, <1>13
      <4>4. Aligned(tag) /\ (EndsInside(tag) <=> EndsInside(v))
        BY <1>2, <1>3, <1>4, <2>3, <4>3, EndingAligned
      <4>5. /\ \A i \in 1 .. Len(Emit(f, tag).out) : Utf8(Emit(f, tag).out[i])
            /\ IF EndsInside(tag) THEN Incomplete(Emit(f, tag).utf8, tag)
               ELSE Emit(f, tag).utf8 = <<>>
        BY <1>3, <3>0, <4>2, <4>3, <4>4, EmitWhole
      <4> HIDE DEF e
      <4>6. e.utf8 \in Str
        BY <2>1 DEF FilterStates
      <4>7. Incomplete(e.utf8, tag) => Incomplete(e.utf8, v)
        BY <1>2, <1>3, <1>4, <4>6, EndingOfEnding DEF Incomplete
      <4> QED BY <2>2, <3>2, <4>1, <4>4, <4>5, <4>7
    <3> QED BY <3>1, <3>2
  <2> QED BY <1>4, <2>2, <2>3 DEF Whole, g, v
<1>14. CASE (f.tag # <<>> \/ b = "<") /\ g = [f EXCEPT !.tag = tag]
  <2>1. g.tag = tag /\ g.think = f.think /\ g.utf8 = f.utf8 /\ g.out = f.out
    BY <1>3, <1>14, TagFacts
  <2> QED BY <1>4, <1>8, <1>9, <1>10, <1>14, <2>1 DEF Whole, g, v
<1> QED BY <1>5, <1>11, <1>12, <1>13, <1>14 DEF ByteStep, g, v

\* flush: the state before the buffers are cleared, and after.
BeforeFlush(f) == IF f.tag = <<>> THEN f ELSE EmitOutside(f, f.tag)
Flushed(f) == [BeforeFlush(f) EXCEPT
                  !.tag = <<>>, !.utf8 = <<>>,
                  !.out = IF BeforeFlush(f).utf8 = <<>> THEN @
                          ELSE Append(@, BeforeFlush(f).utf8)]

LEMMA FlushFacts ==
    ASSUME NEW f \in FilterStates
    PROVE  /\ BeforeFlush(f) \in FilterStates /\ Flushed(f) \in FilterStates
           /\ Flushed(f).out = IF BeforeFlush(f).utf8 = <<>> THEN BeforeFlush(f).out
                               ELSE Append(BeforeFlush(f).out, BeforeFlush(f).utf8)
<1> DEFINE e == BeforeFlush(f)
           o == IF e.utf8 = <<>> THEN e.out ELSE Append(e.out, e.utf8)
<1>1. f.tag \in Str
  BY DEF FilterStates
<1>2. EmitOutside(f, f.tag) \in FilterStates
  BY <1>1, EmitOutsideFacts
<1>3. e \in FilterStates
  BY <1>2 DEF BeforeFlush
<1>4. Flushed(f) = [e EXCEPT !.tag = <<>>, !.utf8 = <<>>, !.out = o]
  BY DEF Flushed
<1> HIDE DEF e
<1>5. o \in Seq(Str)
  BY <1>3 DEF FilterStates
<1> HIDE DEF o
<1>6. Flushed(f) \in FilterStates /\ Flushed(f).out = o
  BY <1>3, <1>4, <1>5, StrFacts DEF FilterStates
<1> QED BY <1>3, <1>6 DEF e, o

\* What flush delivers of a generation of whole characters.
LEMMA FlushWhole ==
    ASSUME NEW f \in FilterStates, NEW r \in Str, Whole(f, r), Utf8(r)
    PROVE  \A i \in 1 .. Len(Flushed(f).out) : Utf8(Flushed(f).out[i])
<1>1. f.tag \in Str /\ f.think \in BOOLEAN
  BY DEF FilterStates
<1>2. Aligned(r) /\ ~EndsInside(r)
  BY DEF Utf8, Aligned, EndsInside
<1>3. /\ \A i \in 1 .. Len(f.out) : Utf8(f.out[i])
      /\ f.utf8 = <<>>
  BY <1>2 DEF Whole
<1> DEFINE e == BeforeFlush(f)
<1>4. e.utf8 = <<>> /\ \A i \in 1 .. Len(e.out) : Utf8(e.out[i])
  <2>1. CASE f.tag = <<>> \/ f.think
    <3>1. e = f
      BY <2>1 DEF BeforeFlush, EmitOutside
    <3> QED BY <1>3, <3>1
  <2>2. CASE f.tag # <<>> /\ ~f.think
    <3>1. e = Emit(f, f.tag)
      BY <2>2 DEF BeforeFlush, EmitOutside
    <3>2. Buffer(f, f.tag) = f.tag
      BY <1>1, <1>3, ConcatLaws DEF Buffer
    <3>3. Ending(f.tag, r) /\ f.tag[1] = "<"
      BY <2>2 DEF Whole
    <3>4. Len(f.tag) > 0 /\ f.tag[1] # "+"
      BY <1>1, <2>2, <3>3, StrFacts
    <3>5. Aligned(f.tag) /\ (EndsInside(f.tag) <=> EndsInside(r))
      BY <1>1, <1>2, <3>3, <3>4, EndingAligned
    <3>6. /\ \A i \in 1 .. Len(Emit(f, f.tag).out) : Utf8(Emit(f, f.tag).out[i])
          /\ IF EndsInside(f.tag) THEN Incomplete(Emit(f, f.tag).utf8, f.tag)
             ELSE Emit(f, f.tag).utf8 = <<>>
      BY <1>1, <1>3, <3>2, <3>4, <3>5, EmitWhole
    <3> HIDE DEF e
    <3> QED BY <1>2, <3>1, <3>5, <3>6
  <2> QED BY <1>1, <2>1, <2>2
<1>5. Flushed(f).out = e.out
  BY <1>4, FlushFacts
<1> HIDE DEF e
<1> QED BY <1>4, <1>5

(***************************************************************************)
(* The steps of the specification.                                         *)
(***************************************************************************)
FilterTypeOK == /\ Current \in FilterStates
                /\ raw \in Str
                /\ ended \in BOOLEAN

LEMMA InitialState ==
    ASSUME Init
    PROVE  /\ FilterTypeOK /\ ~ended /\ raw = <<>>
           /\ Current = [think |-> FALSE, tag |-> <<>>, utf8 |-> <<>>, out |-> <<>>]
<1>1. <<>> \in Seq(Str)
  BY EmptySeq
<1> QED BY <1>1, StrFacts DEF Init, FilterTypeOK, Current, FilterStates

LEMMA OnTokenStep ==
    ASSUME FilterTypeOK, NEW chunk \in Tokens, OnToken(chunk)
    PROVE  /\ ~ended /\ ~ended' /\ chunk \in Str
           /\ raw' = raw \o chunk /\ Current' = ProcessBytes(Current, chunk)
<1>1. chunk \in Str
  BY TokensAssumption DEF Str
<1>2. ProcessBytes(Current, chunk) \in FilterStates
  BY <1>1, ChunkType DEF FilterTypeOK
<1> DEFINE g == ProcessBytes(Current, chunk)
<1>3. Becomes(g) /\ raw' = raw \o chunk /\ ~ended /\ ended' = ended
  BY DEF OnToken
<1> HIDE DEF g
<1>4. Current' = g
  <2>1. g = [think |-> g.think, tag |-> g.tag, utf8 |-> g.utf8, out |-> g.out]
    BY <1>2 DEF g, FilterStates
  <2> QED BY <1>3, <2>1 DEF Becomes, Current
<1> QED BY <1>1, <1>3, <1>4 DEF g

LEMMA FlushStep ==
    ASSUME FilterTypeOK, Flush
    PROVE  ~ended /\ ended' /\ raw' = raw /\ Current' = Flushed(Current)
<1> DEFINE g == Flushed(Current)
<1>1. Becomes(g) /\ ~ended /\ ended' = TRUE /\ raw' = raw
  <2>1. Current.tag = tag_buf
    BY DEF Current
  <2> QED BY <2>1 DEF Flush, Flushed, BeforeFlush
<1>2. g \in FilterStates
  BY FlushFacts DEF FilterTypeOK
<1> HIDE DEF g
<1>3. g = [think |-> g.think, tag |-> g.tag, utf8 |-> g.utf8, out |-> g.out]
  BY <1>2 DEF FilterStates
<1> QED BY <1>1, <1>3 DEF Becomes, Current, g

LEMMA FilterTypeStep ==
    ASSUME FilterTypeOK, [Next]_vars
    PROVE  FilterTypeOK'
<1>1. ASSUME NEW chunk \in Tokens, OnToken(chunk) PROVE FilterTypeOK'
  <2>1. /\ ~ended' /\ chunk \in Str /\ raw' = raw \o chunk
        /\ Current' = ProcessBytes(Current, chunk)
    BY <1>1, OnTokenStep
  <2>2. ProcessBytes(Current, chunk) \in FilterStates
    BY <2>1, ChunkType DEF FilterTypeOK
  <2>3. raw \o chunk \in Str
    BY <2>1, ConcatFacts DEF FilterTypeOK
  <2>4. ended' \in BOOLEAN
    BY <1>1 DEF OnToken, FilterTypeOK
  <2> QED BY <2>1, <2>2, <2>3, <2>4 DEF FilterTypeOK
<1>2. CASE Flush
  <2>1. raw' = raw /\ Current' = Flushed(Current) /\ ended' = TRUE
    BY <1>2, FlushStep DEF Flush
  <2> QED BY <2>1, FlushFacts DEF FilterTypeOK
<1>3. CASE UNCHANGED vars
  BY <1>3 DEF vars, FilterTypeOK, Current
<1> QED BY <1>1, <1>2, <1>3 DEF Next

(* The stream filter delivers whole characters: whatever the decoder's     *)
(* chunks, each chunk that on_token and flush pass on ends with a complete *)
(* character, if the generation does.                                      *)
THEOREM CharactersAreWhole == Spec => []WholeCharacters
<1> DEFINE Inv == /\ FilterTypeOK
                  /\ ~ended => Whole(Current, raw)
                  /\ WholeCharacters
<1>1. ASSUME Init PROVE Inv
  <2>1. /\ FilterTypeOK /\ ~ended /\ raw = <<>>
        /\ Current = [think |-> FALSE, tag |-> <<>>, utf8 |-> <<>>, out |-> <<>>]
    BY <1>1, InitialState
  <2>2. Whole(Current, raw)
    <3>1. Len(Current.out) = 0 /\ Current.tag = <<>> /\ Current.utf8 = <<>>
      BY <2>1
    <3>2. ~EndsInside(raw) /\ Ending(Current.tag, raw)
      BY <2>1, <3>1, StrFacts DEF EndsInside, WithinChar, Ending
    <3> QED BY <3>1, <3>2 DEF Whole
  <2> QED BY <2>1, <2>2 DEF WholeCharacters
<1>2. ASSUME Inv, [Next]_vars PROVE Inv'
  <2>1. FilterTypeOK'
    BY <1>2, FilterTypeStep
  <2>2. ASSUME NEW chunk \in Tokens, OnToken(chunk) PROVE Inv'
    <3>1. /\ ~ended /\ ~ended' /\ chunk \in Str /\ raw' = raw \o chunk
          /\ Current' = ProcessBytes(Current, chunk)
      BY <1>2, <2>2, OnTokenStep
    <3> DEFINE J == {p \in FilterStates \X Str : Whole(p[1], p[2])}
    <3>2. \A f \in FilterStates, r \in Str, b \in Bytes :
              <<f, r>> \in J => <<ProcessByte(f, b), Append(r, b)>> \in J
      BY ProcessByteCases, AppendFacts, WholeStep
    <3>3. Current \in FilterStates /\ raw \in Str /\ <<Current, raw>> \in J
      BY <1>2, <3>1 DEF FilterTypeOK
    <3>4. \A f, r : <<f, r>> \in J => Whole(f, r)
      OBVIOUS
    <3> HIDE DEF J
    <3>5. <<ProcessBytes(Current, chunk), raw \o chunk>> \in J
      BY <3>1, <3>2, <3>3, ChunkKeeps
    <3>6. Whole(Current, raw)'
      BY <3>1, <3>4, <3>5
    <3> QED BY <2>1, <3>1, <3>6 DEF WholeCharacters
  <2>3. CASE Flush
    <3>1. ~ended /\ ended' /\ raw' = raw /\ Current' = Flushed(Current)
      BY <1>2, <2>3, FlushStep
    <3>2. Utf8(raw) => \A i \in 1 .. Len(Flushed(Current).out) : Utf8(Flushed(Current).out[i])
      BY <1>2, <3>1, FlushWhole DEF FilterTypeOK
    <3>3. delivered' = Flushed(Current).out
      <4>1. delivered' = Current'.out
        BY DEF Current
      <4> QED BY <3>1, <4>1
    <3>4. WholeCharacters'
      BY <3>1, <3>2, <3>3 DEF WholeCharacters
    <3> QED BY <2>1, <3>1, <3>4
  <2>4. CASE UNCHANGED vars
    BY <1>2, <2>1, <2>4 DEF vars, Current, WholeCharacters
  <2> QED BY <1>2, <2>2, <2>3, <2>4 DEF Next
<1>3. Inv => WholeCharacters
  OBVIOUS
<1> QED BY <1>1, <1>2, <1>3, PTL DEF Spec

(***************************************************************************)
(* strip_think_blocks.                                                     *)
(***************************************************************************)
\* A marker in a text, byte by byte.
LEMMA AtBytes ==
    ASSUME NEW s \in Str, NEW m \in Str, Len(m) > 0, NEW i \in Nat, i >= 1
    PROVE  At(s, m, i) <=> /\ i + Len(m) - 1 <= Len(s)
                           /\ \A j \in 1 .. Len(m) : s[i + j - 1] = m[j]
<1>1. Len(s) \in Nat /\ Len(m) \in Nat
  BY StrFacts
<1> SUFFICES ASSUME i + Len(m) - 1 <= Len(s)
             PROVE  SubSeq(s, i, i + Len(m) - 1) = m
                       <=> \A j \in 1 .. Len(m) : s[i + j - 1] = m[j]
  BY DEF At
<1> DEFINE n == i + Len(m) - 1
           p == SubSeq(s, i, n)
<1>2. n \in Nat /\ i <= n /\ n <= Len(s) /\ n - i + 1 = Len(m)
  BY <1>1
<1> HIDE DEF n
<1>3. p \in Str /\ Len(p) = Len(m) /\ \A j \in 1 .. Len(m) : p[j] = s[i + j - 1]
  BY <1>2, PartFacts
<1> HIDE DEF p
<1>4. (\A j \in 1 .. Len(m) : p[j] = m[j]) => p = m
  BY <1>3, StrEqual
<1>5. p = m <=> \A j \in 1 .. Len(m) : s[i + j - 1] = m[j]
  BY <1>3, <1>4
<1> QED BY <1>5 DEF p, n

LEMMA AtFacts ==
    ASSUME NEW s \in Str, NEW i \in Nat, i >= 1
    PROVE  /\ At(s, Open, i) <=>
                 i + 2 <= Len(s) /\ s[i] = "<" /\ s[i + 1] = "t" /\ s[i + 2] = ">"
           /\ At(s, Close, i) <=>
                 /\ i + 3 <= Len(s) /\ s[i] = "<" /\ s[i + 1] = "/"
                 /\ s[i + 2] = "t" /\ s[i + 3] = ">"
<1>1. Len(s) \in Nat
  BY StrFacts
<1>2. ASSUME NEW m \in Str, Len(m) = 3
      PROVE  At(s, m, i) <=> i + 2 <= Len(s) /\ s[i] = m[1] /\ s[i + 1] = m[2] /\ s[i + 2] = m[3]
  <2>1. At(s, m, i) <=> i + 3 - 1 <= Len(s) /\ \A j \in 1 .. 3 : s[i + j - 1] = m[j]
    <3>1. Len(m) > 0 /\ Len(m) = 3
      BY <1>2
    <3>2. At(s, m, i) <=> /\ i + Len(m) - 1 <= Len(s)
                          /\ \A j \in 1 .. Len(m) : s[i + j - 1] = m[j]
      BY <3>1, AtBytes
    <3> QED BY <3>1, <3>2
  <2>2. /\ (i + 3 - 1 <= Len(s) <=> i + 2 <= Len(s))
        /\ i + 1 - 1 = i /\ i + 2 - 1 = i + 1 /\ i + 3 - 1 = i + 2
    BY <1>1
  <2>3. 1 \in 1 .. 3 /\ 2 \in 1 .. 3 /\ 3 \in 1 .. 3 /\ \A j \in 1 .. 3 : j = 1 \/ j = 2 \/ j = 3
    OBVIOUS
  <2>4. (\A j \in 1 .. 3 : s[i + j - 1] = m[j])
           <=> s[i + 1 - 1] = m[1] /\ s[i + 2 - 1] = m[2] /\ s[i + 3 - 1] = m[3]
    BY <2>3
  <2> QED BY <2>1, <2>2, <2>4
<1>3. ASSUME NEW m \in Str, Len(m) = 4
      PROVE  At(s, m, i) <=> /\ i + 3 <= Len(s) /\ s[i] = m[1] /\ s[i + 1] = m[2]
                             /\ s[i + 2] = m[3] /\ s[i + 3] = m[4]
  <2>1. At(s, m, i) <=> i + 4 - 1 <= Len(s) /\ \A j \in 1 .. 4 : s[i + j - 1] = m[j]
    <3>1. Len(m) > 0 /\ Len(m) = 4
      BY <1>3
    <3>2. At(s, m, i) <=> /\ i + Len(m) - 1 <= Len(s)
                          /\ \A j \in 1 .. Len(m) : s[i + j - 1] = m[j]
      BY <3>1, AtBytes
    <3> QED BY <3>1, <3>2
  <2>2. /\ (i + 4 - 1 <= Len(s) <=> i + 3 <= Len(s))
        /\ i + 1 - 1 = i /\ i + 2 - 1 = i + 1 /\ i + 3 - 1 = i + 2 /\ i + 4 - 1 = i + 3
    BY <1>1
  <2>3. /\ 1 \in 1 .. 4 /\ 2 \in 1 .. 4 /\ 3 \in 1 .. 4 /\ 4 \in 1 .. 4
        /\ \A j \in 1 .. 4 : j = 1 \/ j = 2 \/ j = 3 \/ j = 4
    OBVIOUS
  <2>4. (\A j \in 1 .. 4 : s[i + j - 1] = m[j])
           <=> /\ s[i + 1 - 1] = m[1] /\ s[i + 2 - 1] = m[2]
               /\ s[i + 3 - 1] = m[3] /\ s[i + 4 - 1] = m[4]
    BY <2>3
  <2> QED BY <2>1, <2>2, <2>4
<1>4. At(s, Open, i) <=> i + 2 <= Len(s) /\ s[i] = "<" /\ s[i + 1] = "t" /\ s[i + 2] = ">"
  BY <1>2, Markers
<1>5. At(s, Close, i) <=> /\ i + 3 <= Len(s) /\ s[i] = "<" /\ s[i + 1] = "/"
                          /\ s[i + 2] = "t" /\ s[i + 3] = ">"
  BY <1>3, Markers
<1> QED BY <1>4, <1>5

\* Where std::string::find stops.
LEMMA FindFacts ==
    ASSUME NEW s \in Str, NEW m, NEW i \in Nat, i >= 1, i <= Len(s) + 1
    PROVE  /\ Find(s, m, i) \in i .. Len(s) + 1
           /\ Find(s, m, i) <= Len(s) => At(s, m, Find(s, m, i))
           /\ \A j \in i .. Len(s) : At(s, m, j) => Find(s, m, i) <= j
<1> DEFINE T == {Len(s) + 1} \cup {j \in i .. Len(s) : At(s, m, j)}
<1>1. Len(s) \in Nat
  BY StrFacts
<1>2. T \in SUBSET Nat /\ T # {}
  BY <1>1
<1>3. Min(T) \in T /\ \A y \in T : Min(T) <= y
  <2> HIDE DEF T
  <2> QED BY <1>2, MinFacts
<1>4. Find(s, m, i) = Min(T)
  BY DEF Find
<1> DEFINE k == Min(T)
<1>5. k \in i .. Len(s) + 1 /\ (k <= Len(s) => At(s, m, k))
  <2>1. k \in T
    BY <1>3
  <2> HIDE DEF k
  <2> QED BY <1>1, <2>1
<1>6. \A j \in i .. Len(s) : At(s, m, j) => k <= j
  BY <1>3
<1> HIDE DEF k, T
<1> QED BY <1>4, <1>5, <1>6 DEF k

\* The first marker, when no "<" comes before it.
LEMMA FindIs ==
    ASSUME NEW s \in Str, NEW m \in {Open, Close}, NEW i \in Nat, i >= 1, NEW k \in i .. Len(s) + 1,
           k = Len(s) + 1 \/ At(s, m, k), \A j \in i .. k - 1 : s[j] # "<"
    PROVE  Find(s, m, i) = k
<1> DEFINE n == Find(s, m, i)
<1>1. Len(s) \in Nat
  BY StrFacts
<1>2. /\ n \in i .. Len(s) + 1 /\ (n <= Len(s) => At(s, m, n))
      /\ \A j \in i .. Len(s) : At(s, m, j) => n <= j
  BY <1>1, FindFacts
<1> HIDE DEF n
<1>3. n <= k
  BY <1>1, <1>2
<1>4. n <= Len(s) => s[n] = "<"
  BY <1>1, <1>2, AtFacts
<1> QED BY <1>1, <1>2, <1>3, <1>4 DEF n

\* A round leaves a text, and a shorter one if it changes it.
LEMMA EraseFacts ==
    ASSUME NEW s \in Str
    PROVE  EraseFirst(s) \in Str /\ (EraseFirst(s) = s \/ Len(EraseFirst(s)) < Len(s))
<1> DEFINE open == Find(s, Open, 1)
           close == Find(s, Close, open + Len(Open))
           a == SubSeq(s, 1, open - 1)
           c == SubSeq(s, close + Len(Close), Len(s))
<1>1. Len(s) \in Nat
  BY StrFacts
<1>2. EraseFirst(s) = IF open > Len(s) THEN s ELSE a \o c
  BY DEF EraseFirst
<1>3. open \in 1 .. Len(s) + 1 /\ (open <= Len(s) => At(s, Open, open))
  BY <1>1, FindFacts
<1> SUFFICES ASSUME open <= Len(s)
             PROVE  a \o c \in Str /\ Len(a \o c) < Len(s)
  <2> HIDE DEF open, a, c
  <2> QED BY <1>1, <1>2, <1>3
<1> HIDE DEF open
<1>4. open + 2 <= Len(s)
  BY <1>3, AtFacts
<1>5. close \in open + 3 .. Len(s) + 1
  <2>1. open + 3 \in Nat /\ open + 3 >= 1 /\ open + 3 <= Len(s) + 1
    BY <1>1, <1>3, <1>4
  <2> QED BY <2>1, Markers, FindFacts
<1> HIDE DEF close
<1>6. a \in Str /\ Len(a) = open - 1
  <2>1. open - 1 \in 0 .. Len(s)
    BY <1>1, <1>3
  <2> QED BY <2>1, CutFacts
<1>7. c \in Str /\ Len(c) = IF close + 4 <= Len(s) THEN Len(s) - (close + 4) + 1 ELSE 0
  <2>1. close + 4 \in Nat /\ close + 4 >= 1
    BY <1>1, <1>3, <1>5
  <2> QED BY <1>1, <2>1, Markers, PartFacts
<1> HIDE DEF a, c
<1>8. a \o c \in Str /\ Len(a \o c) = Len(a) + Len(c)
  BY <1>6, <1>7, ConcatFacts
<1> QED BY <1>1, <1>3, <1>5, <1>6, <1>7, <1>8

\* The rounds of strip_think_blocks.
Rounds(s, h) == /\ h \in [0 .. Len(s) -> Str] /\ h[0] = s
                /\ \A i \in 1 .. Len(s) : h[i] = EraseFirst(h[i - 1])
                /\ StripThinkBlocks(s) = h[Len(s)]

LEMMA StripRounds ==
    ASSUME NEW s \in Str
    PROVE  \E h : Rounds(s, h)
<1> DEFINE n == Len(s)
           G == [i \in 1 .. n |-> [t \in Str |-> EraseFirst(t)]]
           Eq(h) == h = [i \in 0 .. n |-> IF i = 0 THEN s ELSE EraseFirst(h[i - 1])]
           round == CHOOSE h : Eq(h)
<1>1. n \in Nat
  BY StrFacts
<1>2. G \in [1 .. n -> [Str -> Str]]
  BY EraseFacts
<1>3. PICK h : Loop(Str, n, s, G, h)
  <2> HIDE DEF G, n
  <2> QED BY <1>1, <1>2, Recursion
<1>4. /\ h \in [0 .. n -> Str] /\ h[0] = s
      /\ \A i \in 1 .. n : h[i] = EraseFirst(h[i - 1])
  <2>1. \A i \in 1 .. n : h[i - 1] \in Str
    BY <1>1, <1>3 DEF Loop
  <2> QED BY <1>3, <2>1 DEF Loop
<1> HIDE DEF n, G
<1>5. Eq(h)
  BY <1>1, <1>4
<1>6. Eq(round)
  <2> HIDE DEF Eq
  <2> QED BY <1>5
<1>7. StripThinkBlocks(s) = round[n]
  BY DEF StripThinkBlocks, n
<1> HIDE DEF round
<1>8. round[0] = s /\ \A i \in 1 .. n : round[i] = EraseFirst(round[i - 1])
  BY <1>1, <1>6
<1> HIDE DEF Eq
<1> DEFINE T == {i \in 0 .. n : round[i] = h[i]}
<1>9. 0 \in T
  BY <1>1, <1>4, <1>8
<1>10. \A i \in 0 .. n : i < n /\ i \in T => i + 1 \in T
  <2> SUFFICES ASSUME NEW i \in 0 .. n, i < n, round[i] = h[i]
               PROVE  i + 1 \in 0 .. n /\ round[i + 1] = h[i + 1]
    OBVIOUS
  <2>1. i + 1 \in 1 .. n /\ i + 1 \in 0 .. n /\ (i + 1) - 1 = i
    BY <1>1
  <2>2. round[i + 1] = EraseFirst(round[i]) /\ h[i + 1] = EraseFirst(h[i])
    BY <1>4, <1>8, <2>1
  <2> QED BY <2>1, <2>2
<1>11. n \in T
  <2> HIDE DEF T
  <2>1. \A i \in 0 .. n : i \in T
    BY <1>1, <1>9, <1>10, Induction
  <2> QED BY <1>1, <2>1
<1>12. StripThinkBlocks(s) = h[n]
  BY <1>7, <1>11
<1> QED BY <1>4, <1>12 DEF Rounds, n

\* A text that a round leaves alone is left alone.
LEMMA StripOfFixed ==
    ASSUME NEW s \in Str, EraseFirst(s) = s
    PROVE  StripThinkBlocks(s) = s
<1>1. PICK h : Rounds(s, h)
  BY StripRounds
<1>2. Len(s) \in Nat
  BY StrFacts
<1> DEFINE n == Len(s)
           T == {i \in 0 .. n : h[i] = s}
<1>3. 0 \in T
  BY <1>1, <1>2 DEF Rounds
<1>4. \A i \in 0 .. n : i < n /\ i \in T => i + 1 \in T
  <2> SUFFICES ASSUME NEW i \in 0 .. n, i < n, h[i] = s
               PROVE  i + 1 \in 0 .. n /\ h[i + 1] = s
    OBVIOUS
  <2>1. i + 1 \in 1 .. n /\ i + 1 \in 0 .. n /\ (i + 1) - 1 = i
    BY <1>2
  <2>2. h[i + 1] = EraseFirst(h[i])
    BY <1>1, <2>1 DEF Rounds
  <2> QED BY <2>1, <2>2
<1>5. n \in T
  <2> HIDE DEF T
  <2>1. \A i \in 0 .. n : i \in T
    BY <1>2, <1>3, <1>4, Induction
  <2> QED BY <1>2, <2>1
<1> QED BY <1>1, <1>5 DEF Rounds

\* Enough rounds were made: a further one leaves the result alone.
LEMMA StripIsFixed ==
    ASSUME NEW s \in Str, NEW h, Rounds(s, h)
    PROVE  EraseFirst(StripThinkBlocks(s)) = StripThinkBlocks(s)
<1> DEFINE n == Len(s)
           T == {i \in 0 .. n : EraseFirst(h[i]) = h[i] \/ Len(h[i]) <= n - i}
<1>1. n \in Nat
  BY StrFacts
<1>2. \A i \in 0 .. n : h[i] \in Str /\ Len(h[i]) \in Nat
  BY StrFacts DEF Rounds
<1>3. 0 \in T
  BY <1>1 DEF Rounds
<1>4. \A i \in 0 .. n : i < n /\ i \in T => i + 1 \in T
  <2> SUFFICES ASSUME NEW i \in 0 .. n, i < n, EraseFirst(h[i]) = h[i] \/ Len(h[i]) <= n - i
               PROVE  /\ i + 1 \in 0 .. n
                      /\ EraseFirst(h[i + 1]) = h[i + 1] \/ Len(h[i + 1]) <= n - (i + 1)
    OBVIOUS
  <2>1. i + 1 \in 1 .. n /\ i + 1 \in 0 .. n /\ (i + 1) - 1 = i
    BY <1>1
  <2>2. h[i + 1] = EraseFirst(h[i])
    BY <2>1 DEF Rounds
  <2>3. h[i + 1] = h[i] \/ Len(h[i + 1]) < Len(h[i])
    BY <1>2, <2>2, EraseFacts
  <2> QED BY <1>1, <1>2, <2>1, <2>2, <2>3
<1>5. EraseFirst(h[n]) = h[n] \/ Len(h[n]) <= n - n
  <2>1. \A i \in 0 .. n : i \in T
    <3> HIDE DEF T
    <3> QED BY <1>1, <1>3, <1>4, Induction
  <2> QED BY <1>1, <2>1
<1>6. Len(h[n]) <= n - n => EraseFirst(h[n]) = h[n]
  <2>1. h[n] \in Str /\ Len(h[n]) \in Nat /\ n - n = 0
    BY <1>1, <1>2
  <2>2. EraseFirst(h[n]) = h[n] \/ Len(EraseFirst(h[n])) < Len(h[n])
    BY <2>1, EraseFacts
  <2>3. Len(EraseFirst(h[n])) \in Nat
    BY <2>1, EraseFacts, StrFacts
  <2> QED BY <2>1, <2>2, <2>3
<1> QED BY <1>5, <1>6 DEF Rounds

\* The result is the same after a first round.
LEMMA StripOfErased ==
    ASSUME NEW s \in Str
    PROVE  StripThinkBlocks(s) = StripThinkBlocks(EraseFirst(s))
<1> DEFINE t == EraseFirst(s)
           n == Len(s)
           m == Len(t)
<1>1. t \in Str /\ (t = s \/ m < n) /\ n \in Nat /\ m \in Nat
  BY EraseFacts, StrFacts
<1> SUFFICES ASSUME m < n PROVE StripThinkBlocks(s) = StripThinkBlocks(t)
  BY <1>1
<1>2. PICK h : Rounds(s, h)
  BY StripRounds
<1>3. PICK g : Rounds(t, g)
  BY <1>1, StripRounds
<1>4. h[1] = t
  <2>1. 1 \in 1 .. n /\ 1 - 1 = 0
    BY <1>1
  <2> QED BY <1>2, <2>1 DEF Rounds
<1>5. /\ h[0] = s /\ (\A i \in 1 .. n : h[i] = EraseFirst(h[i - 1])) /\ StripThinkBlocks(s) = h[n]
      /\ g[0] = t /\ (\A i \in 1 .. m : g[i] = EraseFirst(g[i - 1])) /\ StripThinkBlocks(t) = g[m]
  BY <1>2, <1>3 DEF Rounds
<1>6. EraseFirst(g[m]) = g[m]
  BY <1>1, <1>3, <1>5, StripIsFixed
<1> HIDE DEF t, n, m
<1> DEFINE T == {i \in 0 .. m : h[i + 1] = g[i]}
           U == {i \in m + 1 .. n : h[i] = g[m]}
<1>7. h[m + 1] = g[m]
  <2>1. 0 \in T
    BY <1>1, <1>4, <1>5
  <2>2. \A i \in 0 .. m : i < m /\ i \in T => i + 1 \in T
    <3> SUFFICES ASSUME NEW i \in 0 .. m, i < m, h[i + 1] = g[i]
                 PROVE  i + 1 \in 0 .. m /\ h[i + 1 + 1] = g[i + 1]
      OBVIOUS
    <3>1. /\ i + 1 \in 1 .. m /\ i + 1 \in 0 .. m /\ (i + 1) - 1 = i
          /\ i + 1 + 1 \in 1 .. n /\ (i + 1 + 1) - 1 = i + 1
      BY <1>1
    <3>2. g[i + 1] = EraseFirst(g[i])
      BY <1>5, <3>1
    <3>3. h[i + 1 + 1] = EraseFirst(h[i + 1])
      BY <1>5, <3>1
    <3> QED BY <3>1, <3>2, <3>3
  <2>3. m \in T
    <3> HIDE DEF T
    <3>1. \A i \in 0 .. m : i \in T
      BY <1>1, <2>1, <2>2, Induction
    <3> QED BY <1>1, <3>1
  <2> QED BY <2>3
<1>8. h[n] = g[m]
  <2>1. m + 1 \in U /\ m + 1 \in Nat
    BY <1>1, <1>7
  <2>2. \A i \in m + 1 .. n : i < n /\ i \in U => i + 1 \in U
    <3> SUFFICES ASSUME NEW i \in m + 1 .. n, i < n, h[i] = g[m]
                 PROVE  i + 1 \in m + 1 .. n /\ h[i + 1] = g[m]
      OBVIOUS
    <3>1. i + 1 \in 1 .. n /\ i + 1 \in m + 1 .. n /\ (i + 1) - 1 = i
      BY <1>1
    <3>2. h[i + 1] = EraseFirst(h[i])
      BY <1>5, <3>1
    <3> QED BY <1>6, <3>1, <3>2
  <2>3. n \in U
    <3> HIDE DEF U
    <3>1. \A i \in m + 1 .. n : i \in U
      BY <1>1, <2>1, <2>2, Induction
    <3> QED BY <1>1, <3>1
  <2> QED BY <2>3
<1> QED BY <1>5, <1>8

\* What follows the first p bytes.
Rest(s, p) == SubSeq(s, p + 1, Len(s))

LEMMA RestFacts ==
    ASSUME NEW s \in Str, NEW p \in 0 .. Len(s)
    PROVE  /\ Rest(s, p) \in Str /\ Len(Rest(s, p)) = Len(s) - p
           /\ \A i \in 1 .. Len(s) - p : Rest(s, p)[i] = s[p + i]
<1>1. Len(s) \in Nat /\ p \in Nat /\ p + 1 \in Nat /\ p + 1 >= 1
  BY StrFacts
<1> DEFINE m == p + 1
           t == SubSeq(s, m, Len(s))
<1>2. m \in Nat /\ m >= 1 /\ Len(s) <= Len(s)
  BY <1>1
<1>3. m = p + 1
  OBVIOUS
<1> HIDE DEF m
<1>4. /\ t \in Str /\ Len(t) = IF m <= Len(s) THEN Len(s) - m + 1 ELSE 0
      /\ \A i \in 1 .. Len(s) - m + 1 : t[i] = s[m + i - 1]
  BY <1>1, <1>2, PartFacts
<1>5. Rest(s, p) = t
  BY <1>3 DEF Rest
<1> HIDE DEF t
<1>6. Len(t) = Len(s) - p
  BY <1>1, <1>3, <1>4
<1>7. ASSUME NEW i \in 1 .. Len(s) - p PROVE t[i] = s[p + i]
  <2>1. i \in 1 .. Len(s) - m + 1 /\ m + i - 1 = p + i
    BY <1>1, <1>3
  <2> QED BY <1>4, <2>1
<1> QED BY <1>4, <1>5, <1>6, <1>7

\* Nothing follows the last byte.
LEMMA RestEmpty ==
    ASSUME NEW s \in Str, NEW p \in Nat, p >= Len(s)
    PROVE  Rest(s, p) = <<>>
<1>1. Len(s) \in Nat /\ p + 1 > Len(s) /\ p + 1 \in Nat
  BY StrFacts
<1> QED BY <1>1, SubSeqEmpty DEF Rest

LEMMA RestOfRest ==
    ASSUME NEW s \in Str, NEW p \in Nat, NEW q \in Nat, p + q <= Len(s)
    PROVE  Rest(Rest(s, p), q) = Rest(s, p + q)
<1> DEFINE t == Rest(s, p)
           u == Rest(t, q)
           v == Rest(s, p + q)
<1>1. Len(s) \in Nat /\ p \in 0 .. Len(s) /\ p + q \in 0 .. Len(s)
  BY StrFacts
<1>2. t \in Str /\ Len(t) = Len(s) - p /\ \A i \in 1 .. Len(s) - p : t[i] = s[p + i]
  BY <1>1, RestFacts
<1>3. /\ v \in Str /\ Len(v) = Len(s) - (p + q)
      /\ \A i \in 1 .. Len(s) - (p + q) : v[i] = s[p + q + i]
  BY <1>1, RestFacts
<1> HIDE DEF t
<1>4. u \in Str /\ Len(u) = Len(t) - q /\ \A i \in 1 .. Len(t) - q : u[i] = t[q + i]
  <2>1. q \in 0 .. Len(t)
    BY <1>1, <1>2
  <2> QED BY <1>2, <2>1, RestFacts
<1> HIDE DEF u, v
<1>5. Len(u) = Len(v)
  BY <1>1, <1>2, <1>3, <1>4
<1>6. ASSUME NEW i \in 1 .. Len(u) PROVE u[i] = v[i]
  <2>1. /\ i \in 1 .. Len(t) - q /\ q + i \in 1 .. Len(s) - p /\ i \in 1 .. Len(s) - (p + q)
        /\ p + (q + i) = p + q + i
    BY <1>1, <1>2, <1>3, <1>4
  <2> QED BY <1>2, <1>3, <1>4, <2>1
<1>7. u = v
  BY <1>3, <1>4, <1>5, <1>6, StrEqual
<1> QED BY <1>7 DEF t, u, v

LEMMA RestHead ==
    ASSUME NEW s \in Str, NEW p \in Nat, p < Len(s)
    PROVE  Rest(s, p) = <<s[p + 1]>> \o Rest(s, p + 1)
<1> DEFINE b == s[p + 1]
           t == Rest(s, p)
           x == <<b>>
           u == Rest(s, p + 1)
           v == x \o u
<1>1. Len(s) \in Nat /\ p \in 0 .. Len(s) /\ p + 1 \in 0 .. Len(s) /\ p + 1 \in 1 .. Len(s)
  BY StrFacts
<1>2. b \in Bytes
  BY <1>1, StrFacts
<1>3. x \in Str /\ Len(x) = 1 /\ x[1] = b
  BY <1>2, OneByte
<1>4. t \in Str /\ Len(t) = Len(s) - p /\ \A i \in 1 .. Len(s) - p : t[i] = s[p + i]
  BY <1>1, RestFacts
<1>5. /\ u \in Str /\ Len(u) = Len(s) - (p + 1)
      /\ \A i \in 1 .. Len(s) - (p + 1) : u[i] = s[p + 1 + i]
  BY <1>1, RestFacts
<1> HIDE DEF x, u, t
<1>6. /\ v \in Str /\ Len(v) = Len(x) + Len(u)
      /\ \A i \in 1 .. Len(x) : v[i] = x[i]
      /\ \A i \in Len(x) + 1 .. Len(x) + Len(u) : v[i] = u[i - Len(x)]
  BY <1>3, <1>5, ConcatFacts
<1> HIDE DEF v
<1>7. ASSUME NEW i \in 1 .. Len(t) PROVE t[i] = v[i]
  <2>1. t[i] = s[p + i]
    BY <1>4
  <2>2. CASE i = 1
    <3>1. v[i] = x[1]
      BY <1>3, <1>6, <2>2
    <3> QED BY <1>3, <2>1, <2>2, <3>1
  <2>3. CASE i # 1
    <3>1. /\ i \in 1 + 1 .. 1 + Len(u) /\ i - 1 \in 1 .. Len(s) - (p + 1)
          /\ p + 1 + (i - 1) = p + i
      BY <1>1, <1>4, <1>5, <2>3
    <3>2. v[i] = u[i - 1]
      BY <1>3, <1>6, <3>1
    <3>3. u[i - 1] = s[p + 1 + (i - 1)]
      BY <1>5, <3>1
    <3> QED BY <2>1, <3>1, <3>2, <3>3
  <2> QED BY <2>2, <2>3
<1>8. Len(t) = Len(v)
  BY <1>1, <1>3, <1>4, <1>5, <1>6
<1>9. t = v
  BY <1>4, <1>6, <1>7, <1>8, StrEqual
<1> QED BY <1>9 DEF t, v, x, u

LEMMA RestOfConcat ==
    ASSUME NEW c \in Str, NEW z \in Str, NEW q \in 0 .. Len(z)
    PROVE  /\ Rest(c \o z, Len(c) + q) = Rest(z, q)
           /\ SubSeq(c \o z, 1, Len(c)) = c
<1> DEFINE y == c \o z
           n == Len(c)
           u == Rest(y, n + q)
           v == Rest(z, q)
           a == SubSeq(y, 1, n)
<1>1. n \in Nat /\ Len(z) \in Nat
  BY StrFacts
<1>2. /\ y \in Str /\ Len(y) = n + Len(z) /\ \A i \in 1 .. n : y[i] = c[i]
      /\ \A i \in 1 .. Len(z) : y[n + i] = z[i]
  BY ConcatFacts
<1> HIDE DEF y
<1>3. v \in Str /\ Len(v) = Len(z) - q /\ \A i \in 1 .. Len(z) - q : v[i] = z[q + i]
  BY RestFacts
<1>4. /\ u \in Str /\ Len(u) = Len(y) - (n + q)
      /\ \A i \in 1 .. Len(y) - (n + q) : u[i] = y[n + q + i]
  <2>1. n + q \in 0 .. Len(y)
    BY <1>1, <1>2
  <2> QED BY <1>2, <2>1, RestFacts
<1>5. a \in Str /\ Len(a) = n /\ \A i \in 1 .. n : a[i] = y[i]
  <2>1. n \in 0 .. Len(y)
    BY <1>1, <1>2
  <2> QED BY <1>2, <2>1, CutFacts
<1> HIDE DEF u, v, a
<1>6. ASSUME NEW i \in 1 .. Len(u) PROVE u[i] = v[i]
  <2>1. /\ i \in 1 .. Len(y) - (n + q) /\ i \in 1 .. Len(z) - q /\ q + i \in 1 .. Len(z)
        /\ n + q + i = n + (q + i)
    BY <1>1, <1>2, <1>4
  <2> QED BY <1>2, <1>3, <1>4, <2>1
<1>7. Len(u) = Len(v)
  BY <1>1, <1>2, <1>3, <1>4
<1>8. u = v
  BY <1>3, <1>4, <1>6, <1>7, StrEqual
<1>9. a = c
  <2>1. Len(a) = Len(c) /\ \A i \in 1 .. Len(a) : a[i] = c[i]
    BY <1>2, <1>5
  <2> QED BY <1>5, <2>1, StrEqual
<1> QED BY <1>8, <1>9 DEF u, v, a, y, n

\* A text without "<".
Free(s) == \A i \in 1 .. Len(s) : s[i] # "<"

\* Nothing is erased from such a text.
LEMMA StripOfFree ==
    ASSUME NEW s \in Str, Free(s)
    PROVE  StripThinkBlocks(s) = s
<1>1. Len(s) \in Nat
  BY StrFacts
<1>2. 1 \in Nat /\ 1 >= 1 /\ Len(s) + 1 \in 1 .. Len(s) + 1
  BY <1>1
<1>3. \A j \in 1 .. Len(s) + 1 - 1 : s[j] # "<"
  BY <1>1 DEF Free
<1>4. Find(s, Open, 1) = Len(s) + 1
  BY <1>2, <1>3, FindIs
<1>5. EraseFirst(s) = s
  <2>1. Find(s, Open, 1) > Len(s)
    BY <1>1, <1>4
  <2> QED BY <2>1 DEF EraseFirst
<1> QED BY <1>5, StripOfFixed

\* The first round erases a first block, to its closing marker or to the end.
LEMMA EraseBlock ==
    ASSUME NEW c \in Str, Free(c), NEW z \in Str, At(z, Open, 1), NEW k \in 4 .. Len(z) + 1,
           k = Len(z) + 1 \/ At(z, Close, k), \A j \in 4 .. k - 1 : z[j] # "<"
    PROVE  EraseFirst(c \o z) = c \o Rest(z, k + 3)
<1> DEFINE y == c \o z
           n == Len(c)
<1>1. n \in Nat /\ Len(z) \in Nat /\ k \in Nat /\ k >= 4 /\ k <= Len(z) + 1
  BY StrFacts
<1>2. /\ y \in Str /\ Len(y) = n + Len(z) /\ \A i \in 1 .. n : y[i] = c[i]
      /\ \A i \in 1 .. Len(z) : y[n + i] = z[i]
  BY ConcatFacts
<1> HIDE DEF y
<1>3. 3 <= Len(z) /\ z[1] = "<" /\ z[2] = "t" /\ z[3] = ">"
  <2>1. 1 \in Nat /\ 1 >= 1 /\ 1 + 2 = 3 /\ 1 + 1 = 2
    OBVIOUS
  <2>2. 1 + 2 <= Len(z) /\ z[1] = "<" /\ z[1 + 1] = "t" /\ z[1 + 2] = ">"
    BY <2>1, AtFacts
  <2> QED BY <2>1, <2>2
<1>4. Find(y, Open, 1) = n + 1
  <2>1. y[n + 1] = "<" /\ y[n + 2] = "t" /\ y[n + 3] = ">"
    <3>1. 1 \in 1 .. Len(z) /\ 2 \in 1 .. Len(z) /\ 3 \in 1 .. Len(z)
      BY <1>1, <1>3
    <3> QED BY <1>2, <1>3, <3>1
  <2> DEFINE m == n + 1
  <2>2. m \in Nat /\ m >= 1 /\ m + 2 <= Len(y) /\ m + 1 = n + 2 /\ m + 2 = n + 3
        /\ m \in 1 .. Len(y) + 1 /\ m - 1 = n
    BY <1>1, <1>2, <1>3
  <2> HIDE DEF m
  <2>3. y[m] = "<" /\ y[m + 1] = "t" /\ y[m + 2] = ">"
    BY <2>1, <2>2 DEF m
  <2>4. At(y, Open, m)
    BY <1>2, <2>2, <2>3, AtFacts
  <2>5. \A j \in 1 .. m - 1 : y[j] # "<"
    BY <1>2, <2>2 DEF Free
  <2>6. Find(y, Open, 1) = m
    BY <1>2, <2>2, <2>4, <2>5, FindIs
  <2> QED BY <2>6 DEF m
<1>5. Find(y, Close, n + 4) = n + k
  <2> DEFINE i == n + 4
             m == n + k
  <2>1. i \in Nat /\ i >= 1 /\ m \in i .. Len(y) + 1 /\ m \in Nat /\ m >= 1
    BY <1>1, <1>2
  <2>2. m = Len(y) + 1 \/ At(y, Close, m)
    <3>1. CASE k = Len(z) + 1
      BY <1>1, <1>2, <3>1
    <3>2. CASE At(z, Close, k)
      <4>1. k + 3 <= Len(z) /\ z[k] = "<" /\ z[k + 1] = "/" /\ z[k + 2] = "t" /\ z[k + 3] = ">"
        BY <1>1, <3>2, AtFacts
      <4>2. /\ k \in 1 .. Len(z) /\ k + 1 \in 1 .. Len(z) /\ k + 2 \in 1 .. Len(z)
            /\ k + 3 \in 1 .. Len(z) /\ n + (k + 1) = m + 1 /\ n + (k + 2) = m + 2
            /\ n + (k + 3) = m + 3 /\ m + 3 <= Len(y)
        BY <1>1, <1>2, <4>1
      <4>3. /\ y[n + k] = z[k] /\ y[n + (k + 1)] = z[k + 1]
            /\ y[n + (k + 2)] = z[k + 2] /\ y[n + (k + 3)] = z[k + 3]
        BY <1>2, <4>2
      <4>4. y[m] = "<" /\ y[m + 1] = "/" /\ y[m + 2] = "t" /\ y[m + 3] = ">"
        BY <4>1, <4>2, <4>3
      <4> HIDE DEF m
      <4> QED BY <1>2, <2>1, <4>2, <4>4, AtFacts
    <3> QED BY <3>1, <3>2
  <2>3. ASSUME NEW j \in i .. m - 1 PROVE y[j] # "<"
    <3>1. j - n \in 4 .. k - 1 /\ j - n \in 1 .. Len(z) /\ n + (j - n) = j
      BY <1>1, <2>1
    <3>2. y[n + (j - n)] = z[j - n] /\ z[j - n] # "<"
      BY <1>2, <3>1
    <3> QED BY <3>1, <3>2
  <2> HIDE DEF i, m
  <2>4. Find(y, Close, i) = m
    BY <1>2, <2>1, <2>2, <2>3, FindIs
  <2> QED BY <2>4 DEF i, m
<1>6. EraseFirst(y) = SubSeq(y, 1, n) \o SubSeq(y, n + k + 4, Len(y))
  <2>1. n + 1 + Len(Open) = n + 4 /\ Len(Close) = 4 /\ ~(n + 1 > Len(y)) /\ n + 1 - 1 = n
    BY <1>1, <1>2, <1>3, Markers
  <2> DEFINE open == Find(y, Open, 1)
             close == Find(y, Close, open + Len(Open))
  <2>2. EraseFirst(y) = IF open > Len(y) THEN y
                        ELSE SubSeq(y, 1, open - 1) \o SubSeq(y, close + Len(Close), Len(y))
    BY DEF EraseFirst
  <2>3. open = n + 1
    BY <1>4
  <2> HIDE DEF open
  <2>4. close = n + k
    BY <1>5, <2>1, <2>3
  <2> HIDE DEF close
  <2>5. ~(open > Len(y)) /\ open - 1 = n /\ close + Len(Close) = n + k + 4
    BY <1>1, <2>1, <2>3, <2>4
  <2>6. EraseFirst(y) = SubSeq(y, 1, open - 1) \o SubSeq(y, close + Len(Close), Len(y))
    BY <2>2, <2>5, Zenon
  <2> QED BY <2>5, <2>6, Zenon
<1>7. SubSeq(y, 1, n) = c
  <2>1. 0 \in 0 .. Len(z)
    BY <1>1
  <2> QED BY <2>1, RestOfConcat DEF y
<1>8. SubSeq(y, n + k + 4, Len(y)) = Rest(y, n + k + 3)
  <2>1. n + k + 3 + 1 = n + k + 4
    BY <1>1
  <2> QED BY <2>1 DEF Rest
<1>9. Rest(y, n + k + 3) = Rest(z, k + 3)
  <2>1. CASE k = Len(z) + 1
    <3>1. /\ n + k + 3 \in Nat /\ n + k + 3 >= Len(y)
          /\ k + 3 \in Nat /\ k + 3 >= Len(z)
      BY <1>1, <1>2, <2>1
    <3>2. Rest(y, n + k + 3) = <<>>
      BY <1>2, <3>1, RestEmpty
    <3>3. Rest(z, k + 3) = <<>>
      BY <3>1, RestEmpty
    <3> QED BY <3>2, <3>3
  <2>2. CASE At(z, Close, k)
    <3>1. k + 3 <= Len(z)
      BY <1>1, <2>2, AtFacts
    <3>2. k + 3 \in 0 .. Len(z) /\ n + (k + 3) = n + k + 3
      BY <1>1, <3>1
    <3>3. Rest(y, n + (k + 3)) = Rest(z, k + 3)
      BY <3>2, RestOfConcat DEF y
    <3> QED BY <3>2, <3>3
  <2> QED BY <2>1, <2>2
<1> QED BY <1>6, <1>7, <1>8, <1>9 DEF y

(***************************************************************************)
(* The stream and the stripped text.                                       *)
(*                                                                         *)
(* w is the whole generation, p the number of its bytes that are decided,  *)
(* c the visible text so far.  Outside a block, what strip_think_blocks    *)
(* makes of w is what it makes of c and the undecided bytes; inside one,   *)
(* of c and everything from the block's opening marker on.                 *)
(***************************************************************************)
Outside(w, c, p) ==
    /\ \A j \in Opens(w) : j <= p => \E k \in Closes(w) : j < k /\ k <= p
    /\ StripThinkBlocks(w) = StripThinkBlocks(c \o Rest(w, p))

Inside(w, c, p) ==
    \E a \in Opens(w) :
        /\ a + 2 <= p
        /\ \A i \in a + 3 .. p : w[i] # "<"
        /\ StripThinkBlocks(w) = StripThinkBlocks(c \o Rest(w, a - 1))

\* Where the markers of a text are.
LEMMA MarkerFacts ==
    ASSUME NEW w \in Str
    PROVE  /\ \A i \in Opens(w) : /\ i \in 1 .. Len(w) /\ At(w, Open, i) /\ i + 2 <= Len(w)
                                  /\ w[i] = "<" /\ w[i + 1] = "t" /\ w[i + 2] = ">"
           /\ \A i \in Closes(w) : /\ i \in 1 .. Len(w) /\ At(w, Close, i) /\ i + 3 <= Len(w)
                                   /\ w[i] = "<" /\ w[i + 1] = "/"
                                   /\ w[i + 2] = "t" /\ w[i + 3] = ">"
<1>1. Len(w) \in Nat
  BY StrFacts
<1>2. ASSUME NEW i \in Opens(w)
      PROVE  /\ i \in 1 .. Len(w) /\ At(w, Open, i) /\ i + 2 <= Len(w)
             /\ w[i] = "<" /\ w[i + 1] = "t" /\ w[i + 2] = ">"
  <2>1. i \in 1 .. Len(w) /\ At(w, Open, i) /\ i \in Nat /\ i >= 1
    BY <1>1 DEF Opens
  <2> QED BY <2>1, AtFacts
<1>3. ASSUME NEW i \in Closes(w)
      PROVE  /\ i \in 1 .. Len(w) /\ At(w, Close, i) /\ i + 3 <= Len(w)
             /\ w[i] = "<" /\ w[i + 1] = "/" /\ w[i + 2] = "t" /\ w[i + 3] = ">"
  <2>1. i \in 1 .. Len(w) /\ At(w, Close, i) /\ i \in Nat /\ i >= 1
    BY <1>1 DEF Closes
  <2> QED BY <2>1, AtFacts
<1> QED BY <1>2, <1>3

\* A visible byte.
LEMMA OutsidePlain ==
    ASSUME NEW w \in Str, NEW c \in Str, NEW p \in Nat, p < Len(w),
           Outside(w, c, p), w[p + 1] # "<"
    PROVE  Outside(w, c \o <<w[p + 1]>>, p + 1)
<1>1. Len(w) \in Nat /\ p + 1 \in 1 .. Len(w) /\ p + 1 \in 0 .. Len(w)
  BY StrFacts
<1>2. ASSUME NEW j \in Opens(w), j <= p + 1
      PROVE  \E k \in Closes(w) : j < k /\ k <= p + 1
  <2>1. j \in 1 .. Len(w) /\ w[j] = "<"
    BY MarkerFacts
  <2>2. j <= p
    BY <1>1, <1>2, <2>1
  <2>3. PICK k \in Closes(w) : j < k /\ k <= p
    BY <2>2 DEF Outside
  <2>4. k \in 1 .. Len(w)
    BY MarkerFacts
  <2>5. k <= p + 1
    BY <1>1, <2>3, <2>4
  <2> QED BY <2>3, <2>5
<1> DEFINE x == <<w[p + 1]>>
           u == Rest(w, p + 1)
<1>3. Rest(w, p) = x \o u
  BY RestHead
<1>4. x \in Str /\ u \in Str
  BY <1>1, StrFacts, OneByte, RestFacts
<1> HIDE DEF x, u
<1>5. c \o (x \o u) = (c \o x) \o u
  BY <1>4, ConcatLaws
<1>6. StripThinkBlocks(w) = StripThinkBlocks((c \o x) \o u)
  BY <1>3, <1>5 DEF Outside
<1> QED BY <1>2, <1>6 DEF Outside, x, u

\* A block begins.
LEMMA OutsideOpen ==
    ASSUME NEW w \in Str, NEW c \in Str, NEW p \in Nat, Outside(w, c, p), p + 1 \in Opens(w)
    PROVE  Inside(w, c, p + 3)
<1> DEFINE a == p + 1
<1>1. a + 2 <= p + 3 /\ a - 1 = p /\ \A i \in a + 3 .. p + 3 : FALSE
  OBVIOUS
<1>2. a \in Opens(w)
  OBVIOUS
<1>3. StripThinkBlocks(w) = StripThinkBlocks(c \o Rest(w, a - 1))
  BY <1>1 DEF Outside
<1> HIDE DEF a
<1> QED BY <1>1, <1>2, <1>3 DEF Inside

\* A well marked text closes no block that is not open, and opens none in a
\* block.
LEMMA OutsideClose ==
    ASSUME NEW w \in Str, WellMarked(w), NEW c, NEW p \in Nat, Outside(w, c, p),
           p + 1 \in Closes(w)
    PROVE  FALSE
<1>1. PICK j \in Opens(w) : j < p + 1 /\ ~\E k \in Closes(w) : j < k /\ k < p + 1
  BY DEF WellMarked
<1>2. j \in Nat
  BY MarkerFacts, StrFacts
<1>3. PICK k \in Closes(w) : j < k /\ k <= p
  BY <1>1, <1>2 DEF Outside
<1>4. k \in Nat
  BY MarkerFacts, StrFacts
<1>5. k < p + 1
  BY <1>3, <1>4
<1> QED BY <1>1, <1>3, <1>5

LEMMA InsideOpen ==
    ASSUME NEW w \in Str, WellMarked(w), NEW c, NEW p \in Nat, Inside(w, c, p),
           p + 1 \in Opens(w)
    PROVE  FALSE
<1>1. PICK a \in Opens(w) : a + 2 <= p /\ \A i \in a + 3 .. p : w[i] # "<"
  BY DEF Inside
<1>2. a \in Nat /\ w[a + 1] = "t" /\ w[a + 2] = ">"
  BY MarkerFacts, StrFacts
<1>3. a < p + 1
  BY <1>1, <1>2
<1>4. PICK k \in Closes(w) : a < k /\ k < p + 1
  BY <1>1, <1>3 DEF WellMarked
<1>5. k \in Nat /\ w[k] = "<"
  BY MarkerFacts, StrFacts
<1>6. k = a + 1 \/ k = a + 2 \/ k \in a + 3 .. p
  BY <1>2, <1>4, <1>5
<1> QED BY <1>1, <1>2, <1>5, <1>6

\* A byte of a block.
LEMMA InsidePlain ==
    ASSUME NEW w \in Str, NEW c, NEW p \in Nat, Inside(w, c, p), w[p + 1] # "<"
    PROVE  Inside(w, c, p + 1)
<1>1. PICK a \in Opens(w) : /\ a + 2 <= p /\ \A i \in a + 3 .. p : w[i] # "<"
                            /\ StripThinkBlocks(w) = StripThinkBlocks(c \o Rest(w, a - 1))
  BY DEF Inside
<1>2. a \in Nat
  BY MarkerFacts, StrFacts
<1>3. a + 2 <= p + 1 /\ \A i \in a + 3 .. p + 1 : i \in a + 3 .. p \/ i = p + 1
  BY <1>1, <1>2
<1>4. \A i \in a + 3 .. p + 1 : w[i] # "<"
  BY <1>1, <1>3
<1> QED BY <1>1, <1>3, <1>4 DEF Inside

\* A block from its opening marker on, as the first block of a text.
LEMMA BlockRest ==
    ASSUME NEW w \in Str, NEW a \in Opens(w)
    PROVE  /\ a \in Nat /\ a >= 1 /\ a - 1 \in 0 .. Len(w)
           /\ Rest(w, a - 1) \in Str /\ Len(Rest(w, a - 1)) = Len(w) - a + 1
           /\ At(Rest(w, a - 1), Open, 1)
           /\ \A i \in 1 .. Len(w) - a + 1 : Rest(w, a - 1)[i] = w[a + i - 1]
<1>1. a \in 1 .. Len(w) /\ a + 2 <= Len(w) /\ w[a] = "<" /\ w[a + 1] = "t" /\ w[a + 2] = ">"
  BY MarkerFacts
<1>2. Len(w) \in Nat /\ a \in Nat /\ a >= 1 /\ a - 1 \in 0 .. Len(w)
  BY <1>1, StrFacts
<1> DEFINE z == Rest(w, a - 1)
<1>3. /\ z \in Str /\ Len(z) = Len(w) - (a - 1)
      /\ \A i \in 1 .. Len(w) - (a - 1) : z[i] = w[a - 1 + i]
  BY <1>2, RestFacts
<1> HIDE DEF z
<1>4. Len(z) = Len(w) - a + 1
  BY <1>2, <1>3
<1>5. ASSUME NEW i \in 1 .. Len(w) - a + 1 PROVE z[i] = w[a + i - 1]
  <2>1. i \in 1 .. Len(w) - (a - 1) /\ a - 1 + i = a + i - 1
    BY <1>2
  <2> QED BY <1>3, <2>1
<1>6. At(z, Open, 1)
  <2>1. /\ 1 \in 1 .. Len(w) - a + 1 /\ 2 \in 1 .. Len(w) - a + 1 /\ 3 \in 1 .. Len(w) - a + 1
        /\ a + 1 - 1 = a /\ a + 2 - 1 = a + 1 /\ a + 3 - 1 = a + 2
        /\ 1 + 1 = 2 /\ 1 + 2 = 3 /\ 1 + 2 <= Len(z) /\ 1 \in Nat /\ 1 >= 1
    BY <1>1, <1>2, <1>4
  <2>2. z[1] = w[a + 1 - 1] /\ z[2] = w[a + 2 - 1] /\ z[3] = w[a + 3 - 1]
    BY <1>5, <2>1
  <2>3. z[1] = "<" /\ z[1 + 1] = "t" /\ z[1 + 2] = ">"
    BY <1>1, <2>1, <2>2
  <2> QED BY <1>3, <2>1, <2>3, AtFacts
<1> QED BY <1>2, <1>3, <1>4, <1>5, <1>6 DEF z

\* A block ends.
LEMMA InsideClose ==
    ASSUME NEW w \in Str, NEW c \in Str, Free(c), NEW p \in Nat, Inside(w, c, p),
           p + 1 \in Closes(w)
    PROVE  Outside(w, c, p + 4)
<1>1. PICK a \in Opens(w) : /\ a + 2 <= p /\ \A i \in a + 3 .. p : w[i] # "<"
                            /\ StripThinkBlocks(w) = StripThinkBlocks(c \o Rest(w, a - 1))
  BY DEF Inside
<1> DEFINE z == Rest(w, a - 1)
<1>2. /\ a \in Nat /\ a >= 1 /\ a - 1 \in 0 .. Len(w)
      /\ z \in Str /\ Len(z) = Len(w) - a + 1 /\ At(z, Open, 1)
      /\ \A i \in 1 .. Len(w) - a + 1 : z[i] = w[a + i - 1]
  BY BlockRest
<1> HIDE DEF z
<1>3. Len(w) \in Nat
  BY StrFacts
<1> DEFINE q == p + 1
<1>4. /\ q \in 1 .. Len(w) /\ q + 3 <= Len(w) /\ w[q] = "<" /\ w[q + 1] = "/"
      /\ w[q + 2] = "t" /\ w[q + 3] = ">"
  BY MarkerFacts
<1>5. q = p + 1 /\ q \in Closes(w)
  OBVIOUS
<1> HIDE DEF q
<1> DEFINE k == q - a + 1
<1>6. /\ k \in 4 .. Len(z) + 1 /\ k \in Nat /\ k >= 1 /\ k + 3 <= Len(z)
      /\ k \in 1 .. Len(z) /\ k + 1 \in 1 .. Len(z) /\ k + 2 \in 1 .. Len(z)
      /\ k + 3 \in 1 .. Len(z)
      /\ a + k - 1 = q /\ a + (k + 1) - 1 = q + 1 /\ a + (k + 2) - 1 = q + 2
      /\ a + (k + 3) - 1 = q + 3
  BY <1>1, <1>2, <1>3, <1>4, <1>5
<1>7. a + k = p + 2
  BY <1>2, <1>5
<1> HIDE DEF k
<1>8. At(z, Close, k)
  <2>1. /\ z[k] = w[a + k - 1] /\ z[k + 1] = w[a + (k + 1) - 1]
        /\ z[k + 2] = w[a + (k + 2) - 1] /\ z[k + 3] = w[a + (k + 3) - 1]
    BY <1>2, <1>6
  <2>2. z[k] = "<" /\ z[k + 1] = "/" /\ z[k + 2] = "t" /\ z[k + 3] = ">"
    BY <1>4, <1>6, <2>1
  <2> QED BY <1>2, <1>6, <2>2, AtFacts
<1>9. ASSUME NEW j \in 4 .. k - 1 PROVE z[j] # "<"
  <2>1. j \in 1 .. Len(w) - a + 1 /\ a + j - 1 \in a + 3 .. p
    BY <1>2, <1>3, <1>6, <1>7
  <2> QED BY <1>1, <1>2, <2>1
<1>10. EraseFirst(c \o z) = c \o Rest(z, k + 3)
  BY <1>2, <1>6, <1>8, <1>9, EraseBlock
<1>11. Rest(z, k + 3) = Rest(w, p + 4)
  <2>1. /\ a - 1 \in Nat /\ k + 3 \in Nat /\ a - 1 + (k + 3) <= Len(w)
        /\ a - 1 + (k + 3) = p + 4
    BY <1>2, <1>3, <1>4, <1>5, <1>6, <1>7
  <2>2. Rest(Rest(w, a - 1), k + 3) = Rest(w, a - 1 + (k + 3))
    BY <2>1, RestOfRest
  <2> QED BY <2>1, <2>2 DEF z
<1>12. StripThinkBlocks(w) = StripThinkBlocks(c \o Rest(w, p + 4))
  <2>1. c \o z \in Str
    BY <1>2, ConcatFacts
  <2>2. StripThinkBlocks(c \o z) = StripThinkBlocks(EraseFirst(c \o z))
    BY <2>1, StripOfErased
  <2> QED BY <1>1, <1>10, <1>11, <2>2 DEF z
<1>13. ASSUME NEW j \in Opens(w), j <= p + 4
       PROVE  \E i \in Closes(w) : j < i /\ i <= p + 4
  <2>1. j \in Nat /\ w[j] = "<" /\ w[j + 1] = "t"
    BY MarkerFacts, StrFacts
  <2>2. j # q /\ j # q + 1 /\ j # q + 2 /\ j # q + 3
    BY <1>4, <2>1
  <2>3. j < q /\ q <= p + 4
    BY <1>5, <1>13, <2>1, <2>2
  <2> QED BY <1>5, <2>3
<1> QED BY <1>12, <1>13 DEF Outside

\* At the end of the generation the visible text is the stripped one.
LEMMA OutsideEnd ==
    ASSUME NEW w \in Str, NEW c \in Str, Free(c), Outside(w, c, Len(w))
    PROVE  StripThinkBlocks(w) = c
<1>1. Rest(w, Len(w)) = <<>>
  <2>1. Len(w) \in Nat /\ Len(w) >= Len(w)
    BY StrFacts
  <2> QED BY <2>1, RestEmpty
<1>2. c \o Rest(w, Len(w)) = c
  BY <1>1, ConcatLaws
<1> QED BY <1>2, StripOfFree DEF Outside

LEMMA InsideEnd ==
    ASSUME NEW w \in Str, NEW c \in Str, Free(c), Inside(w, c, Len(w))
    PROVE  StripThinkBlocks(w) = c
<1>1. PICK a \in Opens(w) : /\ a + 2 <= Len(w) /\ \A i \in a + 3 .. Len(w) : w[i] # "<"
                            /\ StripThinkBlocks(w) = StripThinkBlocks(c \o Rest(w, a - 1))
  BY DEF Inside
<1> DEFINE z == Rest(w, a - 1)
           k == Len(z) + 1
<1>2. /\ a \in Nat /\ a >= 1 /\ a - 1 \in 0 .. Len(w)
      /\ z \in Str /\ Len(z) = Len(w) - a + 1 /\ At(z, Open, 1)
      /\ \A i \in 1 .. Len(w) - a + 1 : z[i] = w[a + i - 1]
  BY BlockRest
<1>3. Len(w) \in Nat /\ Len(z) \in Nat
  BY <1>2, StrFacts
<1> HIDE DEF z
<1>4. k \in 4 .. Len(z) + 1 /\ k - 1 = Len(z)
  BY <1>1, <1>2, <1>3
<1>5. ASSUME NEW j \in 4 .. k - 1 PROVE z[j] # "<"
  <2>1. j \in 1 .. Len(w) - a + 1 /\ a + j - 1 \in a + 3 .. Len(w)
    BY <1>2, <1>3, <1>4
  <2> QED BY <1>1, <1>2, <2>1
<1>6. k = Len(z) + 1
  OBVIOUS
<1> HIDE DEF k
<1>7. EraseFirst(c \o z) = c \o Rest(z, k + 3)
  BY <1>2, <1>4, <1>5, <1>6, EraseBlock
<1>8. Rest(z, k + 3) = <<>>
  <2>1. k + 3 \in Nat /\ k + 3 >= Len(z)
    BY <1>3, <1>6
  <2> QED BY <1>2, <2>1, RestEmpty
<1>9. EraseFirst(c \o z) = c
  BY <1>7, <1>8, ConcatLaws
<1>10. c \o z \in Str
  BY <1>2, ConcatFacts
<1>11. StripThinkBlocks(c \o z) = StripThinkBlocks(c)
  BY <1>9, <1>10, StripOfErased
<1> QED BY <1>1, <1>11, StripOfFree DEF z

\* The filter after the first k bytes of w: the marker buffer has the beginning
\* of a marker of w, which ends at k; the bytes before it are decided.
Tracks(w, f, p) ==
    /\ f.tag # <<>> => \/ p + 1 \in Opens(w) /\ Len(f.tag) < 3
                       \/ p + 1 \in Closes(w) /\ Len(f.tag) < 4
    /\ \A i \in 1 .. Len(f.tag) : f.tag[i] = w[p + i]
    /\ Free(Kept(f))
    /\ f.think => Inside(w, Kept(f), p)
    /\ ~f.think => Outside(w, Kept(f), p)

Tracked(w, f, k) == Len(f.tag) <= k /\ Tracks(w, f, k - Len(f.tag))

\* A buffer with the beginning of a marker is that marker when it is long
\* enough, and never the other one.
LEMMA MarkerBytes ==
    ASSUME NEW w \in Str, NEW p \in Nat, NEW t \in Str, Len(t) > 0,
           \A i \in 1 .. Len(t) : t[i] = w[p + i]
    PROVE  /\ p + 1 \in Opens(w) /\ Len(t) <= 3 => (t = Open <=> Len(t) = 3) /\ t # Close
           /\ p + 1 \in Closes(w) /\ Len(t) <= 4 => (t = Close <=> Len(t) = 4) /\ t # Open
<1>1. Len(t) \in Nat /\ p + 1 + 1 = p + 2 /\ p + 1 + 2 = p + 3 /\ p + 1 + 3 = p + 4
  BY StrFacts
<1>2. ASSUME p + 1 \in Opens(w), Len(t) <= 3 PROVE (t = Open <=> Len(t) = 3) /\ t # Close
  <2>1. w[p + 1] = "<" /\ w[p + 1 + 1] = "t" /\ w[p + 1 + 2] = ">"
    BY <1>2, MarkerFacts
  <2>2. t # Close
    <3> SUFFICES ASSUME t = Close PROVE FALSE
      OBVIOUS
    <3>1. Len(t) = 4
      BY Markers
    <3> QED BY <1>2, <3>1
  <2>3. ASSUME Len(t) = 3 PROVE t = Open
    <3>1. 1 \in 1 .. Len(t) /\ 2 \in 1 .. Len(t) /\ 3 \in 1 .. Len(t)
      BY <2>3
    <3>2. t[1] = w[p + 1] /\ t[2] = w[p + 2] /\ t[3] = w[p + 3]
      BY <3>1
    <3>3. t[1] = Open[1] /\ t[2] = Open[2] /\ t[3] = Open[3]
      BY <1>1, <2>1, <3>2, Markers
    <3>4. \A i \in 1 .. 3 : i = 1 \/ i = 2 \/ i = 3
      OBVIOUS
    <3>5. \A i \in 1 .. Len(t) : t[i] = Open[i]
      BY <2>3, <3>3, <3>4
    <3> QED BY <2>3, <3>5, Markers, StrEqual
  <2> QED BY <2>2, <2>3, Markers
<1>3. ASSUME p + 1 \in Closes(w), Len(t) <= 4 PROVE (t = Close <=> Len(t) = 4) /\ t # Open
  <2>1. w[p + 1] = "<" /\ w[p + 1 + 1] = "/" /\ w[p + 1 + 2] = "t" /\ w[p + 1 + 3] = ">"
    BY <1>3, MarkerFacts
  <2>2. t # Open
    <3> SUFFICES ASSUME t = Open PROVE FALSE
      OBVIOUS
    <3>1. Len(t) = 3 /\ t[2] = "t"
      BY Markers
    <3>2. 2 \in 1 .. Len(t)
      BY <3>1
    <3>3. t[2] = w[p + 2]
      BY <3>2
    <3> QED BY <1>1, <2>1, <3>1, <3>3
  <2>3. ASSUME Len(t) = 4 PROVE t = Close
    <3>1. 1 \in 1 .. Len(t) /\ 2 \in 1 .. Len(t) /\ 3 \in 1 .. Len(t) /\ 4 \in 1 .. Len(t)
      BY <2>3
    <3>2. t[1] = w[p + 1] /\ t[2] = w[p + 2] /\ t[3] = w[p + 3] /\ t[4] = w[p + 4]
      BY <3>1
    <3>3. t[1] = Close[1] /\ t[2] = Close[2] /\ t[3] = Close[3] /\ t[4] = Close[4]
      BY <1>1, <2>1, <3>2, Markers
    <3>4. \A i \in 1 .. 4 : i = 1 \/ i = 2 \/ i = 3 \/ i = 4
      OBVIOUS
    <3>5. \A i \in 1 .. Len(t) : t[i] = Close[i]
      BY <2>3, <3>3, <3>4
    <3> QED BY <2>3, <3>5, Markers, StrEqual
  <2> QED BY <2>2, <2>3, Markers
<1> QED BY <1>2, <1>3

\* A visible byte keeps the visible text free of "<".
LEMMA FreeGrows ==
    ASSUME NEW c \in Str, Free(c), NEW b \in Bytes, b # "<"
    PROVE  Free(c \o <<b>>)
<1> DEFINE x == <<b>>
           d == c \o x
<1>1. x \in Str /\ Len(x) = 1 /\ x[1] = b
  BY OneByte
<1> HIDE DEF x
<1>2. /\ d \in Str /\ Len(d) = Len(c) + Len(x) /\ \A i \in 1 .. Len(c) : d[i] = c[i]
      /\ \A i \in 1 .. Len(x) : d[Len(c) + i] = x[i]
  BY <1>1, ConcatFacts
<1> HIDE DEF d
<1>3. d[Len(c) + 1] = b /\ Len(d) = Len(c) + 1
  BY <1>1, <1>2
<1>4. Len(c) \in Nat
  BY StrFacts
<1>5. \A i \in 1 .. Len(d) : i \in 1 .. Len(c) \/ i = Len(c) + 1
  BY <1>3, <1>4
<1>6. Free(d)
  BY <1>2, <1>3, <1>5 DEF Free
<1> QED BY <1>6 DEF d, x

\* process_byte follows a well marked generation.
LEMMA TracksStep ==
    ASSUME NEW w \in Str, WellMarked(w), NEW f \in FilterStates, NEW k \in Nat, k < Len(w),
           NEW b \in Bytes, w[k + 1] = b, Tracked(w, f, k)
    PROVE  Tracked(w, ProcessByte(f, b), k + 1)
<1> DEFINE g == ProcessByte(f, b)
           n == Len(f.tag)
           p == k - n
           tag == Append(f.tag, b)
           c == Kept(f)
<1>1. /\ f.tag \in Str /\ f.think \in BOOLEAN /\ n \in Nat /\ n <= k /\ c \in Str
      /\ (f.tag = <<>> <=> n = 0) /\ Len(w) \in Nat
  <2>1. f.tag \in Str /\ f.think \in BOOLEAN
    BY DEF FilterStates
  <2>2. <<>> \in Str
    BY StrFacts
  <2>3. c \in Str
    BY <2>2, EmitKeeps
  <2> QED BY <2>1, <2>3, StrFacts DEF Tracked
<1>2. p \in Nat /\ p + n = k /\ p + (n + 1) = k + 1 /\ Tracks(w, f, p)
  <2>1. Tracks(w, f, p)
    BY DEF Tracked
  <2> HIDE DEF n
  <2>2. p \in Nat /\ p + n = k /\ p + (n + 1) = k + 1
    BY <1>1
  <2> QED BY <2>1, <2>2
<1>3. /\ tag \in Str /\ Len(tag) = n + 1 /\ tag[n + 1] = b
      /\ \A i \in 1 .. n : tag[i] = f.tag[i]
  BY <1>1, AppendFacts
<1>4. g \in FilterStates /\ ByteStep(f, b, tag, g)
  BY ProcessByteCases
<1> HIDE DEF g, tag, p
<1> SUFFICES Tracked(w, g, k + 1)
  BY DEF g
<1>5. /\ f.tag # <<>> => \/ p + 1 \in Opens(w) /\ n < 3
                         \/ p + 1 \in Closes(w) /\ n < 4
      /\ \A i \in 1 .. n : f.tag[i] = w[p + i]
      /\ Free(c)
      /\ f.think => Inside(w, c, p)
      /\ ~f.think => Outside(w, c, p)
  BY <1>2 DEF Tracks
<1> HIDE DEF n, c
<1>6. \A i \in 1 .. n + 1 : tag[i] = w[p + i]
  <2> SUFFICES ASSUME NEW i \in 1 .. n + 1 PROVE tag[i] = w[p + i]
    OBVIOUS
  <2>1. CASE i = n + 1
    BY <1>2, <1>3, <2>1
  <2>2. CASE i # n + 1
    <3>1. i \in 1 .. n
      BY <1>1, <2>2
    <3> QED BY <1>3, <1>5, <3>1
  <2> QED BY <2>1, <2>2
<1>7. ASSUME g.tag = <<>>, Kept(g) \in Str, Free(Kept(g)),
             g.think => Inside(w, Kept(g), k + 1), ~g.think => Outside(w, Kept(g), k + 1)
      PROVE  Tracked(w, g, k + 1)
  <2>1. Len(g.tag) = 0 /\ 0 <= k + 1 /\ k + 1 - 0 = k + 1 /\ \A i \in 1 .. 0 : FALSE
    BY <1>7, StrFacts
  <2> QED BY <1>7, <2>1 DEF Tracked, Tracks
<1>8. CASE f.tag = <<>> /\ b # "<" /\ g = EmitOutside(f, <<b>>)
  <2>1. g.tag = <<>> /\ g.think = f.think /\ <<b>> \in Str
    BY <1>8, OneByte, EmitOutsideFacts
  <2>2. p = k /\ w[p + 1] # "<"
    BY <1>1, <1>2, <1>8
  <2>3. CASE f.think
    <3>1. Kept(g) = c
      BY <1>8, <2>3 DEF EmitOutside, c
    <3>2. Inside(w, c, k + 1)
      BY <1>2, <1>5, <2>2, <2>3, InsidePlain
    <3>3. g.think /\ Kept(g) \in Str /\ Free(Kept(g)) /\ Inside(w, Kept(g), k + 1)
      BY <1>1, <1>5, <2>1, <2>3, <3>1, <3>2
    <3> QED BY <1>7, <2>1, <3>3
  <2>4. CASE ~f.think
    <3>1. Kept(g) = c \o <<b>>
      <4>1. g = Emit(f, <<b>>)
        BY <1>8, <2>4 DEF EmitOutside
      <4> QED BY <2>1, <4>1, EmitKeeps DEF c
    <3>2. Outside(w, c \o <<w[p + 1]>>, p + 1)
      BY <1>1, <1>2, <1>5, <2>2, <2>4, OutsidePlain
    <3>3. Outside(w, Kept(g), k + 1)
      BY <2>2, <3>1, <3>2
    <3>4. Kept(g) \in Str
      BY <1>1, <2>1, <3>1, ConcatFacts
    <3>5. Free(Kept(g))
      BY <1>1, <1>5, <1>8, <3>1, FreeGrows
    <3>6. ~g.think
      BY <2>1, <2>4
    <3> QED BY <1>7, <2>1, <3>3, <3>4, <3>5, <3>6
  <2> QED BY <1>1, <2>3, <2>4
<1>9. ASSUME f.tag # <<>> \/ b = "<"
      PROVE  \/ p + 1 \in Opens(w) /\ n + 1 <= 3
             \/ p + 1 \in Closes(w) /\ n + 1 <= 4
  <2>1. CASE f.tag = <<>>
    <3>1. n = 0 /\ p = k /\ k + 1 \in 1 .. Len(w) /\ w[k + 1] = "<"
      BY <1>1, <1>2, <1>9, <2>1
    <3>2. k + 1 \in Opens(w) \cup Closes(w)
      BY <3>1 DEF WellMarked
    <3> QED BY <3>1, <3>2
  <2>2. CASE f.tag # <<>>
    BY <1>1, <1>5, <2>2
  <2> QED BY <2>1, <2>2
<1>10. ASSUME f.tag # <<>> \/ b = "<"
       PROVE  \/ /\ p + 1 \in Opens(w) /\ n + 1 <= 3 /\ (tag = Open <=> n + 1 = 3) /\ tag # Close
              \/ /\ p + 1 \in Closes(w) /\ n + 1 <= 4 /\ (tag = Close <=> n + 1 = 4) /\ tag # Open
  <2>1. Len(tag) > 0 /\ \A i \in 1 .. Len(tag) : tag[i] = w[p + i]
    BY <1>1, <1>3, <1>6
  <2>2. /\ p + 1 \in Opens(w) /\ Len(tag) <= 3 => (tag = Open <=> Len(tag) = 3) /\ tag # Close
        /\ p + 1 \in Closes(w) /\ Len(tag) <= 4 => (tag = Close <=> Len(tag) = 4) /\ tag # Open
    BY <1>2, <1>3, <2>1, MarkerBytes
  <2> QED BY <1>3, <1>9, <1>10, <2>2
<1>11. CASE (f.tag # <<>> \/ b = "<") /\ tag \in {Open, Close}
            /\ g = [f EXCEPT !.think = (tag = Open), !.tag = <<>>]
  <2>1. g.tag = <<>> /\ g.think = (tag = Open) /\ g.utf8 = f.utf8 /\ g.out = f.out
    BY <1>11 DEF FilterStates
  <2>2. Kept(g) = c
    BY <2>1 DEF Kept, c
  <2>3. CASE tag = Open
    <3>1. p + 1 \in Opens(w) /\ n + 1 = 3
      BY <1>10, <1>11, <2>3
    <3>2. k + 1 = p + 3
      BY <1>1, <1>2, <3>1
    <3>3. ~f.think
      BY <1>2, <1>5, <3>1, InsideOpen
    <3>4. Inside(w, c, p + 3)
      BY <1>1, <1>2, <1>5, <3>1, <3>3, OutsideOpen
    <3>5. g.think
      BY <2>1, <2>3
    <3>6. Kept(g) \in Str /\ Free(Kept(g)) /\ Inside(w, Kept(g), k + 1)
      BY <1>1, <1>5, <2>2, <3>2, <3>4
    <3> QED BY <1>7, <2>1, <3>5, <3>6
  <2>4. CASE tag # Open
    <3>1. p + 1 \in Closes(w) /\ n + 1 = 4
      BY <1>10, <1>11, <2>4
    <3>2. k + 1 = p + 4
      BY <1>1, <1>2, <3>1
    <3>3. f.think
      BY <1>2, <1>5, <3>1, OutsideClose
    <3>4. Outside(w, c, p + 4)
      BY <1>1, <1>2, <1>5, <3>1, <3>3, InsideClose
    <3>5. ~g.think
      BY <2>1, <2>4
    <3>6. Kept(g) \in Str /\ Free(Kept(g)) /\ Outside(w, Kept(g), k + 1)
      BY <1>1, <1>5, <2>2, <3>2, <3>4
    <3> QED BY <1>7, <2>1, <3>5, <3>6
  <2> QED BY <2>3, <2>4
<1>12. CASE (f.tag # <<>> \/ b = "<") /\ tag \notin {Open, Close} /\ Len(tag) <= 4
            /\ g = [f EXCEPT !.tag = tag]
  <2>1. g.tag = tag /\ g.think = f.think /\ Kept(g) = c
    BY <1>3, <1>12, TagFacts DEF c
  <2>2. Len(g.tag) = n + 1 /\ n + 1 <= k + 1 /\ k + 1 - (n + 1) = p
    BY <1>1, <1>2, <1>3, <2>1
  <2>3. (p + 1 \in Opens(w) /\ n + 1 < 3) \/ (p + 1 \in Closes(w) /\ n + 1 < 4)
    BY <1>1, <1>10, <1>12
  <2>4. Tracks(w, g, p)
    BY <1>5, <1>6, <2>1, <2>2, <2>3 DEF Tracks
  <2>5. Len(g.tag) <= k + 1 /\ (k + 1) - Len(g.tag) = p
    BY <1>1, <1>2, <2>2
  <2> QED BY <2>4, <2>5 DEF Tracked
<1>13. CASE (f.tag # <<>> \/ b = "<") /\ tag \notin {Open, Close} /\ Len(tag) > 4
            /\ g = [EmitOutside(f, tag) EXCEPT !.tag = <<>>]
  BY <1>1, <1>3, <1>10, <1>13
<1> QED BY <1>4, <1>8, <1>11, <1>12, <1>13 DEF ByteStep

\* Once the generation is complete the visible text is the stripped one.
LEMMA TracksEnd ==
    ASSUME NEW w \in Str, NEW f \in FilterStates, Tracked(w, f, Len(w))
    PROVE  FlattenSeq(Flushed(f).out) = StripThinkBlocks(w)
<1> DEFINE n == Len(f.tag)
           p == Len(w) - n
           c == Kept(f)
<1>1. Len(w) \in Nat /\ f.tag \in Str /\ n \in Nat /\ f.think \in BOOLEAN
  BY StrFacts DEF FilterStates
<1>2. n <= Len(w) /\ Tracks(w, f, p)
  BY DEF Tracked
<1> HIDE DEF p
<1>2a. p \in Nat /\ p + n = Len(w)
  <2> HIDE DEF n
  <2> QED BY <1>1, <1>2 DEF p
<1>3. f.tag = <<>>
  <2> SUFFICES ASSUME f.tag # <<>> PROVE FALSE
    OBVIOUS
  <2>1. (p + 1 \in Opens(w) /\ n < 3) \/ (p + 1 \in Closes(w) /\ n < 4)
    BY <1>2 DEF Tracks
  <2>2. (p + 1 \in Opens(w) => p + 1 + 2 <= Len(w)) /\ (p + 1 \in Closes(w) => p + 1 + 3 <= Len(w))
    BY MarkerFacts
  <2> HIDE DEF n
  <2> QED BY <1>1, <1>2a, <2>1, <2>2
<1>4. n = 0 /\ p = Len(w)
  <2>1. n = 0
    BY <1>3, StrFacts
  <2> QED BY <1>1, <1>2a, <2>1
<1>5. c \in Str
  BY <1>1, EmitKeeps
<1> HIDE DEF c, n, p
<1>6. Free(c) /\ (f.think => Inside(w, c, Len(w))) /\ (~f.think => Outside(w, c, Len(w)))
  BY <1>2, <1>4 DEF Tracks, c
<1>7. StripThinkBlocks(w) = c
  BY <1>1, <1>5, <1>6, OutsideEnd, InsideEnd
<1>8. Flushed(f).out = IF f.utf8 = <<>> THEN f.out ELSE Append(f.out, f.utf8)
  <2>1. BeforeFlush(f) = f
    BY <1>3 DEF BeforeFlush
  <2> QED BY <2>1, FlushFacts
<1>9. FlattenSeq(Flushed(f).out) = c
  <2>1. f.out \in Seq(Str) /\ f.utf8 \in Str
    BY DEF FilterStates
  <2>2. /\ FlattenSeq(f.out) \in Str
        /\ FlattenSeq(Append(f.out, f.utf8)) = FlattenSeq(f.out) \o f.utf8
    BY <2>1, FlattenFacts
  <2>3. c = FlattenSeq(f.out) \o f.utf8
    BY DEF c, Kept
  <2>4. CASE f.utf8 = <<>>
    <3>1. FlattenSeq(f.out) \o <<>> = FlattenSeq(f.out)
      BY <2>2, ConcatLaws
    <3> QED BY <1>8, <2>3, <2>4, <3>1
  <2>5. CASE f.utf8 # <<>>
    BY <1>8, <2>2, <2>3, <2>5
  <2> QED BY <2>4, <2>5
<1> QED BY <1>7, <1>9

\* The bytes so far are the beginning of w.
Begins(r, w) == Len(r) <= Len(w) /\ \A i \in 1 .. Len(r) : r[i] = w[i]

\* The filter follows every well marked generation that begins as this one.
Follows(f, r) == \A w \in Str : WellMarked(w) /\ Begins(r, w) => Tracked(w, f, Len(r))

LEMMA FollowsStart ==
    Follows([think |-> FALSE, tag |-> <<>>, utf8 |-> <<>>, out |-> <<>>], <<>>)
<1> DEFINE f == [think |-> FALSE, tag |-> <<>>, utf8 |-> <<>>, out |-> <<>>]
<1> SUFFICES ASSUME NEW w \in Str PROVE Tracked(w, f, Len(<<>>))
  BY DEF Follows
<1>1. Kept(f) = <<>>
  <2>1. FlattenSeq(<<>>) = <<>>
    BY EmptySeq DEF FlattenSeq
  <2>2. <<>> \o <<>> = <<>>
    BY StrFacts, ConcatLaws
  <2> QED BY <2>1, <2>2 DEF Kept
<1>2. Len(<<>>) = 0 /\ 0 - 0 = 0 /\ 0 <= 0 /\ \A i \in 1 .. 0 : FALSE
  BY StrFacts
<1>3. Rest(w, 0) = w
  BY SubSeqFull DEF Rest, Str
<1>4. Outside(w, <<>>, 0)
  <2>1. <<>> \o Rest(w, 0) = w
    BY <1>3, ConcatLaws
  <2>2. \A j \in Opens(w) : ~(j <= 0)
    BY MarkerFacts, StrFacts
  <2> QED BY <2>1, <2>2 DEF Outside
<1>5. Free(<<>>)
  BY <1>2 DEF Free
<1>6. f.tag = <<>> /\ ~f.think
  OBVIOUS
<1> HIDE DEF f
<1>7. Tracks(w, f, 0)
  BY <1>1, <1>2, <1>4, <1>5, <1>6 DEF Tracks
<1> QED BY <1>2, <1>6, <1>7 DEF Tracked

LEMMA FollowsStep ==
    ASSUME NEW f \in FilterStates, NEW r \in Str, NEW b \in Bytes, Follows(f, r)
    PROVE  Follows(ProcessByte(f, b), Append(r, b))
<1> DEFINE v == Append(r, b)
<1>1. /\ v \in Str /\ Len(v) = Len(r) + 1 /\ v[Len(r) + 1] = b
      /\ \A i \in 1 .. Len(r) : v[i] = r[i]
  BY AppendFacts
<1> HIDE DEF v
<1> SUFFICES ASSUME NEW w \in Str, WellMarked(w), Begins(v, w)
             PROVE  Tracked(w, ProcessByte(f, b), Len(v))
  BY DEF Follows, v
<1>2. Len(r) \in Nat /\ Len(w) \in Nat
  BY StrFacts
<1>3. Len(r) < Len(w) /\ w[Len(r) + 1] = b /\ Begins(r, w)
  <2>1. Len(r) + 1 <= Len(w) /\ Len(r) + 1 \in 1 .. Len(v)
    BY <1>1, <1>2 DEF Begins
  <2>2. \A i \in 1 .. Len(r) : i \in 1 .. Len(v)
    BY <1>1, <1>2
  <2> QED BY <1>1, <1>2, <2>1, <2>2 DEF Begins
<1>4. Tracked(w, f, Len(r))
  BY <1>3 DEF Follows
<1>5. Tracked(w, ProcessByte(f, b), Len(r) + 1)
  BY <1>2, <1>3, <1>4, TracksStep
<1> QED BY <1>1, <1>5

(* The streaming consumer and the buffered path see the same text: for     *)
(* every cut of a well marked generation into chunks, what on_token and    *)
(* flush delivered is what strip_think_blocks leaves.                      *)
THEOREM StreamMatchesStrip == Spec => []StreamIsStripped
<1> DEFINE Inv == /\ FilterTypeOK
                  /\ ~ended => Follows(Current, raw)
                  /\ StreamIsStripped
<1>1. ASSUME Init PROVE Inv
  <2>1. /\ FilterTypeOK /\ ~ended /\ raw = <<>>
        /\ Current = [think |-> FALSE, tag |-> <<>>, utf8 |-> <<>>, out |-> <<>>]
    BY <1>1, InitialState
  <2>2. Follows(Current, raw)
    BY <2>1, FollowsStart
  <2> QED BY <2>1, <2>2 DEF StreamIsStripped
<1>2. ASSUME Inv, [Next]_vars PROVE Inv'
  <2>1. FilterTypeOK'
    BY <1>2, FilterTypeStep
  <2>2. ASSUME NEW chunk \in Tokens, OnToken(chunk) PROVE Inv'
    <3>1. /\ ~ended /\ ~ended' /\ chunk \in Str /\ raw' = raw \o chunk
          /\ Current' = ProcessBytes(Current, chunk)
      BY <1>2, <2>2, OnTokenStep
    <3> DEFINE J == {p \in FilterStates \X Str : Follows(p[1], p[2])}
    <3>2. \A f \in FilterStates, r \in Str, b \in Bytes :
              <<f, r>> \in J => <<ProcessByte(f, b), Append(r, b)>> \in J
      BY ProcessByteCases, AppendFacts, FollowsStep
    <3>3. Current \in FilterStates /\ raw \in Str /\ <<Current, raw>> \in J
      BY <1>2, <3>1 DEF FilterTypeOK
    <3>4. \A f, r : <<f, r>> \in J => Follows(f, r)
      OBVIOUS
    <3> HIDE DEF J
    <3>5. <<ProcessBytes(Current, chunk), raw \o chunk>> \in J
      BY <3>1, <3>2, <3>3, ChunkKeeps
    <3>6. Follows(Current, raw)'
      BY <3>1, <3>4, <3>5
    <3> QED BY <2>1, <3>1, <3>6 DEF StreamIsStripped
  <2>3. CASE Flush
    <3>1. ~ended /\ ended' /\ raw' = raw /\ Current' = Flushed(Current)
      BY <1>2, <2>3, FlushStep
    <3>2. WellMarked(raw) => FlattenSeq(Flushed(Current).out) = StripThinkBlocks(raw)
      <4> SUFFICES ASSUME WellMarked(raw)
                   PROVE  FlattenSeq(Flushed(Current).out) = StripThinkBlocks(raw)
        OBVIOUS
      <4>1. raw \in Str /\ Current \in FilterStates /\ Begins(raw, raw)
        BY <1>2, StrFacts DEF FilterTypeOK, Begins
      <4>2. Tracked(raw, Current, Len(raw))
        BY <1>2, <3>1, <4>1 DEF Follows
      <4> QED BY <4>1, <4>2, TracksEnd
    <3>3. delivered' = Flushed(Current).out
      <4>1. delivered' = Current'.out
        BY DEF Current
      <4> QED BY <3>1, <4>1
    <3>4. StreamIsStripped'
      BY <3>1, <3>2, <3>3 DEF StreamIsStripped, Text
    <3> QED BY <2>1, <3>1, <3>4
  <2>4. CASE UNCHANGED vars
    BY <1>2, <2>1, <2>4 DEF vars, Current, StreamIsStripped, Text
  <2> QED BY <1>2, <2>2, <2>3, <2>4 DEF Next
<1>3. Inv => StreamIsStripped
  OBVIOUS
<1> QED BY <1>1, <1>2, <1>3, PTL DEF Spec

===========================================================================
