-------------------------- MODULE AgentLoopProofs --------------------------
(***************************************************************************)
(* Theorems about AgentLoop for every set of tiers and tools and every     *)
(* bound.                                                                  *)
(*                                                                         *)
(* Of a loop context the proofs need eight fields; Fields names them.      *)
(* Every action but a delegation's start and its return replaces the       *)
(* topmost context by one that Moved describes (LocalStep), so that each   *)
(* invariant is shown once for such a step and once for the stack's growth *)
(* and shrinking.                                                          *)
(***************************************************************************)
EXTENDS AgentLoop, SequenceTheorems, TLAPS

USE DEF vars, MaxDepth, MaxDuplicates, LateBound

(***************************************************************************)
(* The inductive invariant.                                                *)
(***************************************************************************)
\* Where a loop may be in which state, and what it has counted by then: an
\* iteration that dispatches has one to give back.
Fit(at, state, n, limit) ==
    /\ n <= limit
    /\ at \in {"generate", "tools", "dispatch"} => n >= 1
    /\ at = "generate" => state = "EXECUTING"
    /\ at = "tools" => state \in {"WAITING_TOOL", "COMPLETE"}
    /\ at \in {"delegate", "pipeline", "child"} => state = "DELEGATING"

\* A pending delegation names a tier to run, and a loop waits for a child only
\* with something pending.
Queued(at, p) ==
    /\ p.kind = "delegate" => p.target \in Tiers
    /\ p.kind = "resume" => p.of \in Tiers /\ "resume" \in Tools
    /\ at = "delegate" => p.kind \in {"delegate", "resume"}
    /\ at = "pipeline" => p.kind = "pipeline"
    /\ at = "child" => p.kind # "none"
    /\ at = "child" /\ p.kind = "pipeline" => p.stages # <<>>

\* No tier with explicit_completion is COMPLETE by a text or a delegate.
Earned(tier, state, via) ==
    state = "COMPLETE" /\ tier \in Explicit => via \notin {"text", "delegate"}

WellFormed(c) ==
    /\ Fit(c.at, c.state, c.iterations, c.limit)
    /\ Queued(c.at, c.pending)
    /\ Earned(c.tier, c.state, c.via)

\* The stack: its contexts are well formed, all but the topmost wait for a child,
\* and only loops below the depth limit dispatch.
Nested ==
    /\ stack \in Seq(ContextType) /\ Len(stack) <= MaxDepth + 1
    /\ \A i \in 1 .. Len(stack) :
          /\ WellFormed(stack[i])
          /\ stack[i].at = "child" <=> i < Len(stack)
          /\ stack[i].at \in {"delegate", "pipeline"} => i <= MaxDepth

\* The eight fields of a context that matter here.
Fields(c, tier, anc, limit, at, state, n, p, via) ==
    /\ c \in ContextType
    /\ c.tier = tier /\ c.ancestors = anc /\ c.limit = limit /\ c.at = at
    /\ c.state = state /\ c.iterations = n /\ c.pending = p /\ c.via = via

\* What is left to do in a loop: each iteration it may still start costs a Round, each
\* child of the delegation at hand costs what a new loop may.  No step but a dispatch,
\* which gives an iteration back, adds to it.
Round == MaxCalls + 4
Whole == 2 + Round * MaxIterations
Children(p) == IF p.kind = "pipeline" THEN Len(p.stages) ELSE 1

Work(at, p, k) ==
    CASE at = "end" -> 1
      [] at = "top" -> 2
      [] at = "dispatch" -> 3
      [] at = "tools" -> 4 + k
      [] at = "generate" -> 5 + MaxCalls
      [] at \in {"delegate", "pipeline"} -> (Whole + 2) * Children(p) + 3
      [] at = "child" -> (Whole + 2) * (Children(p) - 1) + 4

Spent(at, p, k, n, limit) == Work(at, p, k) + Round * (limit - n)
Weight(c) == Spent(c.at, c.pending, Len(c.calls), c.iterations, c.limit)

\* What a step that replaces the topmost context makes of it.
Moved(d) ==
    /\ d \in ContextType /\ WellFormed(d) /\ d.at # "child"
    /\ d.at \in {"delegate", "pipeline"} => Len(stack) <= MaxDepth
    /\ Top.state \in Terminal => d.state = Top.state \/ d.via = "budget"
    /\ d.ancestors = Top.ancestors /\ (Len(stack) > 1 => d.tier = Top.tier)
    /\ d.at = "delegate" => /\ d.tier = Top.tier /\ d.pending = Top.pending
                            /\ ~DelegationCycle(Top, Top.pending.target)
    /\ d.at = "generate" => ~interrupted
    /\ Dispatch \/ Weight(d) < Weight(Top)

(***************************************************************************)
(* Contexts and the stack.                                                 *)
(***************************************************************************)
\* The types of a context's fields.
LEMMA ContextFields ==
    ASSUME NEW c \in ContextType
    PROVE  /\ c.tier \in Tiers /\ c.ancestors \in SUBSET Tiers
           /\ c.limit \in 1 .. MaxIterations /\ c.iterations \in 0 .. MaxIterations
           /\ c.limit \in Nat /\ c.iterations \in Nat
           /\ c.at \in {"top", "generate", "tools", "dispatch", "delegate", "pipeline",
                        "child", "end"}
           /\ c.state \in States /\ c.calls \in Seq(Tools)
           /\ c.duplicates \in 0 .. MaxDuplicates /\ c.sameTool \in Nat
           /\ c.emptyTurns \in 0 .. MaxEmptyTurns /\ c.failed \in Nat
           /\ c.pending \in [kind : {"none", "delegate", "resume", "pipeline"},
                             target : Tiers \cup {NoTier}, of : Tiers \cup {NoTier},
                             turns : Nat, stages : Seq(Tiers)]
           /\ Fields(c, c.tier, c.ancestors, c.limit, c.at, c.state, c.iterations,
                     c.pending, c.via)
<1>1. /\ c.tier \in Tiers /\ c.ancestors \in SUBSET Tiers
      /\ c.limit \in 1 .. MaxIterations /\ c.iterations \in 0 .. MaxIterations
      /\ c.at \in {"top", "generate", "tools", "dispatch", "delegate", "pipeline",
                   "child", "end"}
      /\ c.state \in States /\ c.calls \in Seq(Tools)
  BY DEF ContextType
<1>2. /\ c.duplicates \in 0 .. MaxDuplicates /\ c.sameTool \in Nat
      /\ c.emptyTurns \in 0 .. MaxEmptyTurns /\ c.failed \in Nat
  BY DEF ContextType
<1>3. c.pending \in [kind : {"none", "delegate", "resume", "pipeline"},
                     target : Tiers \cup {NoTier}, of : Tiers \cup {NoTier},
                     turns : Nat, stages : Seq(Tiers)]
  BY DEF ContextType
<1>4. c.limit \in Nat /\ c.iterations \in Nat
  BY <1>1, LoopAssumption
<1> QED BY <1>1, <1>2, <1>3, <1>4 DEF Fields

\* Replacing the topmost context.
LEMMA SetTopFacts ==
    ASSUME stack \in Seq(ContextType), stack # <<>>, NEW d \in ContextType
    PROVE  /\ Top \in ContextType /\ Len(stack) \in Nat /\ Len(stack) >= 1
           /\ SetTop(d) \in Seq(ContextType) /\ Len(SetTop(d)) = Len(stack)
           /\ SetTop(d)[Len(stack)] = d
           /\ \A i \in 1 .. Len(stack) : i # Len(stack) => SetTop(d)[i] = stack[i]
<1>1. Len(stack) \in Nat /\ Len(stack) >= 1 /\ Len(stack) \in 1 .. Len(stack)
  <2>1. Len(stack) \in Nat /\ Len(stack) # 0
    BY EmptySeq, LenProperties
  <2> QED BY <2>1
<1>2. Top \in ContextType
  BY <1>1, ElementOfSeq DEF Top
<1>3. /\ SetTop(d) \in Seq(ContextType) /\ Len(SetTop(d)) = Len(stack)
      /\ SetTop(d)[Len(stack)] = d
      /\ \A i \in 1 .. Len(stack) : i # Len(stack) => SetTop(d)[i] = stack[i]
  BY <1>1, ExceptSeq DEF SetTop
<1> QED BY <1>1, <1>2, <1>3

(***************************************************************************)
(* What is left to do.                                                     *)
(***************************************************************************)
\* The measure's constants are natural.
LEMMA Costs ==
    /\ MaxCalls \in Nat /\ MaxIterations \in Nat
    /\ Round \in Nat /\ Round = MaxCalls + 4 /\ Whole \in Nat /\ Whole >= 2
<1>1. MaxCalls \in Nat /\ MaxIterations \in Nat
  BY LoopAssumption
<1>2. Round \in Nat /\ Round = MaxCalls + 4
  BY <1>1 DEF Round
<1>3. Round * MaxIterations \in Nat
  BY <1>1, <1>2
<1> QED BY <1>1, <1>2, <1>3 DEF Whole

\* What a control point costs.
LEMMA Works ==
    ASSUME NEW p, NEW k
    PROVE  /\ Work("end", p, k) = 1 /\ Work("top", p, k) = 2 /\ Work("dispatch", p, k) = 3
           /\ Work("tools", p, k) = 4 + k /\ Work("generate", p, k) = 5 + MaxCalls
           /\ Work("delegate", p, k) = (Whole + 2) * Children(p) + 3
           /\ Work("pipeline", p, k) = (Whole + 2) * Children(p) + 3
           /\ Work("child", p, k) = (Whole + 2) * (Children(p) - 1) + 4
BY DEF Work

\* The iterations that a loop may still start.
LEMMA Iterations ==
    ASSUME NEW c \in ContextType
    PROVE  /\ Round * (c.limit - c.iterations) \in Int
           /\ Round * (c.limit - (c.iterations + 1)) = Round * (c.limit - c.iterations) - Round
           /\ c.iterations <= c.limit => Round * (c.limit - c.iterations) \in Nat
<1> DEFINE m == c.limit - c.iterations
<1>1. c.limit \in Nat /\ c.iterations \in Nat /\ m \in Int
  BY ContextFields
<1>2. c.limit - (c.iterations + 1) = m - 1 /\ (c.iterations <= c.limit => m \in Nat)
  BY <1>1
<1> HIDE DEF m
<1>3. Round \in Nat
  BY Costs
<1>4. Round * m \in Int /\ Round * (m - 1) = Round * m - Round
  BY <1>1, <1>3
<1>5. m \in Nat => Round * m \in Nat
  BY <1>3
<1> QED BY <1>2, <1>4, <1>5 DEF m

\* How many loops the delegation at hand starts.
LEMMA ChildCount ==
    ASSUME NEW c \in ContextType
    PROVE  /\ Children(c.pending) \in Nat
           /\ WellFormed(c) /\ c.at = "child" => Children(c.pending) >= 1
<1>1. c.pending.stages \in Seq(Tiers)
  BY ContextFields
<1>2. Len(c.pending.stages) \in Nat /\ (c.pending.stages # <<>> => Len(c.pending.stages) >= 1)
  <2>1. Len(c.pending.stages) \in Nat
    BY <1>1, LenProperties
  <2>2. c.pending.stages # <<>> => Len(c.pending.stages) # 0
    BY <1>1, EmptySeq
  <2> QED BY <2>1, <2>2
<1>3. ASSUME WellFormed(c), c.at = "child"
      PROVE  Children(c.pending) >= 1
  BY <1>2, <1>3 DEF WellFormed, Queued, Children
<1> QED BY <1>2, <1>3 DEF Children

\* What is left of a well-formed loop is a positive number.
LEMMA WeightNatural ==
    ASSUME NEW c \in ContextType, WellFormed(c)
    PROVE  Weight(c) \in Nat /\ Weight(c) >= 1
<1> DEFINE w == Work(c.at, c.pending, Len(c.calls))
           left == Round * (c.limit - c.iterations)
           m == Children(c.pending)
<1>1. left \in Nat
  BY Iterations DEF WellFormed, Fit
<1>2. Len(c.calls) \in Nat
  BY ContextFields, LenProperties
<1>3. m \in Nat /\ (c.at = "child" => m - 1 \in Nat)
  BY ChildCount
<1>4. (Whole + 2) * m \in Nat
  <2>1. Whole + 2 \in Nat
    BY Costs
  <2> HIDE DEF m
  <2> QED BY <1>3, <2>1
<1>5. c.at = "child" => (Whole + 2) * (m - 1) \in Nat
  <2>1. Whole + 2 \in Nat
    BY Costs
  <2> DEFINE j == m - 1
  <2>2. c.at = "child" => j \in Nat
    BY <1>3
  <2> HIDE DEF j
  <2>3. j \in Nat => (Whole + 2) * j \in Nat
    BY <2>1
  <2> QED BY <2>2, <2>3 DEF j
<1>6. c.at \in {"top", "generate", "tools", "dispatch", "delegate", "pipeline", "child", "end"}
  BY ContextFields
<1>7. w \in Nat /\ w >= 1
  <2> DEFINE x == (Whole + 2) * m
             y == (Whole + 2) * (m - 1)
  <2>1. \/ w = 1 \/ w = 2 \/ w = 3 \/ w = 4 + Len(c.calls) \/ w = 5 + MaxCalls
        \/ w = x + 3 \/ (c.at = "child" /\ w = y + 4)
    BY <1>6, Works
  <2>2. x \in Nat /\ (c.at = "child" => y \in Nat) /\ MaxCalls \in Nat
    BY <1>4, <1>5, Costs
  <2> HIDE DEF w, x, y
  <2> QED BY <1>2, <2>1, <2>2
<1>8. Weight(c) = w + left
  BY DEF Weight, Spent
<1> HIDE DEF w, left
<1> QED BY <1>1, <1>7, <1>8

\* Going on within an iteration.
LEMMA GoesOn ==
    ASSUME NEW c \in ContextType, NEW at, NEW p, NEW k,
           \/ at = "end" /\ c.at = "top"
           \/ at = "dispatch" /\ c.at \in {"generate", "tools"}
           \/ at = "top" /\ c.at \in {"dispatch", "delegate", "pipeline"}
           \/ at = "tools" /\ c.at = "generate" /\ k \in Nat /\ k <= MaxCalls
           \/ at = "tools" /\ c.at = "tools" /\ k \in Nat /\ k < Len(c.calls)
    PROVE  Spent(at, p, k, c.iterations, c.limit) < Weight(c)
<1> DEFINE w == Work(c.at, c.pending, Len(c.calls))
           v == Work(at, p, k)
           left == Round * (c.limit - c.iterations)
           x == (Whole + 2) * Children(c.pending)
<1>1. left \in Int
  BY Iterations
<1>2. Len(c.calls) \in Nat /\ MaxCalls \in Nat
  BY ContextFields, LenProperties, Costs
<1>3. x \in Nat
  <2>1. Whole + 2 \in Nat /\ Children(c.pending) \in Nat
    BY Costs, ChildCount
  <2> QED BY <2>1
<1> HIDE DEF x
<1>4. /\ c.at = "top" => w = 2
      /\ c.at = "dispatch" => w = 3
      /\ c.at = "tools" => w = 4 + Len(c.calls)
      /\ c.at = "generate" => w = 5 + MaxCalls
      /\ c.at \in {"delegate", "pipeline"} => w = x + 3
  BY Works DEF x
<1>5. /\ at = "end" => v = 1
      /\ at = "top" => v = 2
      /\ at = "dispatch" => v = 3
      /\ at = "tools" => v = 4 + k
  BY Works
<1>6. Weight(c) = w + left /\ Spent(at, p, k, c.iterations, c.limit) = v + left
  BY DEF Weight, Spent
<1> HIDE DEF w, v, left
<1>7. v \in Int /\ w \in Int /\ v < w
  BY <1>2, <1>3, <1>4, <1>5
<1> QED BY <1>1, <1>6, <1>7

\* Starting an iteration, or counting the one in which the loop stops.
LEMMA CountsDown ==
    ASSUME NEW c \in ContextType, c.at = "top", NEW at \in {"end", "top", "generate"},
           NEW p, NEW k
    PROVE  Spent(at, p, k, c.iterations + 1, c.limit) < Weight(c)
<1> DEFINE v == Work(at, p, k)
           left == Round * (c.limit - c.iterations)
           rest == Round * (c.limit - (c.iterations + 1))
<1>1. left \in Int /\ rest = left - Round
  BY Iterations
<1>2. Weight(c) = 2 + left /\ Spent(at, p, k, c.iterations + 1, c.limit) = v + rest
  BY Works DEF Weight, Spent
<1>3. v = 1 \/ v = 2 \/ v = 5 + MaxCalls
  BY Works
<1>4. MaxCalls \in Nat /\ Round \in Nat /\ Round = MaxCalls + 4
  BY Costs
<1> HIDE DEF v, left, rest
<1> QED BY <1>1, <1>2, <1>3, <1>4

(***************************************************************************)
(* What the operators on contexts return.                                  *)
(***************************************************************************)
\* No pending delegation is a pending record.
LEMMA NothingPending ==
    /\ NoPending \in [kind : {"none", "delegate", "resume", "pipeline"},
                      target : Tiers \cup {NoTier}, of : Tiers \cup {NoTier},
                      turns : Nat, stages : Seq(Tiers)]
    /\ NoPending.kind = "none"
BY DEF NoPending

\* A loop begins at its top with nothing counted.
LEMMA NewFields ==
    ASSUME NEW tier \in Tiers, NEW anc \in SUBSET Tiers, NEW limit \in 1 .. MaxIterations
    PROVE  Fields(NewContext(tier, anc, limit), tier, anc, limit, "top", "PLANNING", 0,
                  NoPending, "none")
<1>1. NewContext(tier, anc, limit) \in ContextType
  BY LoopAssumption DEF ContextType, NewContext, NoPending, States
<1> QED BY <1>1 DEF Fields, NewContext

\* Every state's name is one.
LEMMA StateNames ==
    /\ Terminal \subseteq States
    /\ {"PLANNING", "EXECUTING", "WAITING_TOOL", "DELEGATING", "COMPLETE", "ERROR",
        "INTERRUPTED"} \subseteq States
    /\ "EXECUTING" \notin Terminal /\ "WAITING_TOOL" \notin Terminal
    /\ "DELEGATING" \notin Terminal /\ "PLANNING" \notin Terminal
BY DEF States, Terminal

\* A change of state changes nothing else.
LEMMA StateFields ==
    ASSUME NEW c \in ContextType, NEW s \in States
    PROVE  Fields([c EXCEPT !.state = s], c.tier, c.ancestors, c.limit, c.at, s,
                  c.iterations, c.pending, c.via)
BY DEF ContextType, Fields

\* What makes a loop complete.
LEMMA CompleteFields ==
    ASSUME NEW c \in ContextType,
           NEW v \in {"hook", "text", "chain", "complete", "budget", "cap", "relay",
                      "delegate"}
    PROVE  Fields(Complete(c, v), c.tier, c.ancestors, c.limit, c.at, "COMPLETE",
                  c.iterations, c.pending, v)
<1> DEFINE d == Complete(c, v)
<1>1. "COMPLETE" \in States
  BY StateNames
<1>2. d \in ContextType
  BY <1>1 DEF ContextType, Complete
<1>3. /\ d.tier = c.tier /\ d.ancestors = c.ancestors /\ d.limit = c.limit /\ d.at = c.at
      /\ d.state = "COMPLETE" /\ d.iterations = c.iterations /\ d.pending = c.pending
      /\ d.via = v
  BY DEF ContextType, Complete
<1> QED BY <1>2, <1>3 DEF Fields

\* charge_thinking_budget goes on to the dispatch and may cut the turn.
LEMMA ChargedFields ==
    ASSUME NEW c \in ContextType, NEW progress \in BOOLEAN, NEW d \in Charged(c, progress)
    PROVE  \E state, via :
              /\ Fields(d, c.tier, c.ancestors, c.limit, "dispatch", state, c.iterations,
                        c.pending, via)
              /\ \/ state = c.state /\ via = c.via
                 \/ state = "COMPLETE" /\ via = "budget"
<1> DEFINE e == [c EXCEPT !.at = "dispatch"]
<1>1. /\ e \in ContextType
      /\ Fields(e, c.tier, c.ancestors, c.limit, "dispatch", c.state, c.iterations,
                c.pending, c.via)
  BY DEF ContextType, Fields
<1>2. \/ d = e
      \/ d = [e EXCEPT !.nudged = FALSE]
      \/ d = [e EXCEPT !.nudged = TRUE]
      \/ d = [Complete(e, "budget") EXCEPT !.cut = TRUE]
  <2> HIDE DEF e
  <2>1. CASE ~Budgeted
    BY <2>1 DEF Charged, e
  <2>2. CASE Budgeted /\ progress
    BY <2>2 DEF Charged, e
  <2>3. CASE Budgeted /\ ~progress
    BY <2>3 DEF Charged, e
  <2> QED BY <2>1, <2>2, <2>3, LoopAssumption
<1> HIDE DEF e
<1>3. ASSUME NEW b \in BOOLEAN, d = [e EXCEPT !.nudged = b]
      PROVE  Fields(d, e.tier, e.ancestors, e.limit, e.at, e.state, e.iterations,
                    e.pending, e.via)
  BY <1>1, <1>3 DEF ContextType, Fields
<1>4. ASSUME d = [Complete(e, "budget") EXCEPT !.cut = TRUE]
      PROVE  Fields(d, e.tier, e.ancestors, e.limit, e.at, "COMPLETE", e.iterations,
                    e.pending, "budget")
  <2> DEFINE g == Complete(e, "budget")
  <2>1. Fields(g, e.tier, e.ancestors, e.limit, e.at, "COMPLETE", e.iterations, e.pending,
               "budget")
    BY <1>1, CompleteFields
  <2> HIDE DEF g
  <2>2. Fields([g EXCEPT !.cut = TRUE], g.tier, g.ancestors, g.limit, g.at, g.state,
               g.iterations, g.pending, g.via)
    BY <2>1 DEF Fields, ContextType
  <2>3. /\ g.tier = e.tier /\ g.ancestors = e.ancestors /\ g.limit = e.limit
        /\ g.at = e.at /\ g.state = "COMPLETE" /\ g.iterations = e.iterations
        /\ g.pending = e.pending /\ g.via = "budget"
    BY <2>1 DEF Fields
  <2>4. d = [g EXCEPT !.cut = TRUE]
    BY <1>4 DEF g
  <2> QED BY <2>2, <2>3, <2>4
<1>5. /\ e.tier = c.tier /\ e.ancestors = c.ancestors /\ e.limit = c.limit
      /\ e.at = "dispatch" /\ e.state = c.state /\ e.iterations = c.iterations
      /\ e.pending = c.pending /\ e.via = c.via
  BY <1>1 DEF Fields
<1>6. CASE d = e
  <2>1. Fields(d, c.tier, c.ancestors, c.limit, "dispatch", c.state, c.iterations,
               c.pending, c.via)
    BY <1>1, <1>6
  <2> WITNESS c.state, c.via
  <2> QED BY <2>1
<1>7. CASE d = [e EXCEPT !.nudged = FALSE] \/ d = [e EXCEPT !.nudged = TRUE]
  <2>1. Fields(d, e.tier, e.ancestors, e.limit, e.at, e.state, e.iterations, e.pending,
               e.via)
    BY <1>3, <1>7
  <2>2. Fields(d, c.tier, c.ancestors, c.limit, "dispatch", c.state, c.iterations,
               c.pending, c.via)
    BY <2>1, <1>5
  <2> WITNESS c.state, c.via
  <2> QED BY <2>2
<1>8. CASE d = [Complete(e, "budget") EXCEPT !.cut = TRUE]
  <2>1. Fields(d, e.tier, e.ancestors, e.limit, e.at, "COMPLETE", e.iterations, e.pending,
               "budget")
    BY <1>4, <1>8
  <2>2. Fields(d, c.tier, c.ancestors, c.limit, "dispatch", "COMPLETE", c.iterations,
               c.pending, "budget")
    BY <2>1, <1>5
  <2> QED BY <2>2
<1> QED BY <1>2, <1>6, <1>7, <1>8

\* evaluate_no_tool_decision changes the state, and the tier of a root only.
LEMMA DecisionFields ==
    ASSUME NEW c \in ContextType, c.state = "EXECUTING", NEW finish, NEW full \in BOOLEAN,
           NEW d, d = NoToolDecision(c, finish, full)
    PROVE  \E tier, state, via :
              /\ Fields(d, tier, c.ancestors, c.limit, c.at, state, c.iterations,
                        c.pending, via)
              /\ tier = c.tier \/ ~(Depth > 0)
              /\ Earned(tier, state, via)
<1>1. Fields(c, c.tier, c.ancestors, c.limit, c.at, "EXECUTING", c.iterations, c.pending,
             c.via)
  BY ContextFields
<1>2. ASSUME NEW s \in {"INTERRUPTED", "ERROR"}, d = [c EXCEPT !.state = s]
      PROVE  Fields(d, c.tier, c.ancestors, c.limit, c.at, s, c.iterations, c.pending, c.via)
  BY <1>2, StateFields, StateNames
<1>3. ASSUME NEW v \in {"chain", "text"}, d = Complete(c, v)
      PROVE  Fields(d, c.tier, c.ancestors, c.limit, c.at, "COMPLETE", c.iterations,
                    c.pending, v)
  BY <1>3, CompleteFields
<1>4. ASSUME d = [c EXCEPT !.tier = ChainTarget]
      PROVE  Fields(d, ChainTarget, c.ancestors, c.limit, c.at, c.state, c.iterations,
                    c.pending, c.via)
  <2>1. ChainTarget \in Tiers
    BY LoopAssumption
  <2> QED BY <1>4, <2>1 DEF ContextType, Fields
<1>5. ASSUME d = [c EXCEPT !.emptyTurns = @ + 1, !.state = "EXECUTING"],
             c.emptyTurns + 1 \in 0 .. MaxEmptyTurns
      PROVE  Fields(d, c.tier, c.ancestors, c.limit, c.at, "EXECUTING", c.iterations,
                    c.pending, c.via)
  <2> DEFINE n == c.emptyTurns + 1
  <2>1. d = [c EXCEPT !.emptyTurns = n, !.state = "EXECUTING"] /\ n \in 0 .. MaxEmptyTurns
    BY <1>5
  <2> HIDE DEF n
  <2> DEFINE e == [c EXCEPT !.emptyTurns = n]
  <2>2. e \in ContextType
    BY <2>1 DEF ContextType
  <2>3. /\ e.tier = c.tier /\ e.ancestors = c.ancestors /\ e.limit = c.limit
        /\ e.at = c.at /\ e.iterations = c.iterations /\ e.pending = c.pending
        /\ e.via = c.via
    BY DEF ContextType
  <2>4. d = [e EXCEPT !.state = "EXECUTING"]
    BY <2>1 DEF ContextType
  <2> HIDE DEF e
  <2>5. Fields(d, e.tier, e.ancestors, e.limit, e.at, "EXECUTING", e.iterations,
               e.pending, e.via)
    BY <2>2, <2>4, StateFields, StateNames
  <2> QED BY <2>3, <2>5
<1>6. \/ d = c
      \/ \E s \in {"INTERRUPTED", "ERROR"} : d = [c EXCEPT !.state = s]
      \/ d = Complete(c, "chain")
      \/ d = Complete(c, "text") /\ c.tier \notin Explicit
      \/ d = [c EXCEPT !.tier = ChainTarget] /\ ~(Depth > 0)
      \/ d = EmptyTurn(c)
  BY DEF NoToolDecision, NeedsExplicit
<1>7. \/ d = EmptyTurn(c)
         => \/ d = [c EXCEPT !.state = "ERROR"]
            \/ /\ d = [c EXCEPT !.emptyTurns = @ + 1, !.state = "EXECUTING"]
               /\ ~(c.emptyTurns >= MaxEmptyTurns)
  BY DEF EmptyTurn
<1>8. ~(c.emptyTurns >= MaxEmptyTurns) => c.emptyTurns + 1 \in 0 .. MaxEmptyTurns
  BY ContextFields, LoopAssumption
<1>9. CASE d = c
  BY <1>1, <1>9 DEF Earned
<1>10. CASE \E s \in {"INTERRUPTED", "ERROR"} : d = [c EXCEPT !.state = s]
  BY <1>2, <1>10 DEF Earned
<1>11. CASE d = Complete(c, "chain")
  BY <1>3, <1>11 DEF Earned
<1>12. CASE d = Complete(c, "text") /\ c.tier \notin Explicit
  BY <1>3, <1>12 DEF Earned
<1>13. CASE d = [c EXCEPT !.tier = ChainTarget] /\ ~(Depth > 0)
  BY <1>4, <1>13 DEF Earned
<1>14. CASE d = EmptyTurn(c)
  BY <1>2, <1>5, <1>7, <1>8, <1>14 DEF Earned
<1> QED BY <1>6, <1>9, <1>10, <1>11, <1>12, <1>13, <1>14

\* Back at the top of the loop nothing is pending.
LEMMA BackFields ==
    ASSUME NEW c \in ContextType
    PROVE  Fields(BackToLoop(c), c.tier, c.ancestors, c.limit, "top", c.state,
                  c.iterations, NoPending, c.via)
BY NothingPending DEF BackToLoop, ContextType, Fields

\* The end of a pipeline.
LEMMA PipelineFields ==
    ASSUME NEW c \in ContextType
    PROVE  Fields(EndPipeline(c), c.tier, c.ancestors, c.limit, "top", "EXECUTING",
                  c.iterations, NoPending, c.via)
<1> DEFINE b == BackToLoop(c)
<1>1. Fields(b, c.tier, c.ancestors, c.limit, "top", c.state, c.iterations, NoPending,
             c.via)
  BY BackFields
<1> HIDE DEF b
<1>2. Fields([b EXCEPT !.state = "EXECUTING"], b.tier, b.ancestors, b.limit, b.at,
             "EXECUTING", b.iterations, b.pending, b.via)
  BY <1>1 DEF Fields, ContextType, States
<1>3. /\ b.tier = c.tier /\ b.ancestors = c.ancestors /\ b.limit = c.limit /\ b.at = "top"
      /\ b.iterations = c.iterations /\ b.pending = NoPending /\ b.via = c.via
  BY <1>1 DEF Fields
<1> QED BY <1>2, <1>3 DEF EndPipeline, b

\* What a delegation's result makes of its parent.
LEMMA ResultFields ==
    ASSUME NEW c \in ContextType, NEW success \in BOOLEAN, NEW cut \in BOOLEAN,
           NEW gap \in BOOLEAN
    PROVE  \E state, via :
              /\ Fields(DelegationResult(c, success, cut, gap), c.tier, c.ancestors,
                        c.limit, "top", state, c.iterations, NoPending, via)
              /\ Earned(c.tier, state, via)
<1> DEFINE target == RunTarget(c.pending)
           e == Streak(c, target, success)
           f == Finalized(e, success, cut, gap)
<1>1. target \in Tiers \cup {NoTier}
  <2>1. c.pending.of \in Tiers \cup {NoTier} /\ c.pending.target \in Tiers \cup {NoTier}
    BY ContextFields
  <2> QED BY <2>1 DEF RunTarget
<1> HIDE DEF target
<1>2. Fields(e, c.tier, c.ancestors, c.limit, c.at, c.state, c.iterations, c.pending, c.via)
  <2>1. ASSUME NEW g \in Tiers \cup {NoTier}, NEW n \in Nat,
               e = [c EXCEPT !.failedTarget = g, !.failed = n]
        PROVE  Fields(e, c.tier, c.ancestors, c.limit, c.at, c.state, c.iterations,
                      c.pending, c.via)
    <3> HIDE DEF e
    <3> QED BY <2>1 DEF ContextType, Fields
  <2>2. ASSUME NEW n \in Nat, e = [c EXCEPT !.failed = n]
        PROVE  Fields(e, c.tier, c.ancestors, c.limit, c.at, c.state, c.iterations,
                      c.pending, c.via)
    <3> HIDE DEF e
    <3> QED BY <2>2 DEF ContextType, Fields
  <2>3. CASE success
    <3>1. e = [c EXCEPT !.failedTarget = NoTier, !.failed = 0]
      BY <2>3 DEF Streak
    <3> QED BY <2>1, <3>1
  <2>4. CASE ~success /\ target = c.failedTarget
    <3> DEFINE n == IF c.failed < MaxFailed THEN c.failed + 1 ELSE c.failed
    <3>1. n \in Nat
      BY ContextFields
    <3>2. e = [c EXCEPT !.failed = n]
      BY <2>4 DEF Streak
    <3> HIDE DEF n, e
    <3> QED BY <2>2, <3>1, <3>2
  <2>5. CASE ~success /\ target # c.failedTarget
    <3>1. e = [c EXCEPT !.failedTarget = target, !.failed = 1]
      BY <2>5 DEF Streak
    <3> QED BY <1>1, <2>1, <3>1
  <2> QED BY <2>3, <2>4, <2>5
<1> HIDE DEF e
<1>3. \E state, via :
         /\ Fields(f, e.tier, e.ancestors, e.limit, e.at, state, e.iterations, e.pending,
                   via)
         /\ Earned(e.tier, state, via)
  <2>1. ASSUME NEW v \in {"relay", "delegate"}, f = Complete(e, v)
        PROVE  Fields(f, e.tier, e.ancestors, e.limit, e.at, "COMPLETE", e.iterations,
                      e.pending, v)
    <3>1. e \in ContextType
      BY <1>2 DEF Fields
    <3> HIDE DEF f
    <3> QED BY <2>1, <3>1, CompleteFields
  <2>2. ASSUME f = [e EXCEPT !.state = "EXECUTING"]
        PROVE  Fields(f, e.tier, e.ancestors, e.limit, e.at, "EXECUTING", e.iterations,
                      e.pending, e.via)
    <3> HIDE DEF f
    <3> QED BY <1>2, <2>2 DEF ContextType, Fields, States
  <2>3. \/ f = Complete(e, "relay")
        \/ f = Complete(e, "delegate") /\ e.tier \notin Explicit
        \/ f = [e EXCEPT !.state = "EXECUTING"]
    BY DEF Finalized, NeedsExplicit
  <2> HIDE DEF f
  <2> QED BY <2>1, <2>2, <2>3 DEF Earned
<1> HIDE DEF f
<1>4. PICK state, via :
         /\ Fields(f, e.tier, e.ancestors, e.limit, e.at, state, e.iterations, e.pending,
                   via)
         /\ Earned(e.tier, state, via)
  BY <1>3
<1>5. f \in ContextType
  BY <1>4 DEF Fields
<1>6. Fields(BackToLoop(f), f.tier, f.ancestors, f.limit, "top", f.state, f.iterations,
             NoPending, f.via)
  BY <1>5, BackFields
<1>7. /\ f.tier = c.tier /\ f.ancestors = c.ancestors /\ f.limit = c.limit
      /\ f.state = state /\ f.iterations = c.iterations /\ f.via = via /\ e.tier = c.tier
  BY <1>2, <1>4 DEF Fields
<1>8. DelegationResult(c, success, cut, gap) = BackToLoop(f)
  BY DEF DelegationResult, f, e, target
<1> QED BY <1>4, <1>6, <1>7, <1>8

(***************************************************************************)
(* The steps that replace the topmost context.                             *)
(***************************************************************************)
\* The topmost context is well formed and does not wait for a child.
LEMMA TopFacts ==
    ASSUME Nested, stack # <<>>
    PROVE  /\ Top \in ContextType /\ WellFormed(Top) /\ Top.at # "child"
           /\ Top.at \in {"delegate", "pipeline"} => Len(stack) <= MaxDepth
           /\ Len(stack) \in Nat /\ Len(stack) >= 1
<1>1. Top \in ContextType /\ Len(stack) \in Nat /\ Len(stack) >= 1
  <2>1. stack \in Seq(ContextType)
    BY DEF Nested
  <2>2. Len(stack) \in Nat /\ Len(stack) # 0
    BY <2>1, EmptySeq, LenProperties
  <2>3. Len(stack) \in 1 .. Len(stack)
    BY <2>2
  <2> QED BY <2>1, <2>2, <2>3, ElementOfSeq DEF Top
<1>2. Len(stack) \in 1 .. Len(stack) /\ ~(Len(stack) < Len(stack))
  BY <1>1
<1>3. /\ WellFormed(Top) /\ (Top.at = "child" <=> Len(stack) < Len(stack))
      /\ Top.at \in {"delegate", "pipeline"} => Len(stack) <= MaxDepth
  BY <1>2 DEF Nested, Top
<1> QED BY <1>1, <1>2, <1>3

\* A context is Moved when its fields fit.
LEMMA MovedIntro ==
    ASSUME NEW d, NEW tier, NEW at, NEW state, NEW n, NEW p, NEW via,
           Fields(d, tier, Top.ancestors, Top.limit, at, state, n, p, via),
           Fit(at, state, n, Top.limit), Queued(at, p), Earned(tier, state, via),
           at # "child",
           at \in {"delegate", "pipeline"} => Len(stack) <= MaxDepth,
           Top.state \in Terminal => (state = Top.state \/ via = "budget"),
           Len(stack) > 1 => tier = Top.tier,
           at = "delegate" => /\ tier = Top.tier /\ p = Top.pending
                              /\ ~DelegationCycle(Top, Top.pending.target),
           at = "generate" => ~interrupted,
           Dispatch \/ Spent(at, p, Len(d.calls), n, Top.limit) < Weight(Top)
    PROVE  Moved(d)
<1>1. Dispatch \/ Weight(d) < Weight(Top)
  BY DEF Fields, Weight
<1> QED BY <1>1 DEF Moved, Fields, WellFormed

\* Going on to a place outside a batch and a delegation keeps what is pending and
\* how the loop completed.
LEMMA KeptFits ==
    ASSUME NEW c \in ContextType, WellFormed(c), NEW at \in {"top", "end", "dispatch", "tools", "generate"}
    PROVE  /\ Queued(at, c.pending) /\ Earned(c.tier, c.state, c.via)
           /\ c.iterations <= c.limit
           /\ Queued(at, NoPending)
BY NothingPending DEF WellFormed, Queued, Fit

\* EndLoop: the loop ends, at the cap with a synthetic completion.
LEMMA EndLoopMoves ==
    ASSUME Nested, EndLoop
    PROVE  \E d : stack' = SetTop(d) /\ Moved(d)
<1> DEFINE c == Top
<1>1. stack # <<>> /\ c.at = "top"
  BY DEF EndLoop, At
<1>2. c \in ContextType /\ WellFormed(c)
  BY <1>1, TopFacts
<1>3. CASE c.iterations >= c.limit /\ c.state \notin Terminal
  <2> DEFINE g == Complete(c, "cap")
             d == [g EXCEPT !.at = "end", !.cut = TRUE]
  <2>1. stack' = SetTop(d)
    BY <1>3 DEF EndLoop
  <2>2. Fields(g, c.tier, c.ancestors, c.limit, c.at, "COMPLETE", c.iterations, c.pending,
               "cap")
    BY <1>2, CompleteFields
  <2> HIDE DEF g, c
  <2>3. Fields(d, g.tier, g.ancestors, g.limit, "end", g.state, g.iterations, g.pending,
               g.via)
    BY <2>2 DEF Fields, ContextType
  <2> HIDE DEF d
  <2>4. Fields(d, c.tier, c.ancestors, c.limit, "end", "COMPLETE", c.iterations, c.pending,
               "cap")
    BY <2>2, <2>3 DEF Fields
  <2>5. /\ Fit("end", "COMPLETE", c.iterations, c.limit) /\ Queued("end", c.pending)
        /\ Earned(c.tier, "COMPLETE", "cap")
    BY <1>2, KeptFits DEF Fit, Earned
  <2>6. Spent("end", c.pending, Len(d.calls), c.iterations, c.limit) < Weight(c)
    BY <1>1, <1>2, GoesOn
  <2>7. Moved(d)
    BY <1>3, <2>4, <2>5, <2>6, MovedIntro DEF c
  <2> QED BY <2>1, <2>7
<1>4. CASE ~(c.iterations >= c.limit /\ c.state \notin Terminal)
  <2> DEFINE d == [c EXCEPT !.at = "end"]
  <2>1. stack' = SetTop(d)
    BY <1>4 DEF EndLoop
  <2> HIDE DEF c
  <2>2. Fields(d, c.tier, c.ancestors, c.limit, "end", c.state, c.iterations, c.pending,
               c.via)
    BY <1>2 DEF Fields, ContextType
  <2> HIDE DEF d
  <2>3. /\ Fit("end", c.state, c.iterations, c.limit) /\ Queued("end", c.pending)
        /\ Earned(c.tier, c.state, c.via)
    BY <1>2, KeptFits DEF Fit
  <2>4. Spent("end", c.pending, Len(d.calls), c.iterations, c.limit) < Weight(c)
    BY <1>1, <1>2, GoesOn
  <2>5. Moved(d)
    BY <2>2, <2>3, <2>4, MovedIntro DEF c
  <2> QED BY <2>1, <2>5
<1> QED BY <1>3, <1>4

\* The counting of an iteration below the limit.
LEMMA NextIteration ==
    ASSUME NEW c \in ContextType, ~ShouldStop(c)
    PROVE  /\ c.state \notin Terminal
           /\ c.iterations + 1 \in 0 .. MaxIterations /\ c.iterations + 1 >= 1
           /\ c.iterations + 1 <= c.limit
<1>1. c.limit \in 1 .. MaxIterations /\ c.iterations \in 0 .. MaxIterations
  BY ContextFields
<1>2. ~(c.iterations >= c.limit) /\ c.state \notin Terminal
  BY DEF ShouldStop, AtLimit
<1> QED BY <1>1, <1>2, LoopAssumption

\* StopInterrupted ends the loop as INTERRUPTED.
LEMMA StopInterruptedMoves ==
    ASSUME Nested, StopInterrupted
    PROVE  \E d : stack' = SetTop(d) /\ Moved(d)
<1> DEFINE c == Top
           n == c.iterations + 1
           d == [c EXCEPT !.iterations = n, !.at = "end", !.state = "INTERRUPTED"]
<1>1. stack # <<>> /\ c.at = "top" /\ ~ShouldStop(c) /\ stack' = SetTop(d)
  BY DEF StopInterrupted, At
<1>2. c \in ContextType /\ WellFormed(c)
  BY <1>1, TopFacts
<1>3. c.state \notin Terminal /\ n \in 0 .. MaxIterations /\ n <= c.limit
  BY <1>1, <1>2, NextIteration
<1>4. "INTERRUPTED" \in States
  BY StateNames
<1> HIDE DEF c, n
<1>5. Fields(d, c.tier, c.ancestors, c.limit, "end", "INTERRUPTED", n, c.pending, c.via)
  BY <1>2, <1>3, <1>4 DEF Fields, ContextType
<1> HIDE DEF d
<1>6. /\ Fit("end", "INTERRUPTED", n, c.limit) /\ Queued("end", c.pending)
      /\ Earned(c.tier, "INTERRUPTED", c.via)
  BY <1>2, <1>3, KeptFits DEF Fit, Earned
<1>7. Spent("end", c.pending, Len(d.calls), n, c.limit) < Weight(c)
  BY <1>1, <1>2, CountsDown DEF n
<1>8. Moved(d)
  BY <1>3, <1>5, <1>6, <1>7, MovedIntro DEF c
<1> QED BY <1>1, <1>8

\* StartIteration goes on to the generation or is cancelled by a hook.
LEMMA StartIterationMoves ==
    ASSUME Nested, StartIteration
    PROVE  \E d : stack' = SetTop(d) /\ Moved(d)
<1> DEFINE c == Top
           n == c.iterations + 1
           e == [c EXCEPT !.iterations = n, !.state = "EXECUTING"]
           d1 == [e EXCEPT !.at = "generate"]
           d2 == Complete(e, "hook")
<1>1. /\ stack # <<>> /\ c.at = "top" /\ ~ShouldStop(c) /\ ~interrupted
      /\ stack' = SetTop(d1) \/ stack' = SetTop(d2)
  BY DEF StartIteration, At
<1>2. c \in ContextType /\ WellFormed(c)
  BY <1>1, TopFacts
<1>3. c.state \notin Terminal /\ n \in 0 .. MaxIterations /\ n >= 1 /\ n <= c.limit
  BY <1>1, <1>2, NextIteration
<1>4. "EXECUTING" \in States
  BY StateNames
<1> HIDE DEF c, n
<1>5. Fields(e, c.tier, c.ancestors, c.limit, c.at, "EXECUTING", n, c.pending, c.via)
  BY <1>2, <1>3, <1>4 DEF Fields, ContextType
<1> HIDE DEF e
<1>6. e \in ContextType
  BY <1>5 DEF Fields
<1>7. Fields(d1, e.tier, e.ancestors, e.limit, "generate", e.state, e.iterations, e.pending,
             e.via)
  BY <1>6 DEF Fields, ContextType
<1>8. Fields(d2, e.tier, e.ancestors, e.limit, e.at, "COMPLETE", e.iterations, e.pending,
             "hook")
  BY <1>6, CompleteFields
<1> HIDE DEF d1, d2
<1>9. /\ Fields(d1, c.tier, c.ancestors, c.limit, "generate", "EXECUTING", n, c.pending,
                c.via)
      /\ Fields(d2, c.tier, c.ancestors, c.limit, "top", "COMPLETE", n, c.pending, "hook")
  BY <1>1, <1>5, <1>7, <1>8 DEF Fields
<1>10. /\ Fit("generate", "EXECUTING", n, c.limit) /\ Queued("generate", c.pending)
       /\ Earned(c.tier, "EXECUTING", c.via)
       /\ Fit("top", "COMPLETE", n, c.limit) /\ Queued("top", c.pending)
       /\ Earned(c.tier, "COMPLETE", "hook")
  BY <1>2, <1>3, KeptFits DEF Fit, Earned
<1>11. /\ Spent("generate", c.pending, Len(d1.calls), n, c.limit) < Weight(c)
       /\ Spent("top", c.pending, Len(d2.calls), n, c.limit) < Weight(c)
  BY <1>1, <1>2, CountsDown DEF n
<1>12. Moved(d1)
  BY <1>1, <1>3, <1>9, <1>10, <1>11, MovedIntro DEF c
<1>13. Moved(d2)
  BY <1>3, <1>9, <1>10, <1>11, MovedIntro DEF c
<1> QED BY <1>1, <1>12, <1>13

\* GenerateToolCalls puts a batch before the loop.
LEMMA GenerateToolCallsMoves ==
    ASSUME Nested, GenerateToolCalls
    PROVE  \E d : stack' = SetTop(d) /\ Moved(d)
<1> DEFINE c == Top
<1>1. stack # <<>> /\ c.at = "generate"
  BY DEF GenerateToolCalls, At
<1>2. c \in ContextType /\ WellFormed(c)
  BY <1>1, TopFacts
<1>3. c.state = "EXECUTING" /\ c.iterations >= 1
  BY <1>1, <1>2 DEF WellFormed, Fit
<1>4. PICK b \in Batches : stack' = SetTop([c EXCEPT !.calls = b, !.at = "tools",
                                                     !.state = "WAITING_TOOL"])
  BY DEF GenerateToolCalls
<1>5. b \in Seq(Tools) /\ Len(b) \in Nat /\ Len(b) <= MaxCalls
  <2>1. PICK n \in 1 .. MaxCalls : b \in [1 .. n -> Tools]
    BY DEF Batches
  <2>2. n \in Nat /\ n <= MaxCalls
    BY LoopAssumption
  <2>3. b \in Seq(Tools)
    BY <2>1, <2>2, SeqDef
  <2>4. DOMAIN b = 1 .. n /\ DOMAIN b = 1 .. Len(b) /\ Len(b) \in Nat
    BY <2>1, <2>3, LenProperties
  <2>5. Len(b) = n
    BY <2>2, <2>4
  <2> QED BY <2>2, <2>3, <2>5
<1> DEFINE d == [c EXCEPT !.calls = b, !.at = "tools", !.state = "WAITING_TOOL"]
<1>6. "WAITING_TOOL" \in States /\ "EXECUTING" \notin Terminal
  BY StateNames
<1>7. stack' = SetTop(d)
  BY <1>4
<1> HIDE DEF c
<1>8. Fields(d, c.tier, c.ancestors, c.limit, "tools", "WAITING_TOOL", c.iterations,
             c.pending, c.via)
  BY <1>2, <1>5, <1>6 DEF Fields, ContextType
<1>12. c.at = "generate"
  BY <1>1 DEF c
<1>11. Len(d.calls) = Len(b)
  BY <1>2 DEF ContextType
<1> HIDE DEF d
<1>9. /\ Fit("tools", "WAITING_TOOL", c.iterations, c.limit) /\ Queued("tools", c.pending)
      /\ Earned(c.tier, "WAITING_TOOL", c.via)
  BY <1>2, <1>3, KeptFits DEF Fit, Earned
<1>10. Spent("tools", c.pending, Len(d.calls), c.iterations, c.limit) < Weight(c)
  BY <1>2, <1>5, <1>11, <1>12, GoesOn
<1>13. Moved(d)
  BY <1>3, <1>6, <1>8, <1>9, <1>10, MovedIntro DEF c
<1> QED BY <1>7, <1>13

\* GenerateText decides and charges the budget.
LEMMA GenerateTextMoves ==
    ASSUME Nested, GenerateText
    PROVE  \E d : stack' = SetTop(d) /\ Moved(d)
<1> DEFINE c == Top
<1>1. stack # <<>> /\ c.at = "generate"
  BY DEF GenerateText, At
<1>2. c \in ContextType /\ WellFormed(c) /\ Len(stack) \in Nat
  BY <1>1, TopFacts
<1>3. c.state = "EXECUTING" /\ c.iterations >= 1
  BY <1>1, <1>2 DEF WellFormed, Fit
<1>4. PICK finish \in {"stop", "length", "error", "context_overflow", "interrupted"},
           full \in BOOLEAN :
         \E d \in Charged(NoToolDecision(c, finish, full), FALSE) : stack' = SetTop(d)
  BY DEF GenerateText
<1>5. PICK d \in Charged(NoToolDecision(c, finish, full), FALSE) : stack' = SetTop(d)
  BY <1>4
<1> DEFINE e == NoToolDecision(c, finish, full)
<1> HIDE DEF c
<1>6. PICK tier, s, v :
         /\ Fields(e, tier, c.ancestors, c.limit, c.at, s, c.iterations, c.pending, v)
         /\ tier = c.tier \/ ~(Depth > 0)
         /\ Earned(tier, s, v)
  BY <1>2, <1>3, DecisionFields
<1>7. d \in Charged(e, FALSE)
  BY <1>5
<1> HIDE DEF e
<1>8. e \in ContextType
  BY <1>6 DEF Fields
<1>9. PICK state, via :
         /\ Fields(d, e.tier, e.ancestors, e.limit, "dispatch", state, e.iterations,
                   e.pending, via)
         /\ \/ state = e.state /\ via = e.via
            \/ state = "COMPLETE" /\ via = "budget"
  BY <1>7, <1>8, ChargedFields
<1>10. Fields(d, tier, c.ancestors, c.limit, "dispatch", state, c.iterations, c.pending,
              via)
  BY <1>6, <1>9 DEF Fields
<1>11. Earned(tier, state, via)
  <2>1. e.state = s /\ e.via = v
    BY <1>6 DEF Fields
  <2> QED BY <1>6, <1>9, <2>1 DEF Earned
<1>12. Fit("dispatch", state, c.iterations, c.limit) /\ Queued("dispatch", c.pending)
  BY <1>2, <1>3, KeptFits DEF Fit
<1>13. Len(stack) > 1 => tier = c.tier
  BY <1>2, <1>6 DEF Depth
<1>14. c.state \notin Terminal
  BY <1>3, StateNames
<1>15. Spent("dispatch", c.pending, Len(d.calls), c.iterations, c.limit) < Weight(c)
  BY <1>1, <1>2, GoesOn
<1>16. Moved(d)
  BY <1>10, <1>11, <1>12, <1>13, <1>14, <1>15, MovedIntro DEF c
<1> QED BY <1>5, <1>16

\* A call of the batch at work: what the loop holds until the batch ends.
LEMMA BatchFits ==
    ASSUME Nested, At("tools"), Top.calls # <<>>, ~StopBatch(Top)
    PROVE  /\ stack # <<>> /\ Top \in ContextType /\ WellFormed(Top) /\ Top.at = "tools"
           /\ Top.state = "WAITING_TOOL" /\ Top.state \notin Terminal
           /\ Top.iterations >= 1 /\ Top.iterations <= Top.limit
           /\ Head(Top.calls) \in Tools /\ Tail(Top.calls) \in Seq(Tools)
           /\ Len(Tail(Top.calls)) \in Nat /\ Len(Tail(Top.calls)) < Len(Top.calls)
           /\ Top.duplicates + 1 \in 0 .. MaxDuplicates
<1>1. stack # <<>> /\ Top.at = "tools"
  BY DEF At
<1>2. Top \in ContextType /\ WellFormed(Top)
  BY <1>1, TopFacts
<1>3. Top.state = "WAITING_TOOL" /\ Top.iterations >= 1 /\ Top.iterations <= Top.limit
  BY <1>1, <1>2 DEF WellFormed, Fit, StopBatch
<1>4. Top.calls \in Seq(Tools) /\ Top.duplicates \in 0 .. MaxDuplicates
  BY <1>2, ContextFields
<1>5. Head(Top.calls) \in Tools /\ Tail(Top.calls) \in Seq(Tools)
  BY <1>4, HeadTailProperties
<1>6. Top.duplicates + 1 \in 0 .. MaxDuplicates
  BY <1>4 DEF StopBatch
<1>7. Len(Tail(Top.calls)) \in Nat /\ Len(Tail(Top.calls)) < Len(Top.calls)
  <2>1. Len(Top.calls) \in Nat /\ Len(Tail(Top.calls)) \in Nat
    BY <1>4, <1>5, LenProperties
  <2>2. Len(Tail(Top.calls)) = Len(Top.calls) - 1
    BY <1>4, HeadTailProperties
  <2> QED BY <2>1, <2>2
<1> QED BY <1>1, <1>2, <1>3, <1>5, <1>6, <1>7, StateNames

\* A context still in the batch has Moved.
LEMMA BatchMoves ==
    ASSUME Nested, At("tools"), Top.calls # <<>>, ~StopBatch(Top), NEW d, NEW p,
           NEW state, NEW via,
           Fields(d, Top.tier, Top.ancestors, Top.limit, Top.at, state, Top.iterations, p,
                  via),
           Queued("tools", p), d.calls = Tail(Top.calls),
           \/ state = Top.state
           \/ state = "COMPLETE" /\ via = "complete"
    PROVE  Moved(d)
<1> DEFINE c == Top
<1>1. /\ c \in ContextType /\ WellFormed(c) /\ c.at = "tools" /\ c.state = "WAITING_TOOL"
      /\ c.state \notin Terminal /\ c.iterations >= 1 /\ c.iterations <= c.limit
  BY BatchFits
<1> HIDE DEF c
<1>2. Fields(d, c.tier, c.ancestors, c.limit, "tools", state, c.iterations, p, via)
  BY <1>1 DEF c
<1>3. state = c.state \/ (state = "COMPLETE" /\ via = "complete")
  BY DEF c
<1>4. Fit("tools", state, c.iterations, c.limit) /\ Earned(c.tier, state, via)
  BY <1>1, <1>3 DEF Fit, Earned
<1>5. Len(d.calls) \in Nat /\ Len(d.calls) < Len(c.calls)
  BY BatchFits DEF c
<1>6. Spent("tools", p, Len(d.calls), c.iterations, c.limit) < Weight(c)
  BY <1>1, <1>5, GoesOn
<1> QED BY <1>1, <1>2, <1>4, <1>6, MovedIntro DEF c

\* DenyCall drops the call.
LEMMA DenyCallMoves ==
    ASSUME Nested, DenyCall
    PROVE  \E d : stack' = SetTop(d) /\ Moved(d)
<1> DEFINE c == Top
           rest == Tail(c.calls)
           d == [c EXCEPT !.calls = rest]
<1>1. /\ At("tools") /\ Top.calls # <<>> /\ ~StopBatch(Top) /\ stack' = SetTop(d)
  BY DEF DenyCall
<1>2. c \in ContextType /\ WellFormed(c) /\ rest \in Seq(Tools)
  BY <1>1, BatchFits
<1> HIDE DEF c, rest
<1>3. Fields(d, c.tier, c.ancestors, c.limit, c.at, c.state, c.iterations, c.pending, c.via)
  BY <1>2 DEF Fields, ContextType
<1>6. d.calls = rest
  BY <1>2 DEF ContextType
<1> HIDE DEF d
<1>4. Queued("tools", c.pending)
  BY <1>2, KeptFits
<1>5. Moved(d)
  BY <1>1, <1>3, <1>4, <1>6, BatchMoves DEF c, rest
<1> QED BY <1>1, <1>5

\* The bookkeeping of an executed call leaves the loop where it is.
LEMMA SucceededFields ==
    ASSUME NEW c \in ContextType, NEW t \in Tools
    PROVE  /\ Fields(Executed(c, t), c.tier, c.ancestors, c.limit, c.at, c.state,
                     c.iterations, c.pending, c.via)
           /\ Fields(Succeeded(c, t), c.tier, c.ancestors, c.limit, c.at, c.state,
                     c.iterations, c.pending, c.via)
           /\ Executed(c, t).calls = c.calls /\ Succeeded(c, t).calls = c.calls
<1> DEFINE n == Projected(c, t)
           e == [c EXCEPT !.duplicates = 0, !.lastTool = t, !.sameTool = n]
<1>1. n \in Nat
  BY ContextFields DEF Projected
<1> HIDE DEF n
<1>2. Fields(e, c.tier, c.ancestors, c.limit, c.at, c.state, c.iterations, c.pending, c.via)
  <2>1. 0 \in 0 .. MaxDuplicates /\ t \in Tools \cup {"none"}
    OBVIOUS
  <2>2. e \in ContextType
    BY <1>1, <2>1 DEF ContextType
  <2>3. /\ e.tier = c.tier /\ e.ancestors = c.ancestors /\ e.limit = c.limit
        /\ e.at = c.at /\ e.state = c.state /\ e.iterations = c.iterations
        /\ e.pending = c.pending /\ e.via = c.via
    BY DEF ContextType
  <2> QED BY <2>2, <2>3 DEF Fields
<1>3. Executed(c, t) = e
  BY DEF Executed, n
<1>8. e.calls = c.calls
  BY DEF ContextType
<1> HIDE DEF e
<1> DEFINE s == IF MayRepeat(t) THEN e.seen ELSE e.seen \cup {t}
           f == [e EXCEPT !.progress = TRUE, !.seen = s]
<1>4. s \in SUBSET Tools
  BY <1>2 DEF Fields, ContextType
<1>5. Succeeded(c, t) = f
  BY <1>3 DEF Succeeded
<1> HIDE DEF s
<1>6. Fields(f, e.tier, e.ancestors, e.limit, e.at, e.state, e.iterations, e.pending, e.via)
  BY <1>2, <1>4 DEF Fields, ContextType
<1>9. f.calls = e.calls
  BY <1>2 DEF Fields, ContextType
<1> HIDE DEF f
<1>7. Fields(f, c.tier, c.ancestors, c.limit, c.at, c.state, c.iterations, c.pending, c.via)
  BY <1>2, <1>6 DEF Fields
<1> QED BY <1>2, <1>3, <1>5, <1>7, <1>8, <1>9

\* A call queues a delegation that names what it is to run.
LEMMA PendingFits ==
    ASSUME NEW t \in Tools, NEW p \in Pendings(t)
    PROVE  /\ p \in [kind : {"none", "delegate", "resume", "pipeline"},
                     target : Tiers \cup {NoTier}, of : Tiers \cup {NoTier},
                     turns : Nat, stages : Seq(Tiers)]
           /\ Queued("tools", p)
           /\ p.kind # "none"
<1>1. Turns \subseteq Nat /\ MaxStages \in Nat
  BY LoopAssumption
<1>2. CASE t = "delegate"
  <2>1. p \in [kind : {"delegate"}, target : Tiers, of : {NoTier}, turns : Turns,
               stages : {<<>>}]
    BY <1>2 DEF Pendings
  <2>2. /\ p = [kind |-> p.kind, target |-> p.target, of |-> p.of, turns |-> p.turns,
                stages |-> p.stages]
        /\ p.kind = "delegate" /\ p.target \in Tiers /\ p.of = NoTier
        /\ p.turns \in Nat /\ p.stages = <<>>
    BY <1>1, <2>1
  <2>3. <<>> \in Seq(Tiers)
    BY EmptySeq
  <2>4. p \in [kind : {"none", "delegate", "resume", "pipeline"},
               target : Tiers \cup {NoTier}, of : Tiers \cup {NoTier},
               turns : Nat, stages : Seq(Tiers)]
    BY <2>2, <2>3
  <2> QED BY <1>2, <2>2, <2>4 DEF Queued
<1>3. CASE t = "resume"
  <2>1. p \in [kind : {"resume"}, target : Tiers \cup {NoTier}, of : Tiers,
               turns : Turns, stages : {<<>>}]
    BY <1>3 DEF Pendings
  <2>2. /\ p = [kind |-> p.kind, target |-> p.target, of |-> p.of, turns |-> p.turns,
                stages |-> p.stages]
        /\ p.kind = "resume" /\ p.target \in Tiers \cup {NoTier} /\ p.of \in Tiers
        /\ p.turns \in Nat /\ p.stages = <<>>
    BY <1>1, <2>1
  <2>3. <<>> \in Seq(Tiers)
    BY EmptySeq
  <2>4. p \in [kind : {"none", "delegate", "resume", "pipeline"},
               target : Tiers \cup {NoTier}, of : Tiers \cup {NoTier},
               turns : Nat, stages : Seq(Tiers)]
    BY <2>2, <2>3
  <2> QED BY <1>3, <2>2, <2>4 DEF Queued
<1>4. CASE t = "pipeline"
  <2>1. p \in [kind : {"pipeline"}, target : {NoTier}, of : {NoTier}, turns : {0},
               stages : UNION {[1..n -> Tiers] : n \in 2..MaxStages}]
    BY <1>4 DEF Pendings
  <2>2. PICK n \in 2 .. MaxStages : p.stages \in [1 .. n -> Tiers]
    BY <2>1
  <2>3. n \in Nat
    BY <1>1
  <2>4. p.stages \in Seq(Tiers)
    BY <2>2, <2>3, SeqDef
  <2>5. /\ p = [kind |-> p.kind, target |-> p.target, of |-> p.of, turns |-> p.turns,
                stages |-> p.stages]
        /\ p.kind = "pipeline" /\ p.target = NoTier /\ p.of = NoTier /\ p.turns = 0
    BY <2>1
  <2>6. p \in [kind : {"none", "delegate", "resume", "pipeline"},
               target : Tiers \cup {NoTier}, of : Tiers \cup {NoTier},
               turns : Nat, stages : Seq(Tiers)]
    BY <2>4, <2>5
  <2> QED BY <2>5, <2>6 DEF Queued
<1>5. CASE t \notin {"delegate", "resume", "pipeline"}
  BY <1>5 DEF Pendings
<1> QED BY <1>2, <1>3, <1>4, <1>5

\* RunCall leaves the loop in the batch or completes it.
LEMMA RunCallMoves ==
    ASSUME Nested, RunCall
    PROVE  \E d : stack' = SetTop(d) /\ Moved(d)
<1> DEFINE c == Top
           t == Head(c.calls)
           rest == Tail(c.calls)
           e == [c EXCEPT !.calls = rest]
           n == e.duplicates + 1
<1>1. At("tools") /\ Top.calls # <<>> /\ ~StopBatch(Top)
  BY DEF RunCall
<1>2. /\ c \in ContextType /\ WellFormed(c) /\ rest \in Seq(Tools) /\ t \in Tools
      /\ c.duplicates + 1 \in 0 .. MaxDuplicates
  BY <1>1, BatchFits
<1>3. \/ stack' = SetTop([e EXCEPT !.duplicates = n])
      \/ stack' = SetTop([e EXCEPT !.duplicates = 0])
      \/ stack' = SetTop(Executed(e, t))
      \/ stack' = SetTop(Succeeded(e, t))
      \/ \E gap \in BOOLEAN :
            stack' = SetTop([Complete(Succeeded(e, t), "complete") EXCEPT !.gap = gap])
      \/ \E p \in Pendings(t) : stack' = SetTop([Succeeded(e, t) EXCEPT !.pending = p])
  BY DEF RunCall
<1> HIDE DEF c, t, rest
<1>4. Fields(e, c.tier, c.ancestors, c.limit, c.at, c.state, c.iterations, c.pending, c.via)
  BY <1>2 DEF Fields, ContextType
<1>5. n \in 0 .. MaxDuplicates
  <2>1. e.duplicates = c.duplicates
    BY <1>2 DEF ContextType
  <2> QED BY <1>2, <2>1
<1>21. e.calls = rest
  BY <1>2 DEF ContextType
<1> HIDE DEF e, n
<1>6. e \in ContextType
  BY <1>4 DEF Fields
<1>7. ASSUME NEW d, Fields(d, e.tier, e.ancestors, e.limit, e.at, e.state, e.iterations,
                           e.pending, e.via), d.calls = e.calls
      PROVE  Moved(d)
  <2>1. Fields(d, c.tier, c.ancestors, c.limit, c.at, c.state, c.iterations, c.pending,
               c.via)
    BY <1>4, <1>7 DEF Fields
  <2>2. Queued("tools", c.pending)
    BY <1>2, KeptFits
  <2> QED BY <1>1, <1>7, <1>21, <2>1, <2>2, BatchMoves DEF c, rest
<1>8. ASSUME NEW m \in 0 .. MaxDuplicates
      PROVE  Moved([e EXCEPT !.duplicates = m])
  <2>1. Fields([e EXCEPT !.duplicates = m], e.tier, e.ancestors, e.limit, e.at, e.state,
               e.iterations, e.pending, e.via)
    BY <1>6 DEF Fields, ContextType
  <2>2. [e EXCEPT !.duplicates = m].calls = e.calls
    BY <1>6 DEF ContextType
  <2> QED BY <1>7, <2>1, <2>2
<1>9. Moved(Executed(e, t)) /\ Moved(Succeeded(e, t))
  BY <1>2, <1>6, <1>7, SucceededFields
<1> DEFINE s == Succeeded(e, t)
<1>10. Fields(s, e.tier, e.ancestors, e.limit, e.at, e.state, e.iterations, e.pending, e.via)
  BY <1>2, <1>6, SucceededFields
<1>22. s.calls = rest
  BY <1>2, <1>6, <1>21, SucceededFields
<1> HIDE DEF s
<1>11. Fields(s, c.tier, c.ancestors, c.limit, c.at, c.state, c.iterations, c.pending, c.via)
  BY <1>4, <1>10 DEF Fields
<1>12. s \in ContextType
  BY <1>11 DEF Fields
<1>13. ASSUME NEW gap \in BOOLEAN
       PROVE  Moved([Complete(s, "complete") EXCEPT !.gap = gap])
  <2> DEFINE g == Complete(s, "complete")
             d == [g EXCEPT !.gap = gap]
  <2>1. Fields(g, s.tier, s.ancestors, s.limit, s.at, "COMPLETE", s.iterations, s.pending,
               "complete")
    BY <1>12, CompleteFields
  <2>6. g.calls = s.calls
    BY <1>12 DEF Complete, ContextType
  <2> HIDE DEF g
  <2>2. Fields(d, g.tier, g.ancestors, g.limit, g.at, g.state, g.iterations, g.pending,
               g.via)
    BY <2>1 DEF Fields, ContextType
  <2>7. d.calls = g.calls
    BY <2>1 DEF Fields, ContextType
  <2> HIDE DEF d
  <2>3. Fields(d, c.tier, c.ancestors, c.limit, c.at, "COMPLETE", c.iterations, c.pending,
               "complete")
    BY <1>11, <2>1, <2>2 DEF Fields
  <2>4. Queued("tools", c.pending)
    BY <1>2, KeptFits
  <2>5. Moved(d)
    BY <1>1, <1>22, <2>3, <2>4, <2>6, <2>7, BatchMoves DEF c, rest
  <2> QED BY <2>5 DEF d, g
<1>14. ASSUME NEW p \in Pendings(t)
       PROVE  Moved([s EXCEPT !.pending = p])
  <2> DEFINE d == [s EXCEPT !.pending = p]
  <2>1. Queued("tools", p) /\ p \in [kind : {"none", "delegate", "resume", "pipeline"},
                     target : Tiers \cup {NoTier}, of : Tiers \cup {NoTier},
                     turns : Nat, stages : Seq(Tiers)]
    BY <1>2, PendingFits
  <2>2. Fields(d, s.tier, s.ancestors, s.limit, s.at, s.state, s.iterations, p, s.via)
    BY <1>12, <2>1 DEF Fields, ContextType
  <2>5. d.calls = s.calls
    BY <1>12 DEF ContextType
  <2> HIDE DEF d
  <2>3. Fields(d, c.tier, c.ancestors, c.limit, c.at, c.state, c.iterations, p, c.via)
    BY <1>11, <2>2 DEF Fields
  <2>4. Moved(d)
    BY <1>1, <1>22, <2>1, <2>3, <2>5, BatchMoves DEF c, rest
  <2> QED BY <2>4 DEF d
<1>15. 0 \in 0 .. MaxDuplicates
  OBVIOUS
<1>16. CASE stack' = SetTop([e EXCEPT !.duplicates = n])
  BY <1>5, <1>8, <1>16
<1>17. CASE stack' = SetTop([e EXCEPT !.duplicates = 0])
  BY <1>8, <1>15, <1>17
<1>18. CASE stack' = SetTop(Executed(e, t)) \/ stack' = SetTop(Succeeded(e, t))
  BY <1>9, <1>18
<1>19. CASE \E gap \in BOOLEAN :
              stack' = SetTop([Complete(Succeeded(e, t), "complete") EXCEPT !.gap = gap])
  <2>1. PICK gap \in BOOLEAN :
           stack' = SetTop([Complete(s, "complete") EXCEPT !.gap = gap])
    BY <1>19 DEF s
  <2> QED BY <1>13, <2>1
<1>20. CASE \E p \in Pendings(t) : stack' = SetTop([Succeeded(e, t) EXCEPT !.pending = p])
  <2>1. PICK p \in Pendings(t) : stack' = SetTop([s EXCEPT !.pending = p])
    BY <1>20 DEF s
  <2> QED BY <1>14, <2>1
<1> QED BY <1>3, <1>16, <1>17, <1>18, <1>19, <1>20

\* FinishTools goes on to the dispatch.
LEMMA FinishToolsMoves ==
    ASSUME Nested, FinishTools
    PROVE  \E d : stack' = SetTop(d) /\ Moved(d)
<1> DEFINE c == Top
           s == StateAfterTools(c)
           m == IF c.progress THEN 0 ELSE c.emptyTurns
           e == [c EXCEPT !.calls = <<>>, !.progress = FALSE, !.state = s,
                          !.emptyTurns = m]
<1>1. /\ stack # <<>> /\ c.at = "tools"
      /\ \E d \in Charged(e, c.progress) : stack' = SetTop(d)
  BY DEF FinishTools, At
<1>2. c \in ContextType /\ WellFormed(c)
  BY <1>1, TopFacts
<1>3. /\ c.state \in {"WAITING_TOOL", "COMPLETE"} /\ c.iterations >= 1
      /\ \/ s = "EXECUTING" /\ c.state \notin Terminal
         \/ s = "COMPLETE" /\ s = c.state
  <2>1. c.state \in {"WAITING_TOOL", "COMPLETE"} /\ c.iterations >= 1
    BY <1>1, <1>2 DEF WellFormed, Fit
  <2> QED BY <2>1 DEF StateAfterTools, Terminal
<1>4. s \in States
  BY <1>3, StateNames
<1>5. m \in 0 .. MaxEmptyTurns /\ c.progress \in BOOLEAN
  <2>1. c.emptyTurns \in 0 .. MaxEmptyTurns /\ c.progress \in BOOLEAN
    BY <1>2 DEF ContextType
  <2>2. MaxEmptyTurns \in Nat
    BY LoopAssumption
  <2> QED BY <2>1, <2>2
<1> HIDE DEF c, s, m
<1>6. Fields(e, c.tier, c.ancestors, c.limit, c.at, s, c.iterations, c.pending, c.via)
  <2>1. <<>> \in Seq(Tools)
    BY EmptySeq
  <2>2. e \in ContextType
    BY <1>2, <1>4, <1>5, <2>1 DEF ContextType
  <2>3. /\ e.tier = c.tier /\ e.ancestors = c.ancestors /\ e.limit = c.limit
        /\ e.at = c.at /\ e.state = s /\ e.iterations = c.iterations
        /\ e.pending = c.pending /\ e.via = c.via
    BY <1>2 DEF ContextType
  <2> QED BY <2>2, <2>3 DEF Fields
<1> HIDE DEF e
<1>7. e \in ContextType
  BY <1>6 DEF Fields
<1>8. PICK d \in Charged(e, c.progress) : stack' = SetTop(d)
  BY <1>1
<1>9. PICK state, via :
         /\ Fields(d, e.tier, e.ancestors, e.limit, "dispatch", state, e.iterations,
                   e.pending, via)
         /\ \/ state = e.state /\ via = e.via
            \/ state = "COMPLETE" /\ via = "budget"
  BY <1>5, <1>7, <1>8, ChargedFields
<1>10. Fields(d, c.tier, c.ancestors, c.limit, "dispatch", state, c.iterations, c.pending,
              via)
  BY <1>6, <1>9 DEF Fields
<1>11. \/ state = s /\ via = c.via
       \/ state = "COMPLETE" /\ via = "budget"
  BY <1>6, <1>9 DEF Fields
<1>12. /\ Fit("dispatch", state, c.iterations, c.limit) /\ Queued("dispatch", c.pending)
       /\ Earned(c.tier, c.state, c.via)
  BY <1>2, <1>3, KeptFits DEF Fit
<1>13. Earned(c.tier, state, via)
  BY <1>3, <1>11, <1>12 DEF Earned
<1>14. c.state \in Terminal => (state = c.state \/ via = "budget")
  BY <1>3, <1>11
<1>15. Spent("dispatch", c.pending, Len(d.calls), c.iterations, c.limit) < Weight(c)
  BY <1>1, <1>2, GoesOn
<1>16. Moved(d)
  BY <1>10, <1>12, <1>13, <1>14, <1>15, MovedIntro DEF c
<1> QED BY <1>8, <1>16

\* Halt keeps what was counted; only a running loop is interrupted.
LEMMA HaltMoves ==
    ASSUME Nested, Halt
    PROVE  \E d : stack' = SetTop(d) /\ Moved(d)
<1> DEFINE c == Top
           s == IF interrupted /\ c.state \notin Terminal THEN "INTERRUPTED" ELSE c.state
           n == IF interrupted \/ c.state \in Terminal
                THEN c.iterations ELSE IterationsAfter(c)
           d == [c EXCEPT !.at = "top", !.state = s, !.iterations = n]
<1>1. /\ stack # <<>> /\ c.at = "dispatch" /\ stack' = SetTop(d)
      /\ interrupted \/ c.state \in Terminal \/ c.pending.kind = "none"
  BY DEF Halt, At
<1>2. c \in ContextType /\ WellFormed(c)
  BY <1>1, TopFacts
<1>3. n = c.iterations
  BY <1>1 DEF IterationsAfter
<1>4. s \in States /\ (s = c.state \/ (s = "INTERRUPTED" /\ c.state \notin Terminal))
  BY <1>2, ContextFields, StateNames
<1>5. n \in 0 .. MaxIterations
  BY <1>2, <1>3, ContextFields
<1> HIDE DEF c, s, n
<1>6. Fields(d, c.tier, c.ancestors, c.limit, "top", s, n, c.pending, c.via)
  <2>1. d \in ContextType
    BY <1>2, <1>4, <1>5 DEF ContextType
  <2>2. /\ d.tier = c.tier /\ d.ancestors = c.ancestors /\ d.limit = c.limit
        /\ d.at = "top" /\ d.state = s /\ d.iterations = n /\ d.pending = c.pending
        /\ d.via = c.via
    BY <1>2 DEF ContextType
  <2> QED BY <2>1, <2>2 DEF Fields
<1> HIDE DEF d
<1>7. /\ Fit("top", s, n, c.limit) /\ Queued("top", c.pending)
      /\ Earned(c.tier, c.state, c.via)
  BY <1>2, <1>3, KeptFits DEF Fit
<1>8. Earned(c.tier, s, c.via)
  BY <1>4, <1>7 DEF Earned
<1>9. Spent("top", c.pending, Len(d.calls), n, c.limit) < Weight(c)
  BY <1>1, <1>2, <1>3, GoesOn
<1>10. Moved(d)
  BY <1>4, <1>6, <1>7, <1>8, <1>9, MovedIntro DEF c
<1> QED BY <1>1, <1>10

\* A dispatching iteration has one to give back.
LEMMA DispatchFits ==
    ASSUME Nested, Dispatching
    PROVE  /\ stack # <<>> /\ Top \in ContextType /\ WellFormed(Top)
           /\ Top.state \notin Terminal /\ Top.pending.kind # "none"
           /\ IterationsAfter(Top) = Top.iterations - 1
           /\ IterationsAfter(Top) \in 0 .. MaxIterations
           /\ IterationsAfter(Top) <= Top.limit
<1>1. /\ stack # <<>> /\ Top.at = "dispatch" /\ Top.state \notin Terminal
      /\ Top.pending.kind # "none"
  BY DEF Dispatching, At
<1>2. Top \in ContextType /\ WellFormed(Top)
  BY <1>1, TopFacts
<1>3. Top.iterations >= 1 /\ Top.iterations <= Top.limit
  BY <1>1, <1>2 DEF WellFormed, Fit
<1>4. Top.limit \in Nat /\ Top.iterations \in 0 .. MaxIterations /\ MaxIterations \in Nat
  BY <1>2, ContextFields, LoopAssumption
<1>5. IterationsAfter(Top) = Top.iterations - 1
  BY <1>1 DEF IterationsAfter
<1> QED BY <1>1, <1>2, <1>3, <1>4, <1>5

\* RejectPending goes back to the loop.
LEMMA RejectPendingMoves ==
    ASSUME Nested, RejectPending
    PROVE  \E d : stack' = SetTop(d) /\ Moved(d)
<1> DEFINE c == Top
           n == IterationsAfter(c)
           b == BackToLoop(c)
           d == [b EXCEPT !.iterations = n]
<1>1. stack' = SetTop(d) /\ Dispatching
  BY DEF RejectPending
<1>2. /\ c \in ContextType /\ WellFormed(c) /\ c.state \notin Terminal
      /\ n \in 0 .. MaxIterations /\ n <= c.limit
  BY <1>1, DispatchFits
<1>3. Fields(b, c.tier, c.ancestors, c.limit, "top", c.state, c.iterations, NoPending,
             c.via)
  BY <1>2, BackFields
<1> HIDE DEF b, n, c
<1>4. Fields(d, b.tier, b.ancestors, b.limit, b.at, b.state, n, b.pending, b.via)
  <2>1. b \in ContextType
    BY <1>3 DEF Fields
  <2> QED BY <1>2, <2>1 DEF Fields, ContextType
<1> HIDE DEF d
<1>5. Fields(d, c.tier, c.ancestors, c.limit, "top", c.state, n, NoPending, c.via)
  BY <1>3, <1>4 DEF Fields
<1>6. /\ Fit("top", c.state, n, c.limit) /\ Queued("top", NoPending)
      /\ Earned(c.tier, c.state, c.via)
  BY <1>2, KeptFits DEF Fit
<1>7. Moved(d)
  BY <1>2, <1>5, <1>6, MovedIntro DEF c, Dispatch
<1> QED BY <1>1, <1>7

\* AcceptPending passes the guards of depth and cycle.
LEMMA AcceptPendingMoves ==
    ASSUME Nested, AcceptPending
    PROVE  \E d : stack' = SetTop(d) /\ Moved(d)
<1> DEFINE c == Top
           n == IterationsAfter(c)
           at == IF c.pending.kind = "pipeline" THEN "pipeline" ELSE "delegate"
           d == [c EXCEPT !.iterations = n, !.state = "DELEGATING", !.at = at]
<1>1. stack' = SetTop(d) /\ Dispatching /\ ~Guarded(c)
  BY DEF AcceptPending
<1>2. /\ c \in ContextType /\ WellFormed(c) /\ c.state \notin Terminal
      /\ n \in 0 .. MaxIterations /\ n <= c.limit /\ c.pending.kind # "none"
  BY <1>1, DispatchFits
<1>3. /\ Len(stack) <= MaxDepth
      /\ at = "delegate" => ~DelegationCycle(Top, Top.pending.target)
  <2>1. Len(stack) \in Nat
    BY <1>1, DispatchFits, TopFacts
  <2> QED BY <1>1, <2>1 DEF Guarded, Depth
<1>4. "DELEGATING" \in States
  BY StateNames
<1>5. c.pending.kind \in {"none", "delegate", "resume", "pipeline"}
  BY <1>2, ContextFields
<1>6. Queued(at, c.pending)
  BY <1>2, <1>5 DEF WellFormed, Queued
<1>7. at \in {"delegate", "pipeline"}
  OBVIOUS
<1> HIDE DEF c, n, at
<1>8. Fields(d, c.tier, c.ancestors, c.limit, at, "DELEGATING", n, c.pending, c.via)
  <2>1. d \in ContextType
    BY <1>2, <1>4, <1>7 DEF ContextType
  <2>2. /\ d.tier = c.tier /\ d.ancestors = c.ancestors /\ d.limit = c.limit
        /\ d.at = at /\ d.state = "DELEGATING" /\ d.iterations = n
        /\ d.pending = c.pending /\ d.via = c.via
    BY <1>2 DEF ContextType
  <2> QED BY <2>1, <2>2 DEF Fields
<1> HIDE DEF d
<1>9. Fit(at, "DELEGATING", n, c.limit) /\ Earned(c.tier, "DELEGATING", c.via)
  BY <1>2, <1>7 DEF Fit, Earned
<1>10. at # "child" /\ at # "generate"
  BY <1>7
<1>11. Moved(d)
  BY <1>2, <1>3, <1>6, <1>8, <1>9, <1>10, MovedIntro DEF c, Dispatch
<1> QED BY <1>1, <1>11

\* A loop that waits to delegate is DELEGATING.
LEMMA WaitingFits ==
    ASSUME Nested, At("delegate") \/ At("pipeline")
    PROVE  /\ stack # <<>> /\ Top \in ContextType /\ WellFormed(Top)
           /\ Top.state = "DELEGATING" /\ Top.state \notin Terminal
           /\ Top.iterations <= Top.limit /\ Len(stack) <= MaxDepth
<1>1. stack # <<>> /\ Top.at \in {"delegate", "pipeline"}
  BY DEF At
<1>2. Top \in ContextType /\ WellFormed(Top) /\ Len(stack) <= MaxDepth
  BY <1>1, TopFacts
<1> QED BY <1>1, <1>2, StateNames DEF WellFormed, Fit

\* BlockDelegation and RefuseStage go back to the loop.
LEMMA BlockMoves ==
    ASSUME Nested, BlockDelegation \/ RefuseStage
    PROVE  \E d : stack' = SetTop(d) /\ Moved(d)
<1> DEFINE c == Top
           d == EndPipeline(c)
<1>1. stack' = SetTop(d) /\ (At("delegate") \/ At("pipeline"))
  BY DEF BlockDelegation, RefuseStage, EndPipeline
<1>2. /\ c \in ContextType /\ WellFormed(c) /\ c.state \notin Terminal
      /\ c.iterations <= c.limit
  BY <1>1, WaitingFits
<1>3. Fields(d, c.tier, c.ancestors, c.limit, "top", "EXECUTING", c.iterations, NoPending,
             c.via)
  BY <1>2, PipelineFields
<1> HIDE DEF c, d
<1>4. /\ Fit("top", "EXECUTING", c.iterations, c.limit) /\ Queued("top", NoPending)
      /\ Earned(c.tier, "EXECUTING", c.via)
  BY <1>2, KeptFits DEF Fit, Earned
<1>5. Spent("top", NoPending, Len(d.calls), c.iterations, c.limit) < Weight(c)
  BY <1>1, <1>2, GoesOn DEF At, c
<1>6. Moved(d)
  BY <1>2, <1>3, <1>4, <1>5, MovedIntro DEF c
<1> QED BY <1>1, <1>6

\* RefuseDelegation is a failed result.
LEMMA RefuseMoves ==
    ASSUME Nested, RefuseDelegation
    PROVE  \E d : stack' = SetTop(d) /\ Moved(d)
<1> DEFINE c == Top
           d == DelegationResult(c, FALSE, FALSE, FALSE)
<1>1. stack' = SetTop(d) /\ (At("delegate") \/ At("pipeline"))
  BY DEF RefuseDelegation
<1>2. /\ c \in ContextType /\ WellFormed(c) /\ c.state \notin Terminal
      /\ c.iterations <= c.limit
  BY <1>1, WaitingFits
<1>3. PICK state, via :
         /\ Fields(d, c.tier, c.ancestors, c.limit, "top", state, c.iterations, NoPending,
                   via)
         /\ Earned(c.tier, state, via)
  BY <1>2, ResultFields
<1> HIDE DEF c, d
<1>4. Fit("top", state, c.iterations, c.limit) /\ Queued("top", NoPending)
  BY <1>2, KeptFits DEF Fit
<1>5. Spent("top", NoPending, Len(d.calls), c.iterations, c.limit) < Weight(c)
  BY <1>1, <1>2, GoesOn DEF At, c
<1>6. Moved(d)
  BY <1>2, <1>3, <1>4, <1>5, MovedIntro DEF c
<1> QED BY <1>1, <1>6

\* The actions that replace the topmost context only.
Local ==
    \/ EndLoop \/ StopInterrupted \/ StartIteration
    \/ GenerateToolCalls \/ GenerateText
    \/ DenyCall \/ RunCall \/ FinishTools
    \/ Halt \/ Dispatch
    \/ BlockDelegation \/ RefuseDelegation \/ RefuseStage

\* Each of them replaces it by a context that has Moved.
LEMMA LocalStep ==
    ASSUME Nested, Local
    PROVE  /\ stack # <<>>
           /\ \E d : stack' = SetTop(d) /\ Moved(d)
           /\ interrupted' = interrupted /\ asked' = asked
<1>1. stack # <<>>
  BY DEF Local, EndLoop, StopInterrupted, StartIteration, GenerateToolCalls, GenerateText,
         DenyCall, RunCall, FinishTools, Halt, Dispatch, RejectPending, AcceptPending,
         BlockDelegation, RefuseDelegation, RefuseStage, Dispatching, At
<1>2. interrupted' = interrupted /\ asked' = asked
  BY DEF Local, EndLoop, StopInterrupted, StartIteration, GenerateToolCalls, GenerateText,
         DenyCall, RunCall, FinishTools, Halt, Dispatch, RejectPending, AcceptPending,
         BlockDelegation, RefuseDelegation, RefuseStage
<1>3. \E d : stack' = SetTop(d) /\ Moved(d)
  BY EndLoopMoves, StopInterruptedMoves, StartIterationMoves, GenerateToolCallsMoves,
     GenerateTextMoves, DenyCallMoves, RunCallMoves, FinishToolsMoves, HaltMoves,
     RejectPendingMoves, AcceptPendingMoves, BlockMoves, RefuseMoves
     DEF Local, Dispatch
<1> QED BY <1>1, <1>2, <1>3

(***************************************************************************)
(* What a step does to the stack.                                          *)
(***************************************************************************)
\* The topmost context is replaced by d.
Replaces(d) ==
    /\ stack # <<>> /\ Moved(d)
    /\ stack' \in Seq(ContextType) /\ Len(stack') = Len(stack)
    /\ stack'[Len(stack)] = d
    /\ \A i \in 1 .. Len(stack) : i # Len(stack) => stack'[i] = stack[i]

\* The topmost context becomes p and waits for the new loop d.
Grows(p, d) ==
    /\ stack # <<>> /\ Len(stack) <= MaxDepth
    /\ stack' \in Seq(ContextType) /\ Len(stack') = Len(stack) + 1
    /\ stack'[Len(stack)] = p /\ stack'[Len(stack) + 1] = d
    /\ \A i \in 1 .. Len(stack) : i # Len(stack) => stack'[i] = stack[i]
    /\ WellFormed(p) /\ p.at = "child" /\ p.state = Top.state /\ p.tier = Top.tier
    /\ p.ancestors = Top.ancestors
    /\ WellFormed(d) /\ d.at = "top" /\ Top.ancestors \subseteq d.ancestors
    /\ Weight(p) + Weight(d) < Weight(Top)
    /\ p.pending.kind # "resume" =>
          /\ d.ancestors = Top.ancestors \cup {Top.tier}
          /\ p.pending.kind # "pipeline" => Top.at = "delegate" /\ d.tier = Top.pending.target

\* The topmost loop returns to its parent, which becomes c.
Shrinks(c) ==
    /\ Len(stack) >= 2
    /\ stack' \in Seq(ContextType) /\ Len(stack') = Len(stack) - 1
    /\ stack'[Len(stack) - 1] = c
    /\ \A i \in 1 .. Len(stack) : i < Len(stack) - 1 => stack'[i] = stack[i]
    /\ WellFormed(c) /\ c.at \in {"top", "pipeline"}
    /\ stack[Len(stack) - 1].state \notin Terminal
    /\ c.tier = stack[Len(stack) - 1].tier /\ c.ancestors = stack[Len(stack) - 1].ancestors
    /\ Weight(c) < Weight(stack[Len(stack) - 1]) + Weight(Top)

\* A context given by its fields.
LEMMA WellFormedIntro ==
    ASSUME NEW d, NEW tier, NEW anc, NEW limit, NEW at, NEW state, NEW n, NEW p, NEW via,
           Fields(d, tier, anc, limit, at, state, n, p, via),
           Fit(at, state, n, limit), Queued(at, p), Earned(tier, state, via)
    PROVE  /\ d \in ContextType /\ WellFormed(d) /\ d.tier = tier /\ d.ancestors = anc
           /\ d.at = at /\ d.state = state /\ d.pending = p
BY DEF Fields, WellFormed

\* A child's limit is within the operator's.
LEMMA LimitFits ==
    ASSUME NEW turns
    PROVE  Limit(turns) \in 1 .. MaxIterations /\ MaxIterations \in 1 .. MaxIterations
BY LoopAssumption DEF Limit

\* A new loop is well formed.
LEMMA NewFits ==
    ASSUME NEW tier \in Tiers, NEW anc \in SUBSET Tiers, NEW limit \in 1 .. MaxIterations
    PROVE  /\ NewContext(tier, anc, limit) \in ContextType
           /\ WellFormed(NewContext(tier, anc, limit))
           /\ NewContext(tier, anc, limit).tier = tier
           /\ NewContext(tier, anc, limit).ancestors = anc
           /\ NewContext(tier, anc, limit).at = "top"
           /\ Weight(NewContext(tier, anc, limit)) \in Nat
           /\ Weight(NewContext(tier, anc, limit)) <= Whole
<1> DEFINE d == NewContext(tier, anc, limit)
<1>1. Fields(d, tier, anc, limit, "top", "PLANNING", 0, NoPending, "none")
  BY NewFields
<1>2. 0 <= limit
  BY LoopAssumption
<1>3. Fit("top", "PLANNING", 0, limit) /\ Queued("top", NoPending)
      /\ Earned(tier, "PLANNING", "none")
  BY <1>2, NothingPending DEF Fit, Queued, Earned
<1> HIDE DEF d
<1>4. d \in ContextType /\ WellFormed(d) /\ d.tier = tier /\ d.ancestors = anc /\ d.at = "top"
  BY <1>1, <1>3, WellFormedIntro
<1>5. Weight(d) = 2 + Round * limit
  <2>1. d.at = "top" /\ d.limit = limit /\ d.iterations = 0
    BY <1>1 DEF Fields
  <2>2. limit - 0 = limit
    BY LoopAssumption
  <2> QED BY <2>1, <2>2, Works DEF Weight, Spent
<1>6. Round * limit \in Nat /\ Round * limit <= Round * MaxIterations
      /\ Round * MaxIterations \in Nat
  <2> DEFINE m == MaxIterations - limit
  <2>1. Round \in Nat /\ limit \in Nat /\ m \in Nat /\ MaxIterations = limit + m
    BY Costs
  <2> HIDE DEF m
  <2>2. Round * (limit + m) = Round * limit + Round * m
    BY <2>1
  <2>3. Round * m \in Nat /\ Round * limit \in Nat
    BY <2>1
  <2> QED BY <2>1, <2>2, <2>3
<1>7. Weight(d) \in Nat /\ Weight(d) <= Whole
  BY <1>5, <1>6 DEF Whole
<1> QED BY <1>4, <1>7 DEF d

\* The parent of a new loop.
LEMMA ParentFields ==
    ASSUME NEW c \in ContextType, WellFormed(c), c.at \in {"delegate", "pipeline"},
           c.at = "pipeline" => c.pending.stages # <<>>,
           NEW p, p = [c EXCEPT !.at = "child", !.pending.target = RunTarget(c.pending)]
    PROVE  /\ p \in ContextType /\ WellFormed(p) /\ p.at = "child" /\ p.state = c.state
           /\ p.tier = c.tier /\ p.ancestors = c.ancestors
           /\ p.pending.kind = c.pending.kind
           /\ Weight(p) \in Nat /\ Weight(p) + Whole < Weight(c)
<1> DEFINE PendingType == [kind : {"none", "delegate", "resume", "pipeline"},
                           target : Tiers \cup {NoTier}, of : Tiers \cup {NoTier},
                           turns : Nat, stages : Seq(Tiers)]
           t == RunTarget(c.pending)
           q == [c.pending EXCEPT !.target = t]
<1>1. c.pending \in PendingType
  BY ContextFields
<1>2. t \in Tiers \cup {NoTier} /\ (c.pending.kind = "delegate" => t = c.pending.target)
  BY <1>1 DEF RunTarget
<1>3. /\ q \in PendingType /\ q.kind = c.pending.kind /\ q.of = c.pending.of
      /\ q.target = t /\ q.stages = c.pending.stages
  <2> HIDE DEF t
  <2> QED BY <1>1, <1>2
<1>4. p = [c EXCEPT !.at = "child", !.pending = q]
  BY DEF ContextType
<1>5. Queued("child", q)
  <2>1. Queued(c.at, c.pending)
    BY DEF WellFormed
  <2> HIDE DEF q, t
  <2> QED BY <1>2, <1>3, <2>1 DEF Queued
<1> HIDE DEF q
<1>6. Fields(p, c.tier, c.ancestors, c.limit, "child", c.state, c.iterations, q, c.via)
  <2>1. p \in ContextType
    BY <1>3, <1>4 DEF ContextType
  <2>2. /\ p.tier = c.tier /\ p.ancestors = c.ancestors /\ p.limit = c.limit
        /\ p.at = "child" /\ p.state = c.state /\ p.iterations = c.iterations
        /\ p.pending = q /\ p.via = c.via
    BY <1>4 DEF ContextType
  <2> QED BY <2>1, <2>2 DEF Fields
<1>7. Fit("child", c.state, c.iterations, c.limit) /\ Earned(c.tier, c.state, c.via)
  BY DEF WellFormed, Fit
<1>8. /\ p \in ContextType /\ WellFormed(p) /\ p.at = "child" /\ p.state = c.state
      /\ p.tier = c.tier /\ p.ancestors = c.ancestors /\ p.pending = q
  BY <1>5, <1>6, <1>7, SMT DEF Fields, WellFormed
<1>9. q.kind = c.pending.kind
  BY <1>3
<1>10. Weight(p) \in Nat
  BY <1>8, WeightNatural
<1>11. Weight(p) + Whole < Weight(c)
  <2> DEFINE m == Children(c.pending)
             left == Round * (c.limit - c.iterations)
  <2>1. Children(p.pending) = m
    BY <1>3, <1>8 DEF Children
  <2>2. p.limit = c.limit /\ p.iterations = c.iterations
    BY <1>6 DEF Fields
  <2>3. Weight(p) = (Whole + 2) * (m - 1) + 4 + left
    BY <1>8, <2>1, <2>2, Works DEF Weight, Spent
  <2>4. Weight(c) = (Whole + 2) * m + 3 + left
    BY Works DEF Weight, Spent
  <2>5. m \in Nat /\ left \in Int /\ Whole \in Nat
    BY ChildCount, Iterations, Costs
  <2> HIDE DEF m, left
  <2> DEFINE x == (Whole + 2) * m
  <2>6. x \in Int /\ (Whole + 2) * (m - 1) = x - (Whole + 2)
    BY <2>5
  <2>7. Weight(c) = x + 3 + left
    BY <2>4
  <2> HIDE DEF x
  <2> QED BY <2>3, <2>5, <2>6, <2>7
<1> QED BY <1>8, <1>9, <1>10, <1>11

\* Push puts a well-formed loop on the stack.
LEMMA PushGrows ==
    ASSUME Nested, stack # <<>>, Top.at \in {"delegate", "pipeline"},
           Top.at = "pipeline" => Top.pending.stages # <<>>,
           NEW d \in ContextType, WellFormed(d), d.at = "top", Push(d),
           Weight(d) \in Nat, Weight(d) <= Whole, Top.ancestors \subseteq d.ancestors,
           Top.pending.kind # "resume" =>
              /\ d.ancestors = Top.ancestors \cup {Top.tier}
              /\ Top.at = "delegate" => d.tier = Top.pending.target
    PROVE  \E p : Grows(p, d)
<1> DEFINE c == Top
           p == [c EXCEPT !.at = "child", !.pending.target = RunTarget(c.pending)]
<1>1. c \in ContextType /\ WellFormed(c) /\ Len(stack) <= MaxDepth
  BY TopFacts
<1>2. /\ p \in ContextType /\ WellFormed(p) /\ p.at = "child" /\ p.state = c.state
      /\ p.tier = c.tier /\ p.ancestors = c.ancestors /\ p.pending.kind = c.pending.kind
      /\ Weight(p) \in Nat /\ Weight(p) + Whole < Weight(c)
  <2> HIDE DEF c
  <2>1. c.at \in {"delegate", "pipeline"} /\ (c.at = "pipeline" => c.pending.stages # <<>>)
    BY DEF c
  <2> QED BY <1>1, <2>1, ParentFields
<1>3. stack' = Append(SetTop(p), d)
  BY DEF Push
<1>4. c.at = "pipeline" => c.pending.kind = "pipeline"
  BY <1>1 DEF WellFormed, Queued
<1> HIDE DEF p
<1>5. /\ Len(stack) \in Nat /\ Len(stack) >= 1
      /\ SetTop(p) \in Seq(ContextType) /\ Len(SetTop(p)) = Len(stack)
      /\ SetTop(p)[Len(stack)] = p
      /\ \A i \in 1 .. Len(stack) : i # Len(stack) => SetTop(p)[i] = stack[i]
  <2>1. stack \in Seq(ContextType)
    BY DEF Nested
  <2> QED BY <1>2, <2>1, SetTopFacts
<1> DEFINE s == SetTop(p)
<1> HIDE DEF s
<1>6. /\ Append(s, d) \in Seq(ContextType) /\ Len(Append(s, d)) = Len(s) + 1
      /\ \A i \in 1 .. Len(s) : Append(s, d)[i] = s[i]
      /\ Append(s, d)[Len(s) + 1] = d
  <2>1. s \in Seq(ContextType)
    BY <1>5 DEF s
  <2> QED BY <2>1, AppendProperties
<1>7. /\ stack' \in Seq(ContextType) /\ Len(stack') = Len(stack) + 1
      /\ stack'[Len(stack)] = p /\ stack'[Len(stack) + 1] = d
      /\ \A i \in 1 .. Len(stack) : i # Len(stack) => stack'[i] = stack[i]
  BY <1>3, <1>5, <1>6 DEF s
<1>8. Weight(p) + Weight(d) < Weight(c)
  <2>1. Weight(c) \in Nat /\ Whole \in Nat
    BY <1>1, WeightNatural, Costs
  <2> HIDE DEF c
  <2> QED BY <1>2, <2>1
<1>9. Grows(p, d)
  BY <1>1, <1>2, <1>4, <1>7, <1>8 DEF Grows
<1> QED BY <1>9

\* StartChild and StartStage.
LEMMA GrowStep ==
    ASSUME Nested, StartChild \/ StartStage
    PROVE  /\ \E p, d : Grows(p, d)
           /\ interrupted' = interrupted /\ asked' = asked /\ late' = late
<1>0. interrupted' = interrupted /\ asked' = asked /\ late' = late
  BY DEF StartChild, StartStage, Push, InterruptAtChildStart
<1> DEFINE c == Top
<1>1. stack # <<>> /\ (At("delegate") \/ At("pipeline"))
  BY DEF StartChild, StartStage, At
<1>2. c \in ContextType /\ WellFormed(c)
  BY <1>1, TopFacts
<1>3. /\ c.tier \in Tiers /\ c.ancestors \in SUBSET Tiers
      /\ c.pending.kind \in {"none", "delegate", "resume", "pipeline"}
      /\ c.pending.stages \in Seq(Tiers)
  BY <1>2, ContextFields
<1>4. ChildAncestors(c) \in SUBSET Tiers /\ ChildAncestors(c) = c.ancestors \cup {c.tier}
  BY <1>3 DEF ChildAncestors
<1>5. CASE StartChild
  <2>1. c.at = "delegate"
    BY <1>5 DEF StartChild, At
  <2>2. c.pending.kind \in {"delegate", "resume"} /\ RunTarget(c.pending) \in Tiers
        /\ (c.pending.kind = "resume" => c.pending.of \in Tiers /\ "resume" \in Tools)
    BY <1>2, <2>1 DEF WellFormed, Queued, RunTarget
  <2>3. ResumedAncestors(c) \in SUBSET Tiers \/ c.pending.kind # "resume"
    BY <1>3, <2>2 DEF ResumedAncestors
  <2>4. PICK anc \in SUBSET Tiers :
           /\ Push(NewContext(RunTarget(c.pending), anc, Limit(c.pending.turns)))
           /\ anc = ChildAncestors(c) \/ c.pending.kind = "resume"
           /\ c.ancestors \subseteq anc
    BY <1>4, <1>5, <2>2, <2>3 DEF StartChild, ResumedAncestors
  <2> DEFINE d == NewContext(RunTarget(c.pending), anc, Limit(c.pending.turns))
  <2>5. /\ d \in ContextType /\ WellFormed(d) /\ d.tier = RunTarget(c.pending)
        /\ d.ancestors = anc /\ d.at = "top" /\ Weight(d) \in Nat /\ Weight(d) <= Whole
    BY <2>2, LimitFits, NewFits
  <2>6. Push(d)
    BY <2>4
  <2> HIDE DEF d
  <2>7. c.pending.kind # "resume" =>
           d.ancestors = c.ancestors \cup {c.tier} /\ d.tier = c.pending.target
    BY <1>4, <2>2, <2>4, <2>5 DEF RunTarget
  <2>8. \E p : Grows(p, d)
    BY <1>1, <2>1, <2>4, <2>5, <2>6, <2>7, PushGrows
  <2> QED BY <1>0, <2>8
<1>6. CASE StartStage
  <2>1. c.at = "pipeline" /\ c.pending.stages # <<>>
    BY <1>6 DEF StartStage, At
  <2> DEFINE d == NewContext(Head(c.pending.stages), ChildAncestors(c), MaxIterations)
  <2>2. Head(c.pending.stages) \in Tiers
    BY <1>3, <2>1, HeadTailProperties
  <2>3. d \in ContextType /\ WellFormed(d) /\ d.ancestors = ChildAncestors(c) /\ d.at = "top"
        /\ Weight(d) \in Nat /\ Weight(d) <= Whole
    BY <1>4, <2>2, LimitFits, NewFits
  <2>4. Push(d)
    BY <1>6 DEF StartStage
  <2> HIDE DEF d
  <2>5. \E p : Grows(p, d)
    BY <1>1, <1>4, <2>1, <2>3, <2>4, PushGrows
  <2> QED BY <1>0, <2>5
<1> QED BY <1>5, <1>6

\* A loop above another: its parent waits for it.
LEMMA ParentFacts ==
    ASSUME Nested, At("end"), Depth > 0
    PROVE  /\ stack # <<>> /\ Top \in ContextType /\ Len(stack) \in Nat /\ Len(stack) >= 2
           /\ stack[Len(stack) - 1] \in ContextType /\ WellFormed(stack[Len(stack) - 1])
           /\ stack[Len(stack) - 1].at = "child"
           /\ stack[Len(stack) - 1].state \notin Terminal
           /\ stack[Len(stack) - 1].iterations <= stack[Len(stack) - 1].limit
<1>1. stack # <<>>
  BY DEF At
<1>2. Top \in ContextType /\ Len(stack) \in Nat
  BY <1>1, TopFacts
<1>3. Len(stack) >= 2 /\ Len(stack) - 1 \in 1 .. Len(stack) /\ Len(stack) - 1 < Len(stack)
  BY <1>2 DEF Depth
<1>4. stack[Len(stack) - 1] \in ContextType
  BY <1>3, ElementOfSeq DEF Nested
<1>5. WellFormed(stack[Len(stack) - 1]) /\ stack[Len(stack) - 1].at = "child"
  BY <1>3 DEF Nested
<1>6. /\ stack[Len(stack) - 1].state = "DELEGATING"
      /\ stack[Len(stack) - 1].iterations <= stack[Len(stack) - 1].limit
  BY <1>5 DEF WellFormed, Fit
<1> QED BY <1>1, <1>2, <1>3, <1>4, <1>5, <1>6, StateNames

\* PopTo puts the parent back on top.
LEMMA PopShrinks ==
    ASSUME Nested, At("end"), Depth > 0, NEW c \in ContextType, PopTo(c), WellFormed(c),
           c.at \in {"top", "pipeline"},
           c.tier = stack[Len(stack) - 1].tier,
           c.ancestors = stack[Len(stack) - 1].ancestors,
           Weight(c) < Weight(stack[Len(stack) - 1])
    PROVE  Shrinks(c)
<1> DEFINE n == Len(stack) - 2
           s == SubSeq(stack, 1, n)
<1>1. /\ Len(stack) \in Nat /\ Len(stack) >= 2
      /\ stack[Len(stack) - 1].state \notin Terminal
  BY ParentFacts
<1>2. n \in Nat /\ n + 1 = Len(stack) - 1
  BY <1>1
<1>3. stack \in Seq(ContextType)
  BY DEF Nested
<1>4. \A i \in 1 .. n : i \in 1 .. Len(stack) /\ stack[i] \in ContextType
  <2>1. \A i \in 1 .. n : i \in 1 .. Len(stack)
    BY <1>1
  <2> QED BY <1>3, <2>1, ElementOfSeq
<1>5. stack' = Append(s, c)
  BY DEF PopTo
<1>6. s \in Seq(ContextType) /\ Len(s) = n /\ \A i \in 1 .. n : s[i] = stack[i]
  <2> HIDE DEF n
  <2>1. 1 \in Int /\ n \in Int
    BY <1>2
  <2>2. /\ SubSeq(stack, 1, n) \in Seq(ContextType)
        /\ Len(SubSeq(stack, 1, n)) = IF 1 <= n THEN n - 1 + 1 ELSE 0
        /\ \A i \in 1 .. n - 1 + 1 : SubSeq(stack, 1, n)[i] = stack[1 + i - 1]
    BY <1>4, <2>1, SubSeqProperties
  <2>3. Len(SubSeq(stack, 1, n)) = n /\ 1 .. n - 1 + 1 = 1 .. n
    BY <1>2, <2>2
  <2>4. ASSUME NEW i \in 1 .. n PROVE SubSeq(stack, 1, n)[i] = stack[i]
    <3>1. 1 + i - 1 = i
      BY <1>2
    <3> QED BY <2>2, <2>3, <3>1
  <2> QED BY <2>2, <2>3, <2>4
<1> HIDE DEF s
<1>7. /\ Append(s, c) \in Seq(ContextType) /\ Len(Append(s, c)) = Len(s) + 1
      /\ \A i \in 1 .. Len(s) : Append(s, c)[i] = s[i]
      /\ Append(s, c)[Len(s) + 1] = c
  BY <1>6, AppendProperties
<1>8. /\ stack' \in Seq(ContextType) /\ Len(stack') = Len(stack) - 1
      /\ stack'[Len(stack) - 1] = c
  BY <1>2, <1>5, <1>6, <1>7
<1>9. ASSUME NEW i \in 1 .. Len(stack), i < Len(stack) - 1
      PROVE  stack'[i] = stack[i]
  <2>1. i \in 1 .. n
    BY <1>1, <1>9
  <2> QED BY <1>5, <1>6, <1>7, <2>1
<1>10. Weight(c) < Weight(stack[Len(stack) - 1]) + Weight(Top)
  <2>1. Top \in ContextType /\ WellFormed(Top) /\ stack[Len(stack) - 1] \in ContextType
        /\ WellFormed(stack[Len(stack) - 1])
    BY TopFacts, ParentFacts
  <2>2. /\ Weight(c) \in Nat /\ Weight(Top) \in Nat
        /\ Weight(stack[Len(stack) - 1]) \in Nat
    BY <2>1, WeightNatural
  <2> QED BY <2>2
<1> QED BY <1>1, <1>8, <1>9, <1>10 DEF Shrinks

\* A parent that goes on has less to do than one that waits.
LEMMA Returns ==
    ASSUME NEW c \in ContextType, WellFormed(c), c.at = "child", NEW d,
           d.limit = c.limit, d.iterations = c.iterations,
           \/ d.at = "top"
           \/ d.at = "pipeline" /\ Children(d.pending) = Children(c.pending) - 1
    PROVE  Weight(d) < Weight(c)
<1> DEFINE m == Children(c.pending) - 1
           left == Round * (c.limit - c.iterations)
           x == (Whole + 2) * m
<1>1. m \in Nat /\ left \in Int
  BY ChildCount, Iterations
<1>2. x \in Nat
  <2>1. Whole + 2 \in Nat
    BY Costs
  <2> HIDE DEF m
  <2> QED BY <1>1, <2>1
<1>3. Weight(c) = x + 4 + left
  BY Works DEF Weight, Spent
<1>4. Weight(d) = 2 + left \/ Weight(d) = x + 3 + left
  BY Works DEF Weight, Spent
<1> HIDE DEF x, left
<1> QED BY <1>1, <1>2, <1>3, <1>4

\* ReturnToDelegation and ReturnToPipeline.
LEMMA ShrinkStep ==
    ASSUME Nested, ReturnToDelegation \/ ReturnToPipeline
    PROVE  /\ \E c : Shrinks(c)
           /\ interrupted' = interrupted /\ asked' = asked /\ late' = late
<1>0. interrupted' = interrupted /\ asked' = asked /\ late' = late
  BY DEF ReturnToDelegation, ReturnToPipeline, PopTo
<1> DEFINE c == stack[Len(stack) - 1]
<1>1. At("end") /\ Depth > 0
  BY DEF ReturnToDelegation, ReturnToPipeline
<1>2. /\ Top \in ContextType /\ c \in ContextType /\ WellFormed(c) /\ c.at = "child"
      /\ c.iterations <= c.limit
  BY <1>1, ParentFacts
<1>3. CASE ReturnToDelegation
  <2> DEFINE d == DelegationResult(c, Success(Top), Top.cut, Top.gap)
  <2>1. PopTo(d)
    BY <1>3 DEF ReturnToDelegation
  <2>2. Top.cut \in BOOLEAN /\ Top.gap \in BOOLEAN /\ Success(Top) \in BOOLEAN
    BY <1>2 DEF ContextType, Success
  <2> HIDE DEF c
  <2>3. PICK state, via :
           /\ Fields(d, c.tier, c.ancestors, c.limit, "top", state, c.iterations,
                     NoPending, via)
           /\ Earned(c.tier, state, via)
    BY <1>2, <2>2, ResultFields
  <2> HIDE DEF d
  <2>4. Fit("top", state, c.iterations, c.limit) /\ Queued("top", NoPending)
    BY <1>2, KeptFits DEF Fit
  <2>5. /\ d \in ContextType /\ WellFormed(d) /\ d.tier = c.tier
        /\ d.ancestors = c.ancestors /\ d.at = "top"
    BY <2>3, <2>4, WellFormedIntro
  <2>7. Weight(d) < Weight(c)
    BY <1>2, <2>3, Returns DEF Fields
  <2>6. Shrinks(d)
    BY <1>1, <2>1, <2>5, <2>7, PopShrinks DEF c
  <2> QED BY <1>0, <2>6
<1>4. CASE ReturnToPipeline
  <2> DEFINE rest == Tail(c.pending.stages)
             d1 == [c EXCEPT !.at = "pipeline", !.pending.stages = rest]
             d2 == EndPipeline(c)
  <2>1. (PopTo(d1) \/ PopTo(d2)) /\ c.pending.kind = "pipeline"
    BY <1>4 DEF ReturnToPipeline
  <2> HIDE DEF c
  <2>2. c.pending.stages # <<>>
    BY <1>2, <2>1 DEF WellFormed, Queued
  <2>3. c.pending \in [kind : {"none", "delegate", "resume", "pipeline"},
                       target : Tiers \cup {NoTier}, of : Tiers \cup {NoTier},
                       turns : Nat, stages : Seq(Tiers)]
    BY <1>2, ContextFields
  <2>4. rest \in Seq(Tiers) /\ Len(rest) = Len(c.pending.stages) - 1
    BY <2>2, <2>3, HeadTailProperties
  <2> HIDE DEF rest
  <2> DEFINE q == [c.pending EXCEPT !.stages = rest]
  <2>5. /\ q \in [kind : {"none", "delegate", "resume", "pipeline"},
                  target : Tiers \cup {NoTier}, of : Tiers \cup {NoTier},
                  turns : Nat, stages : Seq(Tiers)]
        /\ q.kind = "pipeline" /\ q.stages = rest
    BY <2>1, <2>3, <2>4
  <2>6. d1 = [c EXCEPT !.at = "pipeline", !.pending = q]
    BY <1>2 DEF ContextType
  <2> HIDE DEF q, d1
  <2>7. Fields(d1, c.tier, c.ancestors, c.limit, "pipeline", c.state, c.iterations, q, c.via)
    <3>1. d1 \in ContextType
      BY <1>2, <2>5, <2>6 DEF ContextType
    <3>2. /\ d1.tier = c.tier /\ d1.ancestors = c.ancestors /\ d1.limit = c.limit
          /\ d1.at = "pipeline" /\ d1.state = c.state /\ d1.iterations = c.iterations
          /\ d1.pending = q /\ d1.via = c.via
      BY <1>2, <2>6 DEF ContextType
    <3> QED BY <3>1, <3>2 DEF Fields
  <2>8. /\ Fit("pipeline", c.state, c.iterations, c.limit) /\ Earned(c.tier, c.state, c.via)
        /\ Queued("pipeline", q)
    BY <1>2, <2>5 DEF WellFormed, Fit, Queued
  <2>9. /\ d1 \in ContextType /\ WellFormed(d1) /\ d1.tier = c.tier
        /\ d1.ancestors = c.ancestors /\ d1.at = "pipeline"
    BY <2>7, <2>8, WellFormedIntro
  <2>15. Weight(d1) < Weight(c)
    <3>1. Children(d1.pending) = Children(c.pending) - 1
      BY <2>1, <2>4, <2>5, <2>7 DEF Fields, Children
    <3> QED BY <1>2, <2>7, <3>1, Returns DEF Fields
  <2>10. Fields(d2, c.tier, c.ancestors, c.limit, "top", "EXECUTING", c.iterations,
                NoPending, c.via)
    BY <1>2, PipelineFields
  <2> HIDE DEF d2
  <2>11. /\ Fit("top", "EXECUTING", c.iterations, c.limit) /\ Queued("top", NoPending)
         /\ Earned(c.tier, "EXECUTING", c.via)
    BY <1>2, KeptFits DEF Fit, Earned
  <2>12. /\ d2 \in ContextType /\ WellFormed(d2) /\ d2.tier = c.tier
         /\ d2.ancestors = c.ancestors /\ d2.at = "top"
    BY <2>10, <2>11, WellFormedIntro
  <2>16. Weight(d2) < Weight(c)
    BY <1>2, <2>10, Returns DEF Fields
  <2>13. CASE PopTo(d1)
    <3>1. Shrinks(d1)
      BY <1>1, <2>9, <2>13, <2>15, PopShrinks DEF c
    <3> QED BY <1>0, <3>1
  <2>14. CASE PopTo(d2)
    <3>1. Shrinks(d2)
      BY <1>1, <2>12, <2>14, <2>16, PopShrinks DEF c
    <3> QED BY <1>0, <3>1
  <2> QED BY <2>1, <2>13, <2>14
<1> QED BY <1>3, <1>4

\* What any step does to the stack.
LEMMA StackStep ==
    ASSUME Nested, [Next]_vars
    PROVE  \/ \E d : Replaces(d)
           \/ \E p, d : Grows(p, d)
           \/ \E c : Shrinks(c)
           \/ stack' = <<>>
           \/ \E tier \in Roots : stack = <<>> /\ stack' = <<NewContext(tier, {}, MaxIterations)>>
           \/ stack' = stack
<1>1. CASE Local
  <2>1. PICK d : stack' = SetTop(d) /\ Moved(d)
    BY <1>1, LocalStep
  <2>2. stack # <<>> /\ stack \in Seq(ContextType) /\ d \in ContextType
    BY <1>1, <2>1, LocalStep DEF Nested, Moved
  <2>3. Replaces(d)
    BY <2>1, <2>2, SetTopFacts DEF Replaces
  <2> QED BY <2>3
<1>2. CASE StartChild \/ StartStage
  BY <1>2, GrowStep
<1>3. CASE ReturnToDelegation \/ ReturnToPipeline
  BY <1>3, ShrinkStep
<1>4. CASE ReturnFromRun
  BY <1>4 DEF ReturnFromRun
<1>5. CASE Interrupt \/ UNCHANGED vars
  BY <1>5 DEF Interrupt
<1>6. CASE \E tier \in Roots : BeginRun(tier)
  BY <1>6 DEF BeginRun
<1> QED BY <1>1, <1>2, <1>3, <1>4, <1>5, <1>6 DEF Next, Step, Local

(***************************************************************************)
(* Type correctness and the invariants of the stack.                       *)
(***************************************************************************)
\* A stack of one new loop.
LEMMA RunBegins ==
    ASSUME NEW tier \in Roots, stack' = <<NewContext(tier, {}, MaxIterations)>>
    PROVE  /\ stack' \in Seq(ContextType) /\ Len(stack') = 1
           /\ WellFormed(stack'[1]) /\ stack'[1].at = "top"
<1> DEFINE d == NewContext(tier, {}, MaxIterations)
<1>1. tier \in Tiers
  BY LoopAssumption
<1>2. d \in ContextType /\ WellFormed(d) /\ d.at = "top"
  BY <1>1, LimitFits, NewFits
<1> HIDE DEF d
<1>3. stack' = <<d>>
  BY DEF d
<1> QED BY <1>2, <1>3

\* Every step keeps the stack nested.
LEMMA NestedStep == Nested /\ [Next]_vars => Nested'
<1> SUFFICES ASSUME Nested, [Next]_vars
             PROVE  Nested'
  OBVIOUS
<1>0. stack \in Seq(ContextType) /\ Len(stack) \in Nat /\ Len(stack) <= MaxDepth + 1
  BY LenProperties DEF Nested
<1>1. ASSUME NEW d, Replaces(d)
      PROVE  Nested'
  <2>1. stack' \in Seq(ContextType) /\ Len(stack') = Len(stack)
    BY <1>1 DEF Replaces
  <2>2. ASSUME NEW i \in 1 .. Len(stack')
        PROVE  /\ WellFormed(stack'[i])
               /\ stack'[i].at = "child" <=> i < Len(stack')
               /\ stack'[i].at \in {"delegate", "pipeline"} => i <= MaxDepth
    <3>1. CASE i = Len(stack)
      <4>1. stack'[i] = d /\ ~(i < Len(stack'))
        BY <1>0, <1>1, <2>1, <3>1 DEF Replaces
      <4> QED BY <1>1, <3>1, <4>1 DEF Replaces, Moved
    <3>2. CASE i # Len(stack)
      <4>1. stack'[i] = stack[i]
        BY <1>1, <2>1, <3>2 DEF Replaces
      <4> QED BY <2>1, <4>1 DEF Nested
    <3> QED BY <3>1, <3>2
  <2> QED BY <1>0, <2>1, <2>2 DEF Nested
<1>2. ASSUME NEW p, NEW d, Grows(p, d)
      PROVE  Nested'
  <2>1. /\ stack' \in Seq(ContextType) /\ Len(stack') = Len(stack) + 1
        /\ Len(stack) <= MaxDepth
    BY <1>2 DEF Grows
  <2>2. ASSUME NEW i \in 1 .. Len(stack')
        PROVE  /\ WellFormed(stack'[i])
               /\ stack'[i].at = "child" <=> i < Len(stack')
               /\ stack'[i].at \in {"delegate", "pipeline"} => i <= MaxDepth
    <3>1. CASE i = Len(stack) + 1
      <4>1. stack'[i] = d /\ ~(i < Len(stack'))
        BY <1>0, <1>2, <2>1, <3>1 DEF Grows
      <4> QED BY <1>2, <4>1 DEF Grows
    <3>2. CASE i = Len(stack)
      <4>1. stack'[i] = p /\ i < Len(stack')
        BY <1>0, <1>2, <2>1, <3>2 DEF Grows
      <4> QED BY <1>2, <4>1 DEF Grows
    <3>3. CASE i # Len(stack) /\ i # Len(stack) + 1
      <4>1. i \in 1 .. Len(stack) /\ i < Len(stack) /\ i < Len(stack')
        BY <1>0, <2>1, <3>3
      <4>2. stack'[i] = stack[i]
        BY <1>2, <3>3, <4>1 DEF Grows
      <4> QED BY <4>1, <4>2 DEF Nested
    <3> QED BY <3>1, <3>2, <3>3
  <2>3. Len(stack') <= MaxDepth + 1
    BY <1>0, <2>1
  <2> QED BY <2>1, <2>2, <2>3 DEF Nested
<1>3. ASSUME NEW c, Shrinks(c)
      PROVE  Nested'
  <2>1. /\ stack' \in Seq(ContextType) /\ Len(stack') = Len(stack) - 1
        /\ Len(stack) >= 2
    BY <1>3 DEF Shrinks
  <2>2. ASSUME NEW i \in 1 .. Len(stack')
        PROVE  /\ WellFormed(stack'[i])
               /\ stack'[i].at = "child" <=> i < Len(stack')
               /\ stack'[i].at \in {"delegate", "pipeline"} => i <= MaxDepth
    <3>1. CASE i = Len(stack) - 1
      <4>1. stack'[i] = c /\ ~(i < Len(stack')) /\ i <= MaxDepth
        BY <1>0, <1>3, <2>1, <3>1 DEF Shrinks
      <4> QED BY <1>3, <4>1 DEF Shrinks
    <3>2. CASE i # Len(stack) - 1
      <4>1. i \in 1 .. Len(stack) /\ i < Len(stack) - 1 /\ i < Len(stack) /\ i < Len(stack')
        BY <1>0, <2>1, <3>2
      <4>2. stack'[i] = stack[i]
        BY <1>3, <4>1 DEF Shrinks
      <4> QED BY <4>1, <4>2 DEF Nested
    <3> QED BY <3>1, <3>2
  <2>3. Len(stack') <= MaxDepth + 1
    BY <1>0, <2>1
  <2> QED BY <2>1, <2>2, <2>3 DEF Nested
<1>4. CASE stack' = <<>>
  <2>1. stack' \in Seq(ContextType) /\ Len(stack') = 0
    BY <1>4, EmptySeq
  <2>2. 1 .. Len(stack') = {}
    BY <2>1
  <2> QED BY <2>1, <2>2 DEF Nested
<1>5. ASSUME NEW tier \in Roots, stack' = <<NewContext(tier, {}, MaxIterations)>>
      PROVE  Nested'
  <2>1. /\ stack' \in Seq(ContextType) /\ Len(stack') = 1
        /\ WellFormed(stack'[1]) /\ stack'[1].at = "top"
    BY <1>5, RunBegins
  <2>2. \A i \in 1 .. Len(stack') : i = 1 /\ ~(i < Len(stack'))
    BY <2>1
  <2> QED BY <2>1, <2>2 DEF Nested
<1>6. CASE stack' = stack
  BY <1>6 DEF Nested
<1> QED BY <1>1, <1>2, <1>3, <1>4, <1>5, <1>6, StackStep

\* Nested is an invariant.
LEMMA NestedAlways == Spec => []Nested
<1>1. Init => Nested
  <2> SUFFICES ASSUME Init PROVE Nested
    OBVIOUS
  <2>1. stack \in Seq(ContextType) /\ Len(stack) = 0 /\ 1 .. Len(stack) = {}
    BY EmptySeq DEF Init
  <2> QED BY <2>1 DEF Nested
<1> QED BY <1>1, NestedStep, PTL DEF Spec

\* No loop whose tier requires explicit completion completes by merely answering in
\* text or through a delegate's success, whatever the tiers' flags and however
\* the loops are nested (evaluate_no_tool_decision, finalize_delegation_result).
THEOREM CompletionIsExplicit == Spec => []ExplicitlyCompleted
<1>1. Nested => ExplicitlyCompleted
  <2>1. ASSUME Nested PROVE DOMAIN stack = 1 .. Len(stack)
    BY <2>1, LenProperties DEF Nested
  <2> QED BY <2>1 DEF Nested, WellFormed, Earned, ExplicitlyCompleted
<1> QED BY <1>1, NestedAlways, PTL

(***************************************************************************)
(* The interrupt.                                                          *)
(***************************************************************************)
\* Once asked, the run sees the interrupt; a generation that ends after that is
\* the only one, because no loop of the stack starts another.
Stopping ==
    /\ interrupted \in BOOLEAN /\ asked \in BOOLEAN /\ late \in 0 .. LateBound
    /\ asked => interrupted
    /\ ~asked => late = 0
    /\ late = LateBound => ~At("generate")

\* A generation that ends is the only local step that counts one.
LEMMA LocalCounts ==
    ASSUME Local
    PROVE  late' = late \/ (At("generate") /\ LateGeneration)
BY DEF Local, EndLoop, StopInterrupted, StartIteration, GenerateToolCalls, GenerateText,
       DenyCall, RunCall, FinishTools, Halt, Dispatch, RejectPending, AcceptPending,
       BlockDelegation, RefuseDelegation, RefuseStage

\* Every step keeps the interrupt's invariant.
LEMMA StoppingStep == Nested /\ Stopping /\ [Next]_vars => Stopping'
<1> SUFFICES ASSUME Nested, Stopping, [Next]_vars
             PROVE  Stopping'
  OBVIOUS
<1>0. /\ interrupted \in BOOLEAN /\ asked \in BOOLEAN /\ late \in 0 .. LateBound
      /\ asked => interrupted
      /\ ~asked => late = 0
      /\ late = LateBound => ~At("generate")
  BY DEF Stopping
<1>1. CASE Local
  <2>1. /\ stack # <<>> /\ stack \in Seq(ContextType)
        /\ interrupted' = interrupted /\ asked' = asked
    BY <1>1, LocalStep DEF Nested
  <2>2. PICK d : stack' = SetTop(d) /\ Moved(d)
    BY <1>1, LocalStep
  <2>3. d \in ContextType /\ (d.at = "generate" => ~interrupted)
    BY <2>2 DEF Moved
  <2>4. stack'[Len(stack')] = d
    BY <2>1, <2>2, <2>3, SetTopFacts
  <2>5. (At("generate"))' => ~interrupted
    BY <2>3, <2>4 DEF At, Top
  <2>6. late' = late \/ (At("generate") /\ LateGeneration)
    BY <1>1, LocalCounts
  <2>7. late' \in 0 .. LateBound /\ (~asked => late' = 0)
    BY <1>0, <2>6 DEF LateGeneration
  <2>8. late' = LateBound => asked
    BY <1>0, <2>7
  <2> QED BY <1>0, <2>1, <2>5, <2>7, <2>8 DEF Stopping
<1>2. CASE StartChild \/ StartStage
  <2>1. interrupted' = interrupted /\ asked' = asked /\ late' = late
    BY <1>2, GrowStep
  <2>2. PICK p, d : Grows(p, d)
    BY <1>2, GrowStep
  <2>3. stack'[Len(stack')] = d /\ d.at = "top"
    BY <2>2 DEF Grows
  <2>4. ~(At("generate"))'
    BY <2>3 DEF At, Top
  <2> QED BY <1>0, <2>1, <2>4 DEF Stopping
<1>3. CASE ReturnToDelegation \/ ReturnToPipeline
  <2>1. interrupted' = interrupted /\ asked' = asked /\ late' = late
    BY <1>3, ShrinkStep
  <2>2. PICK c : Shrinks(c)
    BY <1>3, ShrinkStep
  <2>3. stack'[Len(stack')] = c /\ c.at \in {"top", "pipeline"}
    BY <2>2 DEF Shrinks
  <2>4. ~(At("generate"))'
    BY <2>3 DEF At, Top
  <2> QED BY <1>0, <2>1, <2>4 DEF Stopping
<1>4. CASE ReturnFromRun
  <2>1. ~(At("generate"))'
    BY <1>4 DEF ReturnFromRun, At
  <2> QED BY <1>0, <1>4, <2>1 DEF Stopping, ReturnFromRun
<1>5. CASE Interrupt
  BY <1>0, <1>5 DEF Stopping, Interrupt, At, Top
<1>6. CASE \E tier \in Roots : BeginRun(tier)
  <2>1. interrupted' = FALSE /\ asked' = FALSE /\ late' = 0
    BY <1>6 DEF BeginRun
  <2>2. late' \in 0 .. LateBound /\ late' # LateBound
    BY <2>1
  <2>3. interrupted' \in BOOLEAN /\ asked' \in BOOLEAN
    BY <2>1
  <2> QED BY <2>1, <2>2, <2>3 DEF Stopping
<1>7. CASE UNCHANGED vars
  BY <1>0, <1>7 DEF Stopping, At, Top
<1> QED BY <1>1, <1>2, <1>3, <1>4, <1>5, <1>6, <1>7 DEF Next, Step, Local

\* The interrupt's invariant holds always.
LEMMA StoppingAlways == Spec => []Stopping
<1>1. Init => Stopping
  <2> SUFFICES ASSUME Init PROVE Stopping
    OBVIOUS
  <2>1. interrupted = FALSE /\ asked = FALSE /\ late = 0
    BY DEF Init
  <2>2. late \in 0 .. LateBound /\ late # LateBound
    BY <2>1
  <2>3. interrupted \in BOOLEAN /\ asked \in BOOLEAN
    BY <2>1
  <2> QED BY <2>1, <2>2, <2>3 DEF Stopping
<1> QED BY <1>1, NestedAlways, StoppingStep, PTL DEF Spec

\* Once the run is asked to stop only the generation in flight ends, at every depth
\* of delegation and before every stage of a pipeline (execute_iteration,
\* dispatch_pending_or_halt, run_loop with inherit_interrupt).
THEOREM InterruptStopsGenerating == Spec => []LateGenerations
<1>1. Stopping => LateGenerations
  BY DEF Stopping, LateGenerations
<1> QED BY <1>1, StoppingAlways, PTL

\* Type correctness: no loop passes its iteration limit, no refund goes below zero
\* and the stack never holds more than MAX_DELEGATION_DEPTH children.
THEOREM TypeCorrect == Spec => []TypeOK
<1>1. Nested /\ Stopping => TypeOK
  <2> SUFFICES ASSUME Nested, Stopping PROVE TypeOK
    OBVIOUS
  <2>1. stack \in Seq(ContextType) /\ Len(stack) <= MaxDepth + 1
    BY DEF Nested
  <2>2. DOMAIN stack = 1 .. Len(stack)
    BY <2>1, LenProperties
  <2>3. \A i \in DOMAIN stack : stack[i].iterations <= stack[i].limit
    BY <2>2 DEF Nested, WellFormed, Fit
  <2>4. /\ interrupted \in BOOLEAN /\ asked \in BOOLEAN
        /\ late \in 0 .. (LateBound + 1)
    BY DEF Stopping
  <2> QED BY <2>1, <2>3, <2>4 DEF TypeOK
<1> QED BY <1>1, NestedAlways, StoppingAlways, PTL

(***************************************************************************)
(* A verdict stays.                                                        *)
(***************************************************************************)
\* No step takes a loop out of a terminal state or changes the verdict, but for the
\* budget's hard cut: not the end of a batch, not a dispatch, and not the result of
\* a child, whose parent is DELEGATING until it returns.
THEOREM VerdictStays == Spec => TerminalIsFinal
<1>1. ASSUME Nested, [Next]_vars,
             NEW i \in DOMAIN stack \cap DOMAIN stack', stack[i].state \in Terminal
      PROVE  stack'[i].state = stack[i].state \/ stack'[i].via = "budget"
  <2>0. stack \in Seq(ContextType) /\ Len(stack) \in Nat /\ i \in 1 .. Len(stack)
    BY <1>1, LenProperties DEF Nested
  <2>1. ASSUME NEW d, Replaces(d)
        PROVE  stack'[i].state = stack[i].state \/ stack'[i].via = "budget"
    <3>1. CASE i = Len(stack)
      <4>1. stack'[i] = d /\ stack[i] = Top /\ Moved(d)
        BY <2>1, <3>1 DEF Replaces, Top
      <4> QED BY <1>1, <4>1 DEF Moved
    <3>2. CASE i # Len(stack)
      BY <2>0, <2>1, <3>2 DEF Replaces
    <3> QED BY <3>1, <3>2
  <2>2. ASSUME NEW p, NEW d, Grows(p, d)
        PROVE  stack'[i].state = stack[i].state \/ stack'[i].via = "budget"
    BY <2>0, <2>2 DEF Grows, Top
  <2>3. ASSUME NEW c, Shrinks(c)
        PROVE  stack'[i].state = stack[i].state \/ stack'[i].via = "budget"
    <3>1. stack' \in Seq(ContextType) /\ Len(stack') = Len(stack) - 1
      BY <2>3 DEF Shrinks
    <3>2. i \in 1 .. Len(stack')
      BY <1>1, <3>1, LenProperties
    <3>3. CASE i = Len(stack) - 1
      BY <1>1, <2>3, <3>3 DEF Shrinks
    <3>4. CASE i # Len(stack) - 1
      <4>1. i < Len(stack) - 1
        BY <2>0, <3>1, <3>2, <3>4
      <4> QED BY <2>0, <2>3, <4>1 DEF Shrinks
    <3> QED BY <3>3, <3>4
  <2>4. stack' # <<>> /\ stack # <<>>
    <3>1. stack = <<>> => FALSE
      BY <1>1
    <3>2. stack' = <<>> => FALSE
      BY <1>1
    <3> QED BY <3>1, <3>2
  <2> QED BY <1>1, <2>1, <2>2, <2>3, <2>4, StackStep
<1>2. Nested /\ [Next]_vars =>
        [\A i \in DOMAIN stack \cap DOMAIN stack' :
            stack[i].state \in Terminal =>
                stack'[i].state = stack[i].state \/ stack'[i].via = "budget"]_vars
  BY <1>1
<1> QED BY <1>2, NestedAlways, PTL DEF Spec, TerminalIsFinal

(***************************************************************************)
(* A run runs down.                                                        *)
(***************************************************************************)
\* What is left to do in the run, a loop's Weight for each of its loops.
Part(i) == IF i <= Len(stack) THEN Weight(stack[i]) ELSE 0
Rank == Part(1) + Part(2) + Part(3)

\* The measure is a natural number, and zero only between runs.
RankFacts == /\ Part(1) \in Nat /\ Part(2) \in Nat /\ Part(3) \in Nat /\ Rank \in Nat
             /\ Rank = 0 <=> stack = <<>>

\* It follows from the contexts' forms.
LEMMA RankNatural ==
    ASSUME Nested
    PROVE  /\ Part(1) \in Nat /\ Part(2) \in Nat /\ Part(3) \in Nat /\ Rank \in Nat
           /\ Rank = 0 <=> stack = <<>>
<1>1. stack \in Seq(ContextType) /\ Len(stack) \in Nat /\ Len(stack) <= 3
  BY LenProperties DEF Nested
<1>2. ASSUME NEW i \in 1 .. 3
      PROVE  Part(i) \in Nat /\ (i <= Len(stack) => Part(i) >= 1)
  <2>1. CASE i <= Len(stack)
    <3>1. i \in 1 .. Len(stack)
      BY <1>1, <2>1
    <3>2. stack[i] \in ContextType /\ WellFormed(stack[i])
      BY <1>1, <3>1, ElementOfSeq DEF Nested
    <3> QED BY <2>1, <3>2, WeightNatural DEF Part
  <2>2. CASE ~(i <= Len(stack))
    BY <2>2 DEF Part
  <2> QED BY <2>1, <2>2
<1>3. Part(1) \in Nat /\ Part(2) \in Nat /\ Part(3) \in Nat
  BY <1>2
<1>4. stack = <<>> <=> Len(stack) = 0
  BY <1>1, EmptySeq
<1>5. Len(stack) = 0 => Part(1) = 0 /\ Part(2) = 0 /\ Part(3) = 0
  BY DEF Part
<1>6. Len(stack) # 0 => Part(1) >= 1
  BY <1>1, <1>2
<1> QED BY <1>3, <1>4, <1>5, <1>6 DEF Rank

\* The same after a step.
LEMMA RankPrimed == Nested' => RankFacts'
<1>1. Nested => RankFacts
  BY RankNatural DEF RankFacts
<1> QED BY <1>1, PTL

\* A step that gives the topmost loop or its parent less to do lowers the measure.
LEMMA RankReplaces ==
    ASSUME Nested, NEW d, Replaces(d), Weight(d) < Weight(Top), Nested'
    PROVE  Rank' < Rank
<1>1. /\ Len(stack) \in Nat /\ Len(stack) >= 1 /\ Len(stack) <= 3
      /\ Len(stack') = Len(stack) /\ stack'[Len(stack)] = d
      /\ \A i \in 1 .. Len(stack) : i # Len(stack) => stack'[i] = stack[i]
  BY TopFacts DEF Replaces, Nested
<1>2. ASSUME NEW i \in 1 .. 3
      PROVE  /\ i = Len(stack) => Part(i)' = Weight(d) /\ Part(i) = Weight(Top)
             /\ i # Len(stack) => Part(i)' = Part(i)
  <2>1. CASE i = Len(stack)
    BY <1>1, <2>1 DEF Part, Top
  <2>2. CASE i < Len(stack)
    <3>1. i \in 1 .. Len(stack)
      BY <1>1, <2>2
    <3>2. stack'[i] = stack[i]
      BY <1>1, <2>2, <3>1
    <3>3. Weight(stack[i])' = Weight(stack[i])
      BY <3>2 DEF Weight, Spent
    <3> QED BY <1>1, <2>2, <3>3 DEF Part
  <2>3. CASE i > Len(stack)
    BY <1>1, <2>3 DEF Part
  <2> QED BY <1>1, <2>1, <2>2, <2>3
<1>3. /\ Part(1) \in Nat /\ Part(2) \in Nat /\ Part(3) \in Nat
      /\ Part(1)' \in Nat /\ Part(2)' \in Nat /\ Part(3)' \in Nat
  BY RankNatural, RankPrimed DEF RankFacts
<1>4. Part(1)' + Part(2)' + Part(3)' < Part(1) + Part(2) + Part(3)
  <2>1. CASE Len(stack) = 1
    <3>1. Part(1)' < Part(1) /\ Part(2)' = Part(2) /\ Part(3)' = Part(3)
      BY <1>2, <2>1
    <3> QED BY <1>3, <3>1
  <2>2. CASE Len(stack) = 2
    <3>1. Part(1)' = Part(1) /\ Part(2)' < Part(2) /\ Part(3)' = Part(3)
      BY <1>2, <2>2
    <3> QED BY <1>3, <3>1
  <2>3. CASE Len(stack) = 3
    <3>1. Part(1)' = Part(1) /\ Part(2)' = Part(2) /\ Part(3)' < Part(3)
      BY <1>2, <2>3
    <3> QED BY <1>3, <3>1
  <2> QED BY <1>1, <2>1, <2>2, <2>3
<1> QED BY <1>4 DEF Rank

\* Starting a child.
LEMMA RankGrows ==
    ASSUME Nested, NEW p, NEW d, Grows(p, d), Nested'
    PROVE  Rank' < Rank
<1>1. /\ Len(stack) \in Nat /\ Len(stack) >= 1 /\ Len(stack) <= 2
      /\ Len(stack') = Len(stack) + 1
      /\ stack'[Len(stack)] = p /\ stack'[Len(stack) + 1] = d
      /\ \A i \in 1 .. Len(stack) : i # Len(stack) => stack'[i] = stack[i]
      /\ Weight(p) + Weight(d) < Weight(Top)
  BY TopFacts DEF Grows
<1>2. /\ Part(1) \in Nat /\ Part(2) \in Nat /\ Part(3) \in Nat
      /\ Part(1)' \in Nat /\ Part(2)' \in Nat /\ Part(3)' \in Nat
  BY RankNatural, RankPrimed DEF RankFacts
<1>3. CASE Len(stack) = 1
  <2>1. Part(1)' = Weight(p) /\ Part(2)' = Weight(d) /\ Part(3)' = 0
    BY <1>1, <1>3 DEF Part
  <2>2. Part(1) = Weight(Top)
    BY <1>3 DEF Part, Top
  <2> QED BY <1>1, <1>2, <2>1, <2>2 DEF Rank
<1>4. CASE Len(stack) = 2
  <2>1. stack'[1] = stack[1] /\ Len(stack') = 3 /\ stack'[2] = p /\ stack'[3] = d
    BY <1>1, <1>4
  <2>2. Part(1)' = Part(1)
    BY <1>4, <2>1 DEF Part, Weight, Spent
  <2>3. Part(2)' = Weight(p) /\ Part(3)' = Weight(d)
    BY <2>1 DEF Part
  <2>4. Part(2) = Weight(Top) /\ Part(3) = 0
    BY <1>4 DEF Part, Top
  <2>5. Part(2)' + Part(3)' < Part(2)
    BY <1>1, <2>3, <2>4
  <2>6. Part(1)' + Part(2)' + Part(3)' < Part(1) + Part(2) + Part(3)
    BY <1>2, <2>2, <2>4, <2>5
  <2> QED BY <2>6 DEF Rank
<1>5. Len(stack) \in {1, 2}
  <2>1. Len(stack) \in Nat /\ Len(stack) >= 1 /\ Len(stack) <= 2
    BY <1>1
  <2> DEFINE n == Len(stack)
  <2> SUFFICES n \in {1, 2}
    OBVIOUS
  <2>2. n \in Nat /\ n >= 1 /\ n <= 2
    BY <2>1
  <2> HIDE DEF n
  <2> QED BY <2>2
<1> QED BY <1>3, <1>4, <1>5

\* Returning to the parent.
LEMMA RankShrinks ==
    ASSUME Nested, NEW c, Shrinks(c), Nested'
    PROVE  Rank' < Rank
<1>1. /\ Len(stack) \in Nat /\ Len(stack) >= 2 /\ Len(stack) <= 3
      /\ Len(stack') = Len(stack) - 1 /\ stack'[Len(stack) - 1] = c
      /\ \A i \in 1 .. Len(stack) : i < Len(stack) - 1 => stack'[i] = stack[i]
      /\ Weight(c) < Weight(stack[Len(stack) - 1]) + Weight(Top)
  BY LenProperties DEF Shrinks, Nested
<1>2. /\ Part(1) \in Nat /\ Part(2) \in Nat /\ Part(3) \in Nat
      /\ Part(1)' \in Nat /\ Part(2)' \in Nat /\ Part(3)' \in Nat
  BY RankNatural, RankPrimed DEF RankFacts
<1>3. CASE Len(stack) = 2
  <2>1. Len(stack') = 1 /\ stack'[1] = c /\ Weight(c) < Weight(stack[1]) + Weight(Top)
    BY <1>1, <1>3
  <2>2. Part(1)' = Weight(c) /\ Part(2)' = 0 /\ Part(3)' = 0
    BY <2>1 DEF Part
  <2>3. Part(1) = Weight(stack[1]) /\ Part(2) = Weight(Top)
    BY <1>3 DEF Part, Top
  <2> QED BY <1>2, <2>1, <2>2, <2>3 DEF Rank
<1>4. CASE Len(stack) = 3
  <2>1. /\ Len(stack') = 2 /\ stack'[1] = stack[1] /\ stack'[2] = c
        /\ Weight(c) < Weight(stack[2]) + Weight(Top)
    BY <1>1, <1>4
  <2>2. Part(1)' = Part(1)
    BY <1>4, <2>1 DEF Part, Weight, Spent
  <2>3. Part(2)' = Weight(c) /\ Part(3)' = 0
    BY <2>1 DEF Part
  <2>4. Part(2) = Weight(stack[2]) /\ Part(3) = Weight(Top)
    BY <1>4 DEF Part, Top
  <2> QED BY <1>2, <2>1, <2>2, <2>3, <2>4 DEF Rank
<1> QED BY <1>1, <1>3, <1>4

\* Every step of the run's thread lowers the measure, a dispatch excepted.
LEMMA RankStep ==
    ASSUME Nested, Nested', Step, ~Dispatch
    PROVE  Rank' < Rank
<1>1. CASE Local
  <2>1. PICK d : stack' = SetTop(d) /\ Moved(d)
    BY <1>1, LocalStep
  <2>2. stack # <<>> /\ stack \in Seq(ContextType) /\ d \in ContextType
    BY <1>1, <2>1, LocalStep DEF Nested, Moved
  <2>3. Replaces(d)
    BY <2>1, <2>2, SetTopFacts DEF Replaces
  <2>4. Weight(d) < Weight(Top)
    BY <2>1 DEF Moved
  <2> QED BY <2>3, <2>4, RankReplaces
<1>2. CASE StartChild \/ StartStage
  BY <1>2, GrowStep, RankGrows
<1>3. CASE ReturnToDelegation \/ ReturnToPipeline
  BY <1>3, ShrinkStep, RankShrinks
<1>4. CASE ReturnFromRun
  <2>1. stack # <<>> /\ stack' = <<>>
    BY <1>4 DEF ReturnFromRun, At
  <2>2. Rank \in Nat /\ Rank # 0 /\ Rank' = 0
    BY <2>1, RankNatural, RankPrimed DEF RankFacts
  <2> QED BY <2>2
<1> QED BY <1>1, <1>2, <1>3, <1>4 DEF Step, Local

\* There is a number that is zero when no run is under way and that every step of the
\* run's thread lowers, but for a dispatch.
RunsDown ==
    /\ [](Rank \in Nat /\ (Rank = 0 <=> stack = <<>>))
    /\ [][Step => Dispatch \/ Rank' < Rank]_vars

\* The iteration cap, the batch and the stages bound everything a run does between
\* two dispatches, delegations that were accepted included: this is what
\* EndsUnlessDelegating needs beside the fairness of the run's thread (should_stop,
\* truncate_to_limit, run_pipeline_stage).
THEOREM RunRunsDown == Spec => RunsDown
<1>1. Nested => Rank \in Nat /\ (Rank = 0 <=> stack = <<>>)
  BY RankNatural
<1>2. Nested /\ Nested' /\ [Next]_vars => [Step => Dispatch \/ Rank' < Rank]_vars
  BY RankStep
<1> QED BY <1>1, <1>2, NestedAlways, PTL DEF Spec, RunsDown

\* A run that was asked to stop has less to do after every step of its thread, and
\* nothing but its return ends that.
StopsDown == [][asked /\ Step => Rank' < Rank]_vars

\* After an interrupt no step is a dispatch, so each lowers the measure, at any depth
\* of delegation and before any stage of a pipeline: this is what InterruptEnds needs
\* beside the fairness of the run's thread (dispatch_pending_or_halt, run_loop).
THEOREM InterruptRunsDown == Spec => StopsDown
<1>1. Nested /\ Nested' /\ Stopping /\ [Next]_vars => [asked /\ Step => Rank' < Rank]_vars
  <2> SUFFICES ASSUME Nested, Nested', Stopping, asked, Step
               PROVE  Rank' < Rank
    OBVIOUS
  <2>1. interrupted
    BY DEF Stopping
  <2>2. ~Dispatch
    BY <2>1 DEF Dispatch, RejectPending, AcceptPending, Dispatching
  <2> QED BY <2>2, RankStep
<1> QED BY <1>1, NestedAlways, StoppingAlways, PTL DEF Spec, StopsDown

(***************************************************************************)
(* No delegation in a circle.                                              *)
(***************************************************************************)
\* A loop knows the tiers of all loops below it, but of those that wait for a
\* delegation they resumed, and one about to delegate has passed is_delegation_cycle
\* for the target it names.
Chained ==
    /\ \A i, j \in 1 .. Len(stack) :
          i < j /\ stack[i].pending.kind # "resume" => stack[i].tier \in stack[j].ancestors
    /\ \A i \in 1 .. Len(stack) :
          stack[i].at = "delegate" => ~DelegationCycle(stack[i], stack[i].pending.target)
    /\ \A i, j \in 1 .. Len(stack) :
          /\ i < j /\ stack[i].pending.kind # "resume"
          /\ stack[j - 1].pending.kind \notin {"resume", "pipeline"}
          => stack[i].tier # stack[j].tier

\* Every step keeps the chain of ancestors complete but for loops that resumed.
LEMMA ChainedStep ==
    ASSUME Nested, Chained, [Next]_vars
    PROVE  Chained'
<1>0. stack \in Seq(ContextType) /\ Len(stack) \in Nat
  BY LenProperties DEF Nested
<1>1. ASSUME NEW d, Replaces(d)
      PROVE  Chained'
  <2>1. Len(stack') = Len(stack) /\ stack # <<>> /\ Moved(d) /\ stack'[Len(stack)] = d
    BY <1>1 DEF Replaces
  <2>2. Len(stack) >= 1
    BY <2>1, TopFacts
  <2>3. d.ancestors = Top.ancestors /\ (Len(stack) > 1 => d.tier = Top.tier)
    BY <2>1 DEF Moved
  <2>4. \A i \in 1 .. Len(stack) : i # Len(stack) => stack'[i] = stack[i]
    BY <1>1 DEF Replaces
  <2>5. \A i \in 1 .. Len(stack) :
           /\ stack'[i].ancestors = stack[i].ancestors
           /\ Len(stack) > 1 => stack'[i].tier = stack[i].tier
    BY <2>1, <2>3, <2>4 DEF Top
  <2>6. ASSUME NEW i \in 1 .. Len(stack), NEW j \in 1 .. Len(stack), i < j
        PROVE  /\ stack'[i].tier = stack[i].tier /\ stack'[j].tier = stack[j].tier
               /\ j - 1 \in 1 .. Len(stack) /\ stack'[j - 1] = stack[j - 1]
    <3>1. Len(stack) > 1 /\ j - 1 \in 1 .. Len(stack) /\ j - 1 # Len(stack)
      BY <1>0, <2>6
    <3> QED BY <2>4, <2>5, <3>1
  <2>7. ASSUME NEW i \in 1 .. Len(stack), stack'[i].at = "delegate"
        PROVE  ~DelegationCycle(stack'[i], stack'[i].pending.target)
    <3>1. CASE i = Len(stack)
      <4>1. stack'[i] = d /\ d.at = "delegate"
        BY <2>1, <2>7, <3>1
      <4>2. /\ d.tier = Top.tier /\ d.pending = Top.pending /\ d.ancestors = Top.ancestors
            /\ ~DelegationCycle(Top, Top.pending.target)
        BY <2>1, <4>1 DEF Moved
      <4> QED BY <4>1, <4>2 DEF DelegationCycle
    <3>2. CASE i # Len(stack)
      <4>1. stack'[i] = stack[i]
        BY <2>4, <3>2
      <4> QED BY <2>7, <4>1 DEF Chained
    <3> QED BY <3>1, <3>2
  <2>8. ASSUME NEW i \in 1 .. Len(stack), NEW j \in 1 .. Len(stack), i < j,
               stack'[i].pending.kind # "resume"
        PROVE  /\ stack'[i].tier \in stack'[j].ancestors
               /\ stack'[j - 1].pending.kind \notin {"resume", "pipeline"}
                     => stack'[i].tier # stack'[j].tier
    <3>1. i # Len(stack)
      BY <1>0, <2>8
    <3>2. stack'[i] = stack[i]
      BY <2>4, <3>1
    <3> QED BY <2>5, <2>6, <2>8, <3>2 DEF Chained
  <2> QED BY <2>1, <2>7, <2>8 DEF Chained
<1>2. ASSUME NEW p, NEW d, Grows(p, d)
      PROVE  Chained'
  <2> DEFINE n == Len(stack)
  <2>1. /\ Len(stack') = n + 1 /\ stack # <<>> /\ stack'[n] = p /\ stack'[n + 1] = d
        /\ \A i \in 1 .. n : i # n => stack'[i] = stack[i]
        /\ p.tier = Top.tier /\ p.ancestors = Top.ancestors /\ p.at = "child"
        /\ d.at = "top" /\ Top.ancestors \subseteq d.ancestors
        /\ p.pending.kind # "resume" =>
              /\ d.ancestors = Top.ancestors \cup {Top.tier}
              /\ p.pending.kind # "pipeline" => Top.at = "delegate" /\ d.tier = Top.pending.target
    BY <1>2 DEF Grows
  <2>2. n \in Nat /\ n >= 1 /\ Top = stack[n]
    BY <2>1, TopFacts DEF Top
  <2> HIDE DEF n
  <2>3. \A i \in 1 .. n :
           stack'[i].tier = stack[i].tier /\ stack'[i].ancestors = stack[i].ancestors
    BY <2>1, <2>2
  <2>4. /\ \A i, j \in 1 .. n :
              i < j /\ stack[i].pending.kind # "resume" => stack[i].tier \in stack[j].ancestors
        /\ \A i \in 1 .. n :
              stack[i].at = "delegate" => ~DelegationCycle(stack[i], stack[i].pending.target)
        /\ \A i, j \in 1 .. n :
              /\ i < j /\ stack[i].pending.kind # "resume"
              /\ stack[j - 1].pending.kind \notin {"resume", "pipeline"}
              => stack[i].tier # stack[j].tier
    BY DEF Chained, n
  <2>5. ASSUME NEW i \in 1 .. n, stack'[i].pending.kind # "resume"
        PROVE  stack[i].tier \in d.ancestors
    <3>1. CASE i = n
      BY <2>1, <2>2, <2>5, <3>1
    <3>2. CASE i # n
      <4>1. i < n /\ n \in 1 .. n /\ stack'[i] = stack[i]
        BY <2>1, <2>2, <3>2
      <4>2. stack[i].tier \in stack[n].ancestors
        BY <2>4, <2>5, <4>1
      <4> QED BY <2>1, <2>2, <4>2
    <3> QED BY <3>1, <3>2
  <2>6. ASSUME NEW i \in 1 .. n, stack'[i].pending.kind # "resume",
               p.pending.kind \notin {"resume", "pipeline"}
        PROVE  stack[i].tier # d.tier
    <3>1. Top.at = "delegate" /\ d.tier = Top.pending.target /\ n \in 1 .. n
      BY <2>1, <2>2, <2>6
    <3>2. ~DelegationCycle(Top, d.tier)
      BY <2>2, <2>4, <3>1
    <3>3. d.tier \notin d.ancestors
      BY <2>1, <2>6, <3>2 DEF DelegationCycle
    <3> QED BY <2>5, <2>6, <3>3
  <2>7. ASSUME NEW i \in 1 .. n + 1, NEW j \in 1 .. n + 1, i < j,
               stack'[i].pending.kind # "resume"
        PROVE  /\ stack'[i].tier \in stack'[j].ancestors
               /\ stack'[j - 1].pending.kind \notin {"resume", "pipeline"}
                     => stack'[i].tier # stack'[j].tier
    <3>1. CASE j = n + 1
      <4>1. i \in 1 .. n /\ j - 1 = n
        BY <2>2, <2>7, <3>1
      <4>2. stack'[j] = d /\ stack'[j - 1] = p /\ stack'[i].tier = stack[i].tier
        BY <2>1, <2>3, <3>1, <4>1
      <4> QED BY <2>5, <2>6, <2>7, <4>1, <4>2
    <3>2. CASE j # n + 1
      <4>1. /\ i \in 1 .. n /\ j \in 1 .. n /\ j - 1 \in 1 .. n /\ j - 1 # n /\ i # n
        BY <2>2, <2>7, <3>2
      <4>2. /\ stack'[i] = stack[i] /\ stack'[j].tier = stack[j].tier
            /\ stack'[j].ancestors = stack[j].ancestors /\ stack'[j - 1] = stack[j - 1]
        BY <2>1, <2>3, <4>1
      <4> QED BY <2>4, <2>7, <4>1, <4>2
    <3> QED BY <3>1, <3>2
  <2>8. ASSUME NEW i \in 1 .. n + 1, stack'[i].at = "delegate"
        PROVE  ~DelegationCycle(stack'[i], stack'[i].pending.target)
    <3>1. i # n /\ i # n + 1
      BY <2>1, <2>8
    <3>2. i \in 1 .. n
      BY <2>2, <3>1
    <3>3. stack'[i] = stack[i]
      BY <2>1, <3>1, <3>2
    <3> QED BY <2>4, <2>8, <3>2, <3>3
  <2> QED BY <2>1, <2>7, <2>8 DEF Chained
<1>3. ASSUME NEW c, Shrinks(c)
      PROVE  Chained'
  <2> DEFINE n == Len(stack) - 1
  <2>1. /\ Len(stack') = n /\ stack'[n] = c /\ Len(stack) >= 2
        /\ \A i \in 1 .. Len(stack) : i < n => stack'[i] = stack[i]
        /\ c.at \in {"top", "pipeline"}
        /\ c.tier = stack[n].tier /\ c.ancestors = stack[n].ancestors
    BY <1>3 DEF Shrinks
  <2>2. n \in Nat /\ \A i \in 1 .. n : i \in 1 .. Len(stack) /\ (i = n \/ i < n)
    BY <1>0, <2>1
  <2> HIDE DEF n
  <2>3. \A i \in 1 .. n :
           /\ stack'[i].tier = stack[i].tier /\ stack'[i].ancestors = stack[i].ancestors
           /\ i # n => stack'[i] = stack[i]
    BY <2>1, <2>2
  <2>4. ASSUME NEW i \in 1 .. n, NEW j \in 1 .. n, i < j,
               stack'[i].pending.kind # "resume"
        PROVE  /\ stack'[i].tier \in stack'[j].ancestors
               /\ stack'[j - 1].pending.kind \notin {"resume", "pipeline"}
                     => stack'[i].tier # stack'[j].tier
    <3>1. j - 1 \in 1 .. n /\ j - 1 # n /\ i # n
      BY <2>2, <2>4
    <3>2. /\ stack'[i] = stack[i] /\ stack'[j].tier = stack[j].tier
          /\ stack'[j].ancestors = stack[j].ancestors /\ stack'[j - 1] = stack[j - 1]
      BY <2>3, <3>1
    <3>3. i \in 1 .. Len(stack) /\ j \in 1 .. Len(stack)
      BY <2>2
    <3> QED BY <2>4, <3>2, <3>3 DEF Chained
  <2>5. ASSUME NEW i \in 1 .. n, stack'[i].at = "delegate"
        PROVE  ~DelegationCycle(stack'[i], stack'[i].pending.target)
    <3>1. i # n
      BY <2>1, <2>5
    <3>2. stack'[i] = stack[i] /\ i \in 1 .. Len(stack)
      BY <2>2, <2>3, <3>1
    <3> QED BY <2>5, <3>2 DEF Chained
  <2> QED BY <2>1, <2>4, <2>5 DEF Chained
<1>4. CASE stack' = <<>>
  <2>1. 1 .. Len(stack') = {}
    BY <1>4
  <2> QED BY <2>1 DEF Chained
<1>5. ASSUME NEW tier \in Roots, stack' = <<NewContext(tier, {}, MaxIterations)>>
      PROVE  Chained'
  <2>1. Len(stack') = 1 /\ stack'[1].at = "top"
    BY <1>5, RunBegins
  <2>2. \A i \in 1 .. Len(stack') : i = 1
    BY <2>1
  <2>3. \A i, j \in 1 .. Len(stack') : ~(i < j)
    BY <2>1
  <2> QED BY <2>1, <2>2, <2>3 DEF Chained
<1>6. CASE stack' = stack
  BY <1>6 DEF Chained
<1> QED BY <1>1, <1>2, <1>3, <1>4, <1>5, <1>6, StackStep

\* The chain is complete in every state: it is inductive together with Nested.
LEMMA ChainedAlways == Spec => []Chained
<1>1. Init => Chained
  <2> SUFFICES ASSUME Init PROVE Chained
    OBVIOUS
  <2>1. 1 .. Len(stack) = {}
    BY DEF Init
  <2> QED BY <2>1 DEF Chained
<1>2. Nested /\ Chained /\ [Next]_vars => Chained'
  BY ChainedStep
<1> QED BY <1>1, <1>2, NestedAlways, PTL DEF Spec

\* Whatever tools the engine offers, resume_delegation included, the tier a delegate
\* call names is that of no loop below the child, but for loops that resumed a
\* delegation: the only way into a circle is the target that dir_resume_delegation does
\* not name (is_delegation_cycle, build_child_context, build_resumed_child_context).
THEOREM OnlyResumedCycles == Spec => []NoCycleButResumed
<1>1. Nested /\ Chained => NoCycleButResumed
  <2>1. ASSUME Nested PROVE DOMAIN stack = 1 .. Len(stack)
    BY <2>1, LenProperties DEF Nested
  <2> QED BY <2>1 DEF Chained, NoCycleButResumed
<1> QED BY <1>1, ChainedAlways, NestedAlways, PTL
============================================================================
