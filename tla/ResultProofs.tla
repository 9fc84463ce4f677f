----------------------------- MODULE ResultProofs -----------------------------
(***************************************************************************)
(* Proofs about what engine::canonicalize returns, for every rule set,     *)
(* term language, set of budgets, scheduler and input: its roots, trace    *)
(* and status, its size, that compaction is free, and that it keeps the    *)
(* promise of CanonicalContract.                                           *)
(***************************************************************************)
EXTENDS CanonicalizerProofs, WellFoundedInduction

-----------------------------------------------------------------------------
(* Extreme elements.                                                       *)
LEMMA LeastExists ==
  ASSUME NEW S \in SUBSET Nat, S # {}
  PROVE  \E x \in S : \A y \in S : x <= y
<1>1. PICK Below : Below = OpToRel(<, Nat)
  OBVIOUS
<1>2. IsWellFoundedOn(Below, Nat)
  BY <1>1, NatLessThanWellFounded
<1>3. \A j, k \in Nat : j < k => <<j, k>> \in Below
  BY <1>1 DEF OpToRel
<1>4. \E x \in S : \A y \in S : ~(<<y, x>> \in Below)
  BY <1>2, WFMin
<1>5. PICK x \in S : \A y \in S : ~(<<y, x>> \in Below)
  BY <1>4
<1>6. ASSUME NEW y \in S
      PROVE  x <= y
  <2>1. x \in Nat /\ y \in Nat /\ ~(y < x)
    BY <1>3, <1>5
  <2> QED
    BY <2>1
<1> QED
  BY <1>6

LEMMA GreatestExists ==
  ASSUME NEW n \in Nat, NEW S \in SUBSET (1..n), S # {}
  PROVE  \E x \in S : \A y \in S : y <= x
<1> DEFINE T == {n - x : x \in S}
<1>1. T \in SUBSET Nat /\ T # {}
  <2>1. \A x \in S : x \in 1..n
    OBVIOUS
  <2>2. \A x \in 1..n : n - x \in Nat
    OBVIOUS
  <2>3. \A x \in S : n - x \in Nat
    BY <2>1, <2>2
  <2> QED
    BY <2>3
<1>2. PICK t \in T : \A u \in T : t <= u
  BY <1>1, LeastExists
<1>3. PICK x \in S : t = n - x
  OBVIOUS
<1>4. ASSUME NEW y \in S
      PROVE  y <= x
  <2>1. n - y \in T /\ t <= n - y
    BY <1>2
  <2>2. x \in 1..n /\ y \in 1..n /\ n - x <= n - y
    BY <1>3, <2>1
  <2> QED
    BY <2>2
<1> QED
  BY <1>4

-----------------------------------------------------------------------------
(* What a run reaches.  A node is reached when it is a start or an operand *)
(* of a reached one; that there is such a marking at all is seen by taking *)
(* the least set with the starts that has its members' operands.           *)
MarkedIn(g, from, f) ==
  f = [n \in DOMAIN g |->
        \/ n \in from
        \/ \E m \in (n + 1)..Len(g) : n \in Elements(g[m].args) /\ f[m]]

LEMMA OperandsEarlier ==
  ASSUME NEW g \in Graph, WellFormed(g), NEW m \in DOMAIN g, NEW n \in Elements(g[m].args)
  PROVE  n \in DOMAIN g /\ n \in Nat /\ m \in (n + 1)..Len(g)
<1>1. \A k \in DOMAIN g[m].args : g[m].args[k] \in 1..(m - 1)
  BY DEF WellFormed, ValidNode
<1>2. n \in 1..(m - 1)
  BY <1>1 DEF Elements
<1>3. DOMAIN g = 1..Len(g) /\ Len(g) \in Nat
  BY DEF Graph
<1> QED
  BY <1>2, <1>3

LEMMA MarkingExists ==
  ASSUME NEW g \in Graph, WellFormed(g), NEW from
  PROVE  \E f : MarkedIn(g, from, f)
<1> DEFINE D == DOMAIN g
           Holds(S) == S \subseteq D /\ from \cap D \subseteq S /\ ClosedIn(g, S)
           M == {n \in D : \A S \in SUBSET D : Holds(S) => n \in S}
<1>1. DOMAIN g = 1..Len(g) /\ Len(g) \in Nat
  BY DEF Graph
<1>2. from \cap D \subseteq M /\ M \subseteq D
  OBVIOUS
<1>3. ClosedIn(g, M)
  <2> SUFFICES ASSUME NEW m \in M, NEW n \in Elements(g[m].args)
               PROVE  n \in M
    BY DEF ClosedIn
  <2>1. n \in D
    BY OperandsEarlier
  <2>2. ASSUME NEW S \in SUBSET D, Holds(S)
        PROVE  n \in S
    <3>1. m \in S
      BY <2>2
    <3> QED
      BY <2>2, <3>1 DEF ClosedIn
  <2> QED
    BY <2>1, <2>2
<1>4. ASSUME NEW S \in SUBSET D, from \cap D \subseteq S, ClosedIn(g, S)
      PROVE  M \subseteq S
  BY <1>4
<1> HIDE DEF M
<1>5. ASSUME NEW n \in M, n \notin from
      PROVE  \E m \in M : n \in Elements(g[m].args)
  <2> SUFFICES ASSUME \A m \in M : n \notin Elements(g[m].args)
               PROVE  FALSE
    OBVIOUS
  <2> DEFINE S == M \ {n}
  <2>1. S \in SUBSET D /\ from \cap D \subseteq S
    BY <1>2, <1>5
  <2>2. ClosedIn(g, S)
    BY <1>3 DEF ClosedIn
  <2>3. n \in S
    BY <1>4, <2>1, <2>2
  <2> QED
    BY <2>3
<1> DEFINE f == [n \in D |-> n \in M]
<1>6. ASSUME NEW n \in D
      PROVE  n \in M <=> \/ n \in from
                         \/ \E m \in (n + 1)..Len(g) : n \in Elements(g[m].args) /\ m \in M
  <2>1. ASSUME n \in M, n \notin from
        PROVE  \E m \in (n + 1)..Len(g) : n \in Elements(g[m].args) /\ m \in M
    <3>1. PICK m \in M : n \in Elements(g[m].args)
      BY <1>5, <2>1
    <3>2. m \in (n + 1)..Len(g)
      BY <1>2, <3>1, OperandsEarlier
    <3> QED
      BY <3>1, <3>2
  <2> QED
    BY <1>2, <1>3, <2>1 DEF ClosedIn
<1>7. \A n \in D : f[n] <=> \/ n \in from
                            \/ \E m \in (n + 1)..Len(g) : n \in Elements(g[m].args) /\ f[m]
  <2>1. \A n \in D : \A m \in (n + 1)..Len(g) : m \in D
    BY <1>1
  <2>2. \A n \in D : f[n] <=> n \in M
    OBVIOUS
  <2> HIDE DEF f
  <2> QED
    BY <1>6, <2>1, <2>2
<1>8. f = [n \in D |-> f[n]]
  OBVIOUS
<1>9. ASSUME NEW n \in D
      PROVE  f[n] = (\/ n \in from
                     \/ \E m \in (n + 1)..Len(g) : n \in Elements(g[m].args) /\ f[m])
  <2>1. f[n] \in BOOLEAN
    OBVIOUS
  <2> HIDE DEF f
  <2> QED
    BY <1>7, <2>1
<1> HIDE DEF f
<1>10. MarkedIn(g, from, f)
  BY <1>8, <1>9, Zenon DEF MarkedIn
<1> QED
  BY <1>10

LEMMA ReachMarked ==
  ASSUME NEW g \in Graph, WellFormed(g), NEW from
  PROVE  \E f : MarkedIn(g, from, f) /\ Reachable(g, from) = {n \in DOMAIN g : f[n]}
<1> DEFINE f == CHOOSE f : MarkedIn(g, from, f)
<1>1. MarkedIn(g, from, f)
  BY MarkingExists
<1>2. Reachable(g, from) = {n \in DOMAIN g : f[n]}
  BY DEF Reachable, MarkedIn
<1> QED
  BY <1>1, <1>2

(* The nodes reached: the starts, and with a node its operands.            *)
LEMMA ReachClosed ==
  ASSUME NEW g \in Graph, WellFormed(g), NEW from
  PROVE  /\ Reachable(g, from) \subseteq DOMAIN g
         /\ from \cap DOMAIN g \subseteq Reachable(g, from)
         /\ ClosedIn(g, Reachable(g, from))
<1>1. PICK f : MarkedIn(g, from, f) /\ Reachable(g, from) = {n \in DOMAIN g : f[n]}
  BY ReachMarked
<1>2. \A n \in DOMAIN g : f[n] <=> \/ n \in from
                                   \/ \E m \in (n + 1)..Len(g) : n \in Elements(g[m].args) /\ f[m]
  BY <1>1 DEF MarkedIn
<1>3. ASSUME NEW m \in Reachable(g, from), NEW n \in Elements(g[m].args)
      PROVE  n \in Reachable(g, from)
  <2>1. m \in DOMAIN g /\ f[m]
    BY <1>1
  <2>2. n \in DOMAIN g /\ m \in (n + 1)..Len(g)
    BY <2>1, OperandsEarlier
  <2> QED
    BY <1>1, <1>2, <2>1, <2>2
<1> QED
  BY <1>1, <1>2, <1>3 DEF ClosedIn

(* No more than those: a closed set with the starts has all of them.       *)
LEMMA ReachLeast ==
  ASSUME NEW g \in Graph, WellFormed(g), NEW from, NEW S,
         from \cap DOMAIN g \subseteq S,
         \A m \in Reachable(g, from) \cap S : Elements(g[m].args) \subseteq S
  PROVE  Reachable(g, from) \subseteq S
<1>1. PICK f : MarkedIn(g, from, f) /\ Reachable(g, from) = {n \in DOMAIN g : f[n]}
  BY ReachMarked
<1>2. \A n \in DOMAIN g : f[n] <=> \/ n \in from
                                   \/ \E m \in (n + 1)..Len(g) : n \in Elements(g[m].args) /\ f[m]
  BY <1>1 DEF MarkedIn
<1>3. DOMAIN g = 1..Len(g) /\ Len(g) \in Nat
  BY DEF Graph
<1> DEFINE Rest == Reachable(g, from) \ S
<1> SUFFICES ASSUME Rest # {} PROVE FALSE
  OBVIOUS
<1>4. Rest \in SUBSET (1..Len(g))
  BY <1>1, <1>3
<1>5. PICK n \in Rest : \A y \in Rest : y <= n
  BY <1>3, <1>4, GreatestExists
<1>6. PICK m \in (n + 1)..Len(g) : n \in Elements(g[m].args) /\ f[m]
  BY <1>1, <1>2, <1>4, <1>5
<1>7. n \in Nat /\ m \in DOMAIN g /\ ~(m <= n)
  BY <1>3, <1>4, <1>6
<1>8. m \in Reachable(g, from) /\ m \notin Rest
  BY <1>1, <1>5, <1>6, <1>7
<1> QED
  BY <1>6, <1>8

-----------------------------------------------------------------------------
(* Sorted positions.                                                       *)
LEMMA IncreasingIdentity ==
  ASSUME NEW n \in Nat, NEW p \in [1..n -> 1..n],
         \A i, j \in 1..n : i < j => p[i] < p[j]
  PROVE  \A k \in 1..n : p[k] = k
<1> DEFINE Low == {k \in 1..n : p[k] < k}
           High == {k \in 1..n : p[k] > k}
<1>1. ASSUME Low # {} PROVE FALSE
  <2>1. Low \in SUBSET Nat
    OBVIOUS
  <2>2. PICK k \in Low : \A y \in Low : k <= y
    BY <1>1, <2>1, LeastExists
  <2>3. k \in 1..n /\ p[k] \in 1..n /\ p[k] < k
    OBVIOUS
  <2>4. p[p[k]] < p[k] /\ p[k] \in Low
    BY <2>3
  <2> QED
    BY <2>2, <2>3, <2>4
<1>2. ASSUME High # {} PROVE FALSE
  <2>1. High \in SUBSET (1..n)
    OBVIOUS
  <2>2. PICK k \in High : \A y \in High : y <= k
    BY <1>2, <2>1, GreatestExists
  <2>3. k \in 1..n /\ p[k] \in 1..n /\ p[k] > k
    OBVIOUS
  <2>4. k + 1 \in 1..n /\ p[k] < p[k + 1] /\ p[k + 1] \in 1..n
    BY <2>3
  <2>5. k + 1 \in High
    BY <2>3, <2>4
  <2> QED
    BY <2>2, <2>3, <2>5
<1>3. ASSUME NEW k \in 1..n
      PROVE  p[k] = k
  <2>1. k \notin Low /\ k \notin High /\ p[k] \in 1..n
    BY <1>1, <1>2
  <2> QED
    BY <2>1
<1> QED
  BY <1>3

(* The positions in order, when every one is kept, are 1, 2, 3, ...        *)
LEMMA AllInOrder ==
  ASSUME NEW n \in Nat, NEW S \in SUBSET (1..n), NEW p \in Ascending(S), S = 1..n
  PROVE  p \in [1..n -> 1..n] /\ Len(p) = n /\ \A k \in 1..n : p[k] = k
<1>1. Cardinality(S) = n
  BY FS_Interval
<1>2. p \in [1..n -> 1..n] /\ \A i, j \in 1..n : i < j => p[i] < p[j]
  BY <1>1 DEF Ascending
<1>3. Len(p) = n
  BY <1>2
<1> QED
  BY <1>2, <1>3, IncreasingIdentity

(* A set of positions as many as there are has every position.             *)
LEMMA AllKept ==
  ASSUME NEW n \in Nat, NEW S \in SUBSET (1..n), Cardinality(S) = n
  PROVE  S = 1..n
<1>1. IsFiniteSet(1..n) /\ Cardinality(1..n) = n
  BY FS_Interval
<1> QED
  BY <1>1, FS_Subset

-----------------------------------------------------------------------------
(* What no step of a run changes.                                          *)
LEMMA RunStepJob ==
  ASSUME RunStep
  PROVE  UNCHANGED <<src, roots, pass, reach>>
<1> USE DEF jobVars
<1>1. CASE TryRule
  BY <1>1 DEF TryRule, Overgrown, NoMatch, InvalidRewrite, ReplaceWith,
              RebuildExpression, Attempt
<1>2. CASE KeepOrReplace \/ RebuildNode
  BY <1>2 DEF KeepOrReplace, RebuildNode
<1>3. CASE ImportNode
  BY <1>3 DEF ImportNode
<1> QED
  BY <1>1, <1>2, <1>3
     DEF RunStep, ImportBudgetSpent, SeedQueue, QueueEmpty, DropNode, PopSubject,
         SkipRule, StepBudgetSpent, RulesDone

-----------------------------------------------------------------------------
(* The counters never pass their limits.                                   *)
CountersKept ==
  /\ imported <= MaxImports /\ steps <= MaxSteps /\ iterations <= MaxIterations
  /\ rewrites <= MaxRewrites
  /\ \A n \in DOMAIN nodeRewrites : nodeRewrites[n] <= MaxNodeRewrites

LEMMA NoRewritesKept ==
  ASSUME NEW S
  PROVE  \A n \in DOMAIN NoRewrites(S) : NoRewrites(S)[n] <= MaxNodeRewrites
BY LimitsAssumption DEF NoRewrites

LEMMA RewriteKept ==
  ASSUME TypeOK, CountersKept, NEW n, CanRewrite(n), ConsumeRewrite(n)
  PROVE  /\ rewrites' <= MaxRewrites
         /\ \A m \in DOMAIN nodeRewrites' : nodeRewrites'[m] <= MaxNodeRewrites
<1>1. rewrites \in Nat /\ nodeRewrites \in [DOMAIN nodeRewrites -> Nat]
  BY DEF TypeOK, RunTypeOK
<1>2. rewrites' <= MaxRewrites
  BY <1>1, LimitsAssumption DEF CanRewrite, ConsumeRewrite
<1>3. nodeRewrites' = [m \in DOMAIN nodeRewrites |->
                         IF m = n THEN nodeRewrites[n] + 1 ELSE nodeRewrites[m]]
  BY DEF ConsumeRewrite
<1>4. ASSUME NEW m \in DOMAIN nodeRewrites'
      PROVE  nodeRewrites'[m] <= MaxNodeRewrites
  <2>1. m \in DOMAIN nodeRewrites /\ nodeRewrites[m] \in Nat /\ nodeRewrites[m] <= MaxNodeRewrites
    BY <1>1, <1>3 DEF CountersKept
  <2>2. CASE m = n
    BY <1>3, <2>1, <2>2, LimitsAssumption DEF CanRewrite
  <2>3. CASE m # n
    BY <1>3, <2>1, <2>3
  <2> QED
    BY <2>2, <2>3
<1> QED
  BY <1>2, <1>4

LEMMA CountersInRun ==
  ASSUME TypeOK, CountersKept, RunStep
  PROVE  CountersKept'
<1> USE DEF budgetVars
<1>0. imported \in Nat /\ steps \in Nat /\ iterations \in Nat /\ rewrites \in Nat
  BY DEF TypeOK, RunTypeOK
<1>1. CASE ImportNode
  <2>1. imported' <= MaxImports
    BY <1>0, <1>1, LimitsAssumption DEF ImportNode, CanImport, ConsumeImport, CountersKept
  <2> QED
    BY <1>1, <2>1 DEF ImportNode, CountersKept
<1>2. CASE TryRule
  <2>1. PICK o \in Outcomes(Rule, subject, out) :
          \/ Overgrown(o) \/ NoMatch(o) \/ InvalidRewrite(o)
          \/ ReplaceWith(o) \/ RebuildExpression(o)
    BY <1>2 DEF TryRule
  <2>2. steps' <= MaxSteps /\ UNCHANGED <<imported, iterations>>
    <3>1. steps < MaxSteps /\ Attempt(o)
      BY <1>2, <2>1 DEF TryRule, CanStep, Overgrown, NoMatch, InvalidRewrite,
                        ReplaceWith, RebuildExpression
    <3> QED
      BY <1>0, <3>1, LimitsAssumption DEF Attempt, ConsumeStep
  <2>3. \/ UNCHANGED <<rewrites, nodeRewrites>>
        \/ CanRewrite(cur) /\ ConsumeRewrite(cur)
    BY <2>1 DEF Overgrown, NoMatch, InvalidRewrite, ReplaceWith, RebuildExpression,
                RebuildFailure
  <2> QED
    BY <2>2, <2>3, RewriteKept DEF CountersKept
<1> QED
  BY <1>1, <1>2
     DEF RunStep, CountersKept, ImportBudgetSpent, SeedQueue, QueueEmpty, DropNode,
         PopSubject, SkipRule, StepBudgetSpent, RulesDone, KeepOrReplace, RebuildNode

LEMMA CountersInEngine ==
  ASSUME TypeOK, CountersKept, EngineStep
  PROVE  CountersKept'
<1>0. imported \in Nat /\ steps \in Nat /\ iterations \in Nat /\ rewrites \in Nat
  BY DEF TypeOK, RunTypeOK
<1>1. CASE StartImport \/ StartCompaction
  BY <1>1 DEF StartImport, StartCompaction, StartRun, CountersKept
<1>2. CASE StartPhase
  <2>1. iterations' <= MaxIterations
    BY <1>0, <1>2, LimitsAssumption DEF StartPhase, CanIterate, ConsumeIteration
  <2> QED
    BY <1>2, <2>1 DEF StartPhase, StartRun, CountersKept
<1>3. CASE \/ AfterImport \/ AfterStoppedPhase \/ AfterStablePhase
           \/ AfterChangedPhase \/ AfterCompaction
  <2>1. /\ UNCHANGED <<imported, steps, rewrites, iterations>>
        /\ nodeRewrites' \in {nodeRewrites, NoRewrites(DOMAIN out)}
    BY <1>3 DEF AfterImport, AfterStoppedPhase, AfterStablePhase, AfterChangedPhase,
                AfterCompaction, RunOver, Adopt
  <2> QED
    BY <2>1, NoRewritesKept DEF CountersKept
<1> QED
  BY <1>1, <1>2, <1>3
     DEF EngineStep, CountersKept, Reject, SkipPlan, PhaseBudgetSpent, EndSequence,
         NothingToCompact, runVars, budgetVars

(* No counter of termination_controller passes its limit in any state of a *)
(* call: each is compared with its limit before it is raised.              *)
THEOREM CountersCorrect == Spec => []CountersKept
<1>1. Init => CountersKept
  BY LimitsAssumption, NoRewritesKept DEF Init, BudgetInit, CountersKept
<1>2. TypeOK /\ CountersKept /\ [Next]_vars => CountersKept'
  BY CountersInRun, CountersInEngine DEF Next, vars, runVars, budgetVars, CountersKept
<1> QED
  BY <1>1, <1>2, TypeCorrect, PTL DEF Spec
-----------------------------------------------------------------------------
(* What the engine does to the run: it starts one or leaves none behind.   *)
LEMMA EngineStarts ==
  ASSUME IInv, StartImport \/ StartPhase \/ StartCompaction
  PROVE  \E g \in Graph, rs \in Seq(Nat), p \in Pass :
           /\ WellFormed(g) /\ StartRun(g, rs, p, nodeRewrites)
           /\ StartImport => g = call.graph /\ rs = call.roots /\ p = ImportPass
           /\ StartPhase => g = working /\ rs = workingRoots /\ p = PhasePass(Plans[planIx])
           /\ StartCompaction => g = working /\ rs = workingRoots /\ p = CompactionPass
<1>1. CASE StartImport
  <2>1. ImportPass \in Pass /\ pc # "compact" /\ pc # "plans"
    BY <1>1 DEF ImportPass, Pass, StartImport
  <2>2. ~StartPhase /\ ~StartCompaction /\ StartRun(call.graph, call.roots, ImportPass, nodeRewrites)
    BY <1>1, <2>1 DEF StartImport, StartPhase, StartCompaction
  <2> QED
    BY <1>1, <2>1, <2>2, CallType DEF IInv
<1>2. CASE StartPhase
  <2>1. Plans[planIx] \in Plan
    BY <1>2, PlansAssumption DEF StartPhase, IInv, TypeOK
  <2>2. PhasePass(Plans[planIx]) \in Pass /\ pc # "validate" /\ pc # "compact"
    BY <1>2, <2>1 DEF Plan, PhasePass, Pass, StartPhase
  <2>3. ~StartImport /\ ~StartCompaction
    BY <2>2 DEF StartImport, StartCompaction
  <2>4. StartRun(working, workingRoots, PhasePass(Plans[planIx]), nodeRewrites)
    BY <1>2 DEF StartPhase
  <2> QED
    BY <1>2, <2>2, <2>3, <2>4 DEF IInv, TypeOK, EngineLinks
<1>3. CASE StartCompaction
  <2>1. CompactionPass \in Pass /\ pc # "validate" /\ pc # "plans"
    BY <1>3 DEF CompactionPass, Pass, StartCompaction
  <2>2. ~StartImport /\ ~StartPhase
    BY <2>1 DEF StartImport, StartPhase
  <2>3. StartRun(working, workingRoots, CompactionPass, nodeRewrites)
    BY <1>3 DEF StartCompaction
  <2> QED
    BY <1>3, <2>1, <2>2, <2>3 DEF IInv, TypeOK, EngineLinks
<1> QED
  BY <1>1, <1>2, <1>3

LEMMA EngineRests ==
  ASSUME IInv, EngineStep, ~StartImport, ~StartPhase, ~StartCompaction
  PROVE  /\ stage' = "idle"
         /\ UNCHANGED <<src, roots, pass, reach, todo, out, copied, final, runStatus>>
<1>1. CASE \/ AfterImport \/ AfterStoppedPhase \/ AfterStablePhase
           \/ AfterChangedPhase \/ AfterCompaction
  BY <1>1 DEF AfterImport, AfterStoppedPhase, AfterStablePhase, AfterChangedPhase,
              AfterCompaction, RunOver, jobVars, subjectVars
<1>2. CASE Reject \/ SkipPlan \/ PhaseBudgetSpent \/ EndSequence \/ NothingToCompact
  <2>1. stage = "idle"
    BY <1>2 DEF Reject, SkipPlan, PhaseBudgetSpent, EndSequence, NothingToCompact,
                IInv, EngineLinks
  <2> QED
    BY <1>2, <2>1 DEF Reject, SkipPlan, PhaseBudgetSpent, EndSequence,
                      NothingToCompact, runVars, jobVars, subjectVars
<1> QED
  BY <1>1, <1>2 DEF EngineStep

-----------------------------------------------------------------------------
(* A run that is complete has a copy of every node it has been through,    *)
(* and when the import loop is over these are all that its roots reach:    *)
(* the loop never comes to a node whose operands it has not copied.        *)
Covered ==
  /\ stage \in {"pop", "rules", "settle"} => pass.plan /\ runStatus = "complete"
  /\ stage # "idle" /\ runStatus = "complete" =>
       /\ Elements(roots) \subseteq DOMAIN src
       /\ reach = Reachable(src, Elements(roots))
       /\ stage # "import" => todo = {}
       /\ \A j \in reach \ todo : copied[j] # None

LEMMA NextResolved ==
  ASSUME IInv, Covered, stage = "import", runStatus = "complete",
         NEW i \in todo, \A j \in todo : i <= j
  PROVE  Resolved(src[i].args)
<1>1. /\ src \in Graph /\ WellFormed(src) /\ i \in reach /\ i \in DOMAIN src
      /\ todo \subseteq reach
  BY DEF IInv, TypeOK, RunTypeOK, RunInv
<1>2. ClosedIn(src, reach)
  BY <1>1, ReachClosed DEF Covered
<1> SUFFICES ASSUME NEW k \in DOMAIN src[i].args
             PROVE  copied[src[i].args[k]] # None
  BY DEF Resolved
<1> DEFINE n == src[i].args[k]
<1>3. n \in Elements(src[i].args)
  BY DEF Elements
<1>4. n \in reach /\ n \in Nat /\ i \in (n + 1)..Len(src)
  BY <1>1, <1>2, <1>3, OperandsEarlier DEF ClosedIn
<1>5. n \notin todo
  BY <1>4
<1> QED
  BY <1>4, <1>5 DEF Covered

LEMMA CoveredInImport ==
  ASSUME IInv, Covered, ImportNode
  PROVE  Covered'
<1>1. PICK i \in todo : (\A j \in todo : i <= j) /\ ImportAt(i)
  BY DEF ImportNode
<1>2. stage = "import" /\ stage' = stage /\ UNCHANGED <<src, roots, pass, reach>>
  BY DEF ImportNode, jobVars
<1>3. CASE runStatus' = "complete"
  <2>1. runStatus = "complete"
    BY <1>1, <1>3 DEF ImportAt
  <2>2. Resolved(src[i].args)
    BY <1>1, <1>2, <2>1, NextResolved
  <2>3. /\ copied' = [copied EXCEPT ![i] = Len(out')]
        /\ todo' = todo \ {i} /\ out' = Build(out, CopyOf(i)) /\ Buildable(out, CopyOf(i))
    BY <1>1, <1>3, <2>2 DEF ImportAt
  <2>4. Len(out') # None
    <3>1. out \in Graph /\ i \in DOMAIN src
      BY DEF IInv, TypeOK, RunTypeOK
    <3>2. CopyOf(i) \in Expr
      BY <2>2, <3>1, CopySound DEF IInv, TypeOK
    <3>3. Len(out') = Len(out) + 1
      BY <2>3, <3>1, <3>2, BuildProperties
    <3>4. Len(out) \in Nat
      BY <3>1 DEF Graph
    <3> QED
      BY <3>3, <3>4 DEF None
  <2>5. DOMAIN copied = DOMAIN src /\ reach \subseteq DOMAIN src
    BY DEF IInv, TypeOK, RunTypeOK
  <2>6. \A j \in reach \ todo' : copied'[j] # None
    BY <1>2, <2>1, <2>3, <2>4, <2>5 DEF Covered
  <2> QED
    BY <1>2, <2>1, <2>6 DEF Covered
<1> QED
  BY <1>2, <1>3 DEF Covered

LEMMA CoveredInRun ==
  ASSUME IInv, Covered, RunStep
  PROVE  Covered'
<1>0. UNCHANGED <<src, roots, pass, reach>>
  BY RunStepJob
<1>1. CASE ImportNode
  BY <1>1, CoveredInImport
<1>2. CASE ImportBudgetSpent \/ SeedQueue
  BY <1>0, <1>2 DEF ImportBudgetSpent, SeedQueue, Covered
<1>3. CASE QueueEmpty \/ DropNode \/ PopSubject \/ SkipRule \/ StepBudgetSpent \/ RulesDone
  BY <1>0, <1>3 DEF QueueEmpty, DropNode, PopSubject, SkipRule, StepBudgetSpent, RulesDone,
                    Stop, Covered
<1>4. CASE TryRule
  <2>1. PICK o \in Outcomes(Rule, subject, out) :
          \/ Overgrown(o) \/ NoMatch(o) \/ InvalidRewrite(o)
          \/ ReplaceWith(o) \/ RebuildExpression(o)
    BY <1>4 DEF TryRule
  <2>2. /\ stage = "rules" /\ UNCHANGED <<todo, copied>>
        /\ \/ stage' \in {"rules", "settle"} /\ runStatus' = runStatus
           \/ stage' = "finish" /\ runStatus' # "complete"
    BY <1>4, <2>1 DEF TryRule, Attempt, Overgrown, NoMatch, InvalidRewrite, ReplaceWith,
                RebuildExpression, RebuildFailure, Stop
  <2> QED
    BY <1>0, <2>2 DEF Covered
<1>5. CASE KeepOrReplace \/ RebuildNode
  <2>0. DOMAIN copied = DOMAIN src /\ reach \subseteq DOMAIN src /\ stage = "settle"
        /\ todo' = todo
    BY <1>5 DEF KeepOrReplace, RebuildNode, IInv, TypeOK, RunTypeOK
  <2>1. CASE stage' = "finish"
    <3>1. runStatus' # "complete"
      BY <1>5, <2>1 DEF KeepOrReplace, RebuildNode, Stop, Settle
    <3> QED
      BY <2>1, <3>1 DEF Covered
  <2>2. CASE stage' # "finish"
    <3>1. PICK node : Settle(node) /\ (node = Old \/ node # None)
      <4>1. CASE KeepOrReplace
        BY <4>1 DEF KeepOrReplace
      <4>2. CASE RebuildNode
        <5>1. Buildable(out, subject) /\ out' = Build(out, subject) /\ Settle(Len(out'))
          BY <2>2, <4>2 DEF RebuildNode, Stop
        <5>2. out \in Graph /\ subject \in Expr
          BY <2>0 DEF IInv, TypeOK, RunTypeOK
        <5>3. Len(out') = Len(out) + 1
          BY <5>1, <5>2, BuildProperties
        <5>4. Len(out) \in Nat
          BY <5>2 DEF Graph
        <5> QED
          BY <5>1, <5>3, <5>4 DEF None
      <4> QED
        BY <1>5, <4>1, <4>2
    <3>2. stage' = "pop" /\ runStatus' = runStatus
      BY <3>1 DEF Settle
    <3>3. ASSUME NEW j \in reach, copied[j] # None PROVE copied'[j] # None
      BY <2>0, <3>1, <3>3 DEF Settle
    <3> QED
      BY <1>0, <2>0, <3>2, <3>3 DEF Covered
  <2> QED
    BY <2>1, <2>2
<1> QED
  BY <1>1, <1>2, <1>3, <1>4, <1>5 DEF RunStep

LEMMA CoveredInEngine ==
  ASSUME IInv, Covered, EngineStep
  PROVE  Covered'
<1>1. CASE StartImport \/ StartPhase \/ StartCompaction
  <2>1. PICK g \in Graph, rs \in Seq(Nat), p \in Pass : StartRun(g, rs, p, nodeRewrites)
    BY <1>1, EngineStarts
  <2> QED
    BY <2>1 DEF StartRun, Stop, ValidRoots, Covered
<1>2. CASE ~StartImport /\ ~StartPhase /\ ~StartCompaction
  BY <1>2, EngineRests DEF Covered
<1> QED
  BY <1>1, <1>2

(* The import loop covers what its roots reach: a run that completed has a *)
(* copy of every such node, since operands come before their users.        *)
THEOREM CopiesCover == Spec => []Covered
<1>1. Init => Covered
  BY DEF Init, Covered
<1>2. IInv /\ Covered /\ [Next]_vars => Covered'
  BY CoveredInRun, CoveredInEngine
     DEF Next, vars, runVars, jobVars, subjectVars, Covered
<1> QED
  BY <1>1, <1>2, Invariance, PTL DEF Spec
-----------------------------------------------------------------------------
(* Where the call stands, which pass its run makes.                        *)
PassLinks ==
  /\ pc = "import" => pass = ImportPass
  /\ pc = "phase" => pass.plan
  /\ pc = "compacting" => pass = CompactionPass
  /\ pc \notin {"validate", "done"} => call.accepted
  /\ pc \in {"validate", "import"} => workingRoots = <<>>

LEMMA PassLinksStep ==
  ASSUME IInv, PassLinks, Next
  PROVE  PassLinks'
<1>1. CASE RunStep /\ UNCHANGED engineVars
  BY <1>1, RunStepJob DEF engineVars, PassLinks
<1>2. CASE StartImport \/ StartPhase \/ StartCompaction
  <2>1. /\ call' = call /\ call.accepted /\ workingRoots' = workingRoots
        /\ \/ pc' = "import" /\ pass' = ImportPass /\ workingRoots = <<>>
           \/ pc' = "phase" /\ pass' = PhasePass(Plans[planIx])
           \/ pc' = "compacting" /\ pass' = CompactionPass
    BY <1>2 DEF StartImport, StartPhase, StartCompaction, StartRun, PassLinks
  <2> QED
    BY <2>1 DEF PassLinks, PhasePass
<1>3. CASE EngineStep /\ ~StartImport /\ ~StartPhase /\ ~StartCompaction
  <2>1. /\ pc' \in {"plans", "compact", "done"} /\ call' = call
        /\ pc # "validate" \/ pc' = "done"
    BY <1>3 DEF EngineStep, Reject, AfterImport, SkipPlan, PhaseBudgetSpent, AfterStoppedPhase,
                AfterStablePhase, AfterChangedPhase, EndSequence, NothingToCompact,
                AfterCompaction
  <2>2. pc # "done"
    BY <1>3 DEF EngineStep, Reject, AfterImport, SkipPlan, PhaseBudgetSpent, AfterStoppedPhase,
                AfterStablePhase, AfterChangedPhase, EndSequence, NothingToCompact,
                AfterCompaction
  <2> QED
    BY <2>1, <2>2 DEF PassLinks
<1> QED
  BY <1>1, <1>2, <1>3 DEF Next, EngineStep

(* In every state the run in progress is the one the engine started at     *)
(* that point: import, a phase, or compaction.                             *)
THEOREM PassLinked == Spec => []PassLinks
<1>1. Init => PassLinks
  BY DEF Init, PassLinks
<1>2. IInv /\ PassLinks /\ [Next]_vars => PassLinks'
  BY PassLinksStep DEF vars, runVars, jobVars, engineVars, PassLinks
<1> QED
  BY <1>1, <1>2, Invariance, PTL DEF Spec

-----------------------------------------------------------------------------
(* What the engine does to the working roots: it keeps them, or a run of   *)
(* its own gives it the copies of those the run kept.                      *)
Adopts ==
  \E p \in Ascending(KeptRoots) :
    /\ workingRoots' = [k \in DOMAIN p |-> copied[roots[p[k]]]]
    /\ working' = out
    /\ \/ pc = "import" /\ positions' = p /\ mapping' = copied
       \/ /\ pc \in {"phase", "compacting"} /\ SameRoots
          /\ positions' = [k \in DOMAIN p |-> positions[p[k]]]
          /\ mapping' = Composed(mapping, copied)

LEMMA RootsChange ==
  ASSUME IInv, EngineStep
  PROVE  /\ call' = call
         /\ \/ UNCHANGED <<working, workingRoots, positions, mapping>>
            \/ stage = "finish" /\ Adopts
<1>1. CASE \/ Reject \/ SkipPlan \/ PhaseBudgetSpent \/ EndSequence
           \/ NothingToCompact \/ StartImport \/ StartPhase \/ StartCompaction
           \/ AfterStablePhase
  BY <1>1 DEF Reject, SkipPlan, PhaseBudgetSpent, EndSequence, NothingToCompact,
              StartImport, StartPhase, StartCompaction, AfterStablePhase
<1>2. CASE AfterImport
  BY <1>2 DEF AfterImport, RunOver, Adopts
<1>3. CASE AfterStoppedPhase \/ AfterChangedPhase
  BY <1>3, AlwaysComposable
     DEF AfterStoppedPhase, AfterChangedPhase, RunOver, Adopt, Adopts
<1>4. CASE AfterCompaction
  BY <1>4, AlwaysComposable DEF AfterCompaction, RunOver, Adopt, Adopts
<1> QED
  BY <1>1, <1>2, <1>3, <1>4 DEF EngineStep

LEMMA AdoptedRoots ==
  ASSUME IInv, NEW p \in Ascending(KeptRoots), NEW k \in DOMAIN p
  PROVE  /\ p[k] \in DOMAIN roots /\ p[k] \in Nat /\ roots[p[k]] \in DOMAIN copied
         /\ copied[roots[p[k]]] # None /\ copied[roots[p[k]]] \in Nat
         /\ copied[roots[p[k]]] \in DOMAIN out
<1>1. KeptRoots \subseteq 1..Len(roots) /\ Len(roots) \in Nat /\ DOMAIN roots = 1..Len(roots)
  BY SMTT(30) DEF KeptRoots, IInv, TypeOK, RunTypeOK
<1>2. p[k] \in KeptRoots
  <2>1. p \in Seq(KeptRoots)
    BY <1>1, AscendingType
  <2> QED
    BY <2>1
<1>3. /\ p[k] \in DOMAIN roots /\ p[k] \in Nat /\ roots[p[k]] \in DOMAIN copied
      /\ copied[roots[p[k]]] # None
  BY <1>1, <1>2 DEF KeptRoots
<1> QED
  BY <1>3 DEF IInv, TypeOK, RunTypeOK, RunInv, CopiesSound, StandsFor

-----------------------------------------------------------------------------
(* Nothing the result is made of lies beyond the output limit, although a  *)
(* rule may leave more nodes than that behind in the graph of its run: the *)
(* copies and the roots do not name them.                                  *)
OutputKept ==
  /\ \A i \in DOMAIN copied : copied[i] <= MaxOutput
  /\ final <= MaxOutput
  /\ \A k \in DOMAIN workingRoots : workingRoots[k] <= MaxOutput
  /\ ~pass.plan => Len(out) <= MaxOutput

LEMMA OutputInRun ==
  ASSUME IInv, Covered, OutputKept, RunStep, UNCHANGED engineVars
  PROVE  OutputKept'
<1>0. /\ pass' = pass /\ workingRoots' = workingRoots
      /\ DOMAIN copied = DOMAIN src /\ copied \in [DOMAIN src -> Nat]
      /\ out \in Graph
  BY RunStepJob DEF engineVars, IInv, TypeOK, RunTypeOK
<1>1. CASE ImportNode
  <2>1. PICK i \in todo : (\A j \in todo : i <= j) /\ ImportAt(i)
    BY <1>1 DEF ImportNode
  <2>2. final' = final
    BY <1>1 DEF ImportNode, subjectVars
  <2>3. CASE UNCHANGED <<out, copied>>
    BY <1>0, <2>2, <2>3 DEF OutputKept
  <2>4. CASE ~UNCHANGED <<out, copied>>
    <3>1. /\ Resolved(src[i].args) /\ Buildable(out, CopyOf(i))
          /\ OutputFits(Len(out) + 1, Len(src))
          /\ out' = Build(out, CopyOf(i)) /\ copied' = [copied EXCEPT ![i] = Len(out')]
      BY <2>1, <2>4 DEF ImportAt
    <3>2. i \in DOMAIN src
      BY DEF IInv, TypeOK, RunTypeOK
    <3>3. CopyOf(i) \in Expr
      BY <3>1, <3>2, CopySound DEF IInv, TypeOK
    <3>4. Len(out') = Len(out) + 1
      BY <1>0, <3>1, <3>3, BuildProperties
    <3>5. Len(out') <= MaxOutput
      BY <3>1, <3>4 DEF OutputFits
    <3> QED
      BY <1>0, <2>2, <3>1, <3>5 DEF OutputKept
  <2> QED
    BY <2>3, <2>4
<1>2. CASE TryRule
  <2>1. PICK o \in Outcomes(Rule, subject, out) :
          \/ Overgrown(o) \/ NoMatch(o) \/ InvalidRewrite(o)
          \/ ReplaceWith(o) \/ RebuildExpression(o)
    BY <1>2 DEF TryRule
  <2>2. pass.plan /\ copied' = copied
    BY <1>2, <2>1 DEF TryRule, Covered, Attempt, Overgrown, NoMatch, InvalidRewrite,
                      ReplaceWith, RebuildExpression
  <2>3. \/ final' = final
        \/ /\ final' = o.node /\ o.node \in DOMAIN o.graph /\ Fits(o)
           /\ o.graph \in Graph
    BY <2>1 DEF Overgrown, NoMatch, InvalidRewrite, ReplaceWith, RebuildExpression,
                AcceptableNode, Attempt, Contract, Outcome
  <2>4. final' <= MaxOutput
    <3>1. CASE final' = final
      BY <3>1 DEF OutputKept
    <3>2. CASE final' = o.node /\ o.node \in DOMAIN o.graph /\ Fits(o) /\ o.graph \in Graph
      <4>1. o.node \in 1..Len(o.graph) /\ Len(o.graph) \in Nat
        BY <3>2 DEF Graph
      <4>2. Len(o.graph) <= MaxOutput
        BY <3>2 DEF Fits, OutputFits
      <4> QED
        BY <3>2, <4>1, <4>2, LimitsAssumption
    <3> QED
      BY <2>3, <3>1, <3>2
  <2> QED
    BY <1>0, <2>2, <2>4 DEF OutputKept
<1>3. CASE KeepOrReplace \/ RebuildNode
  <2>1. pass.plan /\ final' = final
    BY <1>3 DEF KeepOrReplace, RebuildNode, Covered, subjectVars
  <2>2. CASE copied' = copied
    BY <1>0, <2>1, <2>2 DEF OutputKept
  <2>3. CASE copied' # copied
    <3>1. PICK node : Settle(node) /\ node # Old /\ node <= MaxOutput
      <4>1. CASE KeepOrReplace
        BY <2>3, <4>1 DEF KeepOrReplace, OutputKept, Settle
      <4>2. CASE RebuildNode
        <5>1. /\ OutputFits(Len(out) + 1, Len(src)) /\ Buildable(out, subject)
              /\ out' = Build(out, subject) /\ Settle(Len(out'))
          BY <2>3, <4>2 DEF RebuildNode
        <5>2. subject \in Expr
          BY <4>2 DEF RebuildNode, IInv, TypeOK, RunTypeOK
        <5>3. Len(out') = Len(out) + 1
          BY <1>0, <5>1, <5>2, BuildProperties
        <5>4. Len(out') <= MaxOutput
          BY <5>1, <5>3 DEF OutputFits
        <5> QED
          BY <2>3, <5>1, <5>4 DEF Settle
      <4> QED
        BY <1>3, <4>1, <4>2
    <3>2. copied' = [copied EXCEPT ![cur] = node]
      BY <3>1 DEF Settle
    <3> QED
      BY <1>0, <2>1, <3>1, <3>2 DEF OutputKept
  <2> QED
    BY <2>2, <2>3
<1>4. CASE PopSubject
  BY <1>0, <1>4, LimitsAssumption DEF PopSubject, None, OutputKept
<1> QED
  BY <1>0, <1>1, <1>2, <1>3, <1>4
     DEF RunStep, OutputKept, ImportBudgetSpent, SeedQueue, QueueEmpty, DropNode,
         SkipRule, StepBudgetSpent, RulesDone, subjectVars

LEMMA OutputInEngine ==
  ASSUME IInv, OutputKept, EngineStep
  PROVE  OutputKept'
<1>1. CASE StartImport \/ StartPhase \/ StartCompaction
  <2>1. PICK g \in Graph, rs \in Seq(Nat), p \in Pass : StartRun(g, rs, p, nodeRewrites)
    BY <1>1, EngineStarts
  <2>2. workingRoots' = workingRoots
    BY <1>1 DEF StartImport, StartPhase, StartCompaction
  <2>3. copied' = [n \in DOMAIN g |-> None] /\ final' = None /\ out' = <<>>
    BY <2>1 DEF StartRun
  <2>4. None <= MaxOutput /\ Len(out') <= MaxOutput
    BY <2>3, LimitsAssumption DEF None
  <2> QED
    BY <2>2, <2>3, <2>4 DEF OutputKept
<1>2. CASE ~StartImport /\ ~StartPhase /\ ~StartCompaction
  <2>1. UNCHANGED <<pass, out, copied, final>>
    BY <1>2, EngineRests
  <2>2. ASSUME NEW k \in DOMAIN workingRoots'
        PROVE  workingRoots'[k] <= MaxOutput
    <3>1. CASE workingRoots' = workingRoots
      BY <3>1 DEF OutputKept
    <3>2. CASE Adopts
      <4>1. PICK p \in Ascending(KeptRoots) :
              workingRoots' = [m \in DOMAIN p |-> copied[roots[p[m]]]]
        BY <3>2 DEF Adopts
      <4> QED
        BY <4>1, AdoptedRoots DEF OutputKept
    <3> QED
      BY <3>1, <3>2, RootsChange
  <2> QED
    BY <2>1, <2>2 DEF OutputKept
<1> QED
  BY <1>1, <1>2

(* Copies, replacements and roots name no node beyond the output limit, and *)
(* a run without rules appends none there.                                 *)
THEOREM OutputCorrect == Spec => []OutputKept
<1>1. Init => OutputKept
  BY LimitsAssumption DEF Init, OutputKept, None
<1>2. IInv /\ Covered /\ OutputKept /\ [Next]_vars => OutputKept'
  BY OutputInRun, OutputInEngine
     DEF Next, vars, runVars, jobVars, subjectVars, engineVars, OutputKept
<1> QED
  BY <1>1, <1>2, Invariance, CopiesCover, PTL DEF Spec
-----------------------------------------------------------------------------
(* A run without roots copies nothing; so a working graph without roots is *)
(* small, whatever has been rewritten.                                     *)
Rootless ==
  /\ stage # "idle" /\ roots = <<>> => reach = {} /\ out = <<>>
  /\ workingRoots = <<>> => Len(working) <= MaxOutput
  /\ Elements(workingRoots) \subseteq DOMAIN working

LEMMA RootlessInRun ==
  ASSUME IInv, Rootless, RunStep, UNCHANGED engineVars
  PROVE  Rootless'
<1>1. /\ UNCHANGED <<roots, reach, working, workingRoots>> /\ stage # "idle"
  BY RunStepJob, RunStepFrame DEF engineVars, IInv, TypeOK
<1>2. ASSUME roots = <<>> PROVE out' = <<>>
  <2>1. reach = {} /\ out = <<>> /\ stage \notin {"rules", "settle"} /\ todo = {}
    BY <1>1, <1>2 DEF Rootless, IInv, TypeOK, RunTypeOK
  <2> QED
    BY <2>1 DEF RunStep, ImportBudgetSpent, ImportNode, SeedQueue, QueueEmpty, DropNode,
                PopSubject, SkipRule, StepBudgetSpent, TryRule, RulesDone, KeepOrReplace,
                RebuildNode
<1> QED
  BY <1>1, <1>2 DEF Rootless

LEMMA NothingReached ==
  ASSUME NEW g \in Graph, WellFormed(g)
  PROVE  Reachable(g, {}) = {}
<1>1. Reachable(g, {}) \subseteq {}
  BY ReachLeast
<1> QED
  BY <1>1

LEMMA RootlessInEngine ==
  ASSUME IInv, PassLinks, OutputKept, Rootless, EngineStep
  PROVE  Rootless'
<1>1. CASE StartImport \/ StartPhase \/ StartCompaction
  <2>1. PICK g \in Graph, rs \in Seq(Nat), p \in Pass :
          WellFormed(g) /\ StartRun(g, rs, p, nodeRewrites)
    BY <1>1, EngineStarts
  <2>2. UNCHANGED <<working, workingRoots>>
    BY <1>1 DEF StartImport, StartPhase, StartCompaction
  <2>3. ASSUME rs = <<>> PROVE reach' = {}
    <3>1. Elements(rs) = {}
      BY <2>3 DEF Elements
    <3> QED
      BY <2>1, <3>1, NothingReached DEF StartRun
  <2>4. roots' = rs /\ out' = <<>>
    BY <2>1 DEF StartRun
  <2> QED
    BY <2>2, <2>3, <2>4 DEF Rootless
<1>2. CASE ~StartImport /\ ~StartPhase /\ ~StartCompaction
  <2>1. stage' = "idle"
    BY <1>2, EngineRests
  <2>2. CASE UNCHANGED <<working, workingRoots>>
    BY <2>1, <2>2 DEF Rootless
  <2>3. CASE stage = "finish" /\ Adopts
    <3>1. PICK p \in Ascending(KeptRoots) :
            /\ workingRoots' = [k \in DOMAIN p |-> copied[roots[p[k]]]]
            /\ working' = out
            /\ pc = "import" \/ (pc \in {"phase", "compacting"} /\ SameRoots)
      BY <2>3 DEF Adopts
    <3>2. Elements(workingRoots') \subseteq DOMAIN working'
      BY <3>1, AdoptedRoots DEF Elements
    <3>3. ASSUME workingRoots' = <<>> PROVE Len(working') <= MaxOutput
      <4>1. CASE pc \in {"import", "compacting"}
        BY <3>1, <4>1 DEF PassLinks, ImportPass, CompactionPass, OutputKept
      <4>2. CASE pc = "phase" /\ SameRoots
        <5>1. roots = workingRoots /\ roots \in Seq(Nat)
          BY <4>2 DEF IInv, EngineLinks, TypeOK, RunTypeOK
        <5>2. KeptRoots \subseteq 1..Len(roots) /\ Len(roots) \in Nat
          BY <5>1 DEF KeptRoots
        <5>3. DOMAIN p = 1..Cardinality(KeptRoots)
          BY <5>2, AscendingType
        <5>4. DOMAIN p = {}
          BY <3>1, <3>3
        <5>5. Len(roots) = 0
          BY <4>2, <5>1, <5>2, <5>3, <5>4 DEF SameRoots
        <5>6. roots = <<>>
          BY <5>1, <5>5
        <5> QED
          BY <2>3, <3>1, <5>6, LimitsAssumption DEF Rootless
      <4> QED
        BY <3>1, <4>1, <4>2
    <3> QED
      BY <2>1, <3>2, <3>3 DEF Rootless
  <2> QED
    BY <2>2, <2>3, RootsChange
<1> QED
  BY <1>1, <1>2

(* A run without roots copies nothing, so a graph adopted without roots    *)
(* stays within the output limit.                                          *)
THEOREM RootlessSmall == Spec => []Rootless
<1>1. Init => Rootless
  BY LimitsAssumption DEF Init, Rootless, Elements
<1>2. IInv /\ PassLinks /\ OutputKept /\ Rootless /\ [Next]_vars => Rootless'
  BY RootlessInRun, RootlessInEngine
     DEF Next, vars, runVars, jobVars, engineVars, Rootless
<1> QED
  BY <1>1, <1>2, Invariance, PassLinked, OutputCorrect, PTL DEF Spec

-----------------------------------------------------------------------------
(* Compaction copies what the working roots reach, and the output never    *)
(* gets ahead of the source: no limit is in its way.                       *)
Compacts ==
  /\ ~pass.plan /\ stage # "idle" => \A j \in todo : Len(out) < j
  /\ pc = "compacting" => runStatus = "complete"

LEMMA ReachKept ==
  ASSUME IInv, Covered, OutputKept, pc = "compacting", stage # "idle",
         runStatus = "complete"
  PROVE  \A i \in reach : i <= MaxOutput
<1>1. /\ src \in Graph /\ WellFormed(src) /\ roots = workingRoots
      /\ reach = Reachable(src, Elements(roots)) /\ Len(src) \in Nat /\ DOMAIN src = 1..Len(src)
  BY DEF IInv, TypeOK, RunTypeOK, RunInv, EngineLinks, Covered, Graph
<1> DEFINE S == {n \in DOMAIN src : n <= MaxOutput}
<1>2. Elements(roots) \cap DOMAIN src \subseteq S
  BY <1>1 DEF OutputKept, Elements
<1>3. ASSUME NEW m \in reach \cap S, NEW n \in Elements(src[m].args)
      PROVE  n \in S
  <2>1. n \in DOMAIN src /\ n \in Nat /\ m \in (n + 1)..Len(src)
    BY <1>1, OperandsEarlier
  <2> QED
    BY <2>1, <1>1, LimitsAssumption
<1>4. reach \subseteq S
  BY <1>1, <1>2, <1>3, ReachLeast
<1> QED
  BY <1>4

LEMMA CompactsInImport ==
  ASSUME IInv, Covered, PassLinks, OutputKept, Compacts, ImportNode, UNCHANGED engineVars
  PROVE  Compacts'
<1>1. PICK i \in todo : (\A j \in todo : i <= j) /\ ImportAt(i)
  BY DEF ImportNode
<1>2. /\ stage = "import" /\ stage' = stage /\ UNCHANGED <<src, reach, pass>> /\ pc' = pc
  BY DEF ImportNode, jobVars, engineVars
<1>3. /\ src \in Graph /\ out \in Graph /\ i \in reach /\ i \in DOMAIN src
      /\ todo \subseteq DOMAIN src
  BY DEF IInv, TypeOK, RunTypeOK
<1>4. DOMAIN src = 1..Len(src) /\ Len(src) \in Nat /\ Len(out) \in Nat
  BY <1>3 DEF Graph
<1>5. CASE UNCHANGED <<out, copied>> /\ todo' = {}
  <2>1. ASSUME pc = "compacting" PROVE FALSE
    <3>1. /\ runStatus = "complete" /\ ~pass.plan
      BY <2>1 DEF Compacts, PassLinks, CompactionPass
    <3>2. Resolved(src[i].args)
      BY <1>1, <1>2, <3>1, NextResolved
    <3>3. Len(out) < i /\ i <= MaxOutput
      BY <1>2, <1>3, <2>1, <3>1, ReachKept DEF Compacts
    <3>4. OutputFits(Len(out) + 1, Len(src))
      BY <1>3, <1>4, <3>3, LimitsAssumption DEF OutputFits
    <3>5. Buildable(out, CopyOf(i))
      BY <1>3, <3>2, CopySound DEF IInv, TypeOK
    <3>6. copied' = [copied EXCEPT ![i] = Len(out')] /\ out' = Build(out, CopyOf(i))
      BY <1>1, <3>2, <3>4, <3>5 DEF ImportAt
    <3>7. Len(out') = Len(out) + 1
      BY <1>3, <3>2, <3>5, <3>6, CopySound, BuildProperties DEF IInv, TypeOK
    <3> QED
      BY <1>4, <1>5, <3>7
  <2> QED
    BY <1>2, <1>5, <2>1 DEF Compacts
<1>6. CASE /\ Resolved(src[i].args) /\ Buildable(out, CopyOf(i))
           /\ out' = Build(out, CopyOf(i)) /\ todo' = todo \ {i} /\ runStatus' = runStatus
  <2>1. Len(out') = Len(out) + 1
    BY <1>3, <1>6, CopySound, BuildProperties DEF IInv, TypeOK
  <2>2. ASSUME ~pass.plan, NEW j \in todo'
        PROVE  Len(out') < j
    <3>1. i <= j /\ i # j /\ Len(out) < i /\ j \in DOMAIN src
      BY <1>1, <1>2, <1>3, <1>6, <2>2 DEF Compacts
    <3> QED
      BY <1>3, <1>4, <2>1, <3>1
  <2> QED
    BY <1>2, <1>6, <2>2 DEF Compacts
<1> QED
  BY <1>1, <1>5, <1>6 DEF ImportAt

LEMMA CompactsInRun ==
  ASSUME IInv, Covered, PassLinks, OutputKept, Compacts, RunStep, UNCHANGED engineVars
  PROVE  Compacts'
<1>1. pass' = pass /\ pc' = pc /\ stage # "idle"
  BY RunStepJob, RunStepFrame DEF engineVars, IInv, TypeOK
<1>2. CASE ImportNode
  BY <1>2, CompactsInImport
<1>3. CASE ImportBudgetSpent
  BY <1>1, <1>3 DEF ImportBudgetSpent, Compacts, PassLinks, CompactionPass
<1>4. CASE SeedQueue
  BY <1>1, <1>4 DEF SeedQueue, Compacts
<1>5. CASE ~ImportNode /\ ~ImportBudgetSpent /\ ~SeedQueue /\ pass.plan
  <2>1. pc # "compacting"
    BY <1>5 DEF PassLinks, CompactionPass
  <2> QED
    BY <1>1, <1>5, <2>1 DEF Compacts
<1>6. CASE ~ImportNode /\ ~ImportBudgetSpent /\ ~SeedQueue /\ ~pass.plan
  <2>1. stage \in {"pop", "rules", "settle"}
    BY <1>6 DEF RunStep, QueueEmpty, DropNode, PopSubject, SkipRule, StepBudgetSpent, TryRule,
                RulesDone, KeepOrReplace, RebuildNode
  <2> QED
    BY <1>6, <2>1 DEF Covered
<1> QED
  BY <1>2, <1>3, <1>4, <1>5, <1>6

LEMMA CompactsInEngine ==
  ASSUME IInv, Rootless, Compacts, EngineStep
  PROVE  Compacts'
<1>1. CASE StartImport \/ StartPhase \/ StartCompaction
  <2>1. PICK g \in Graph, rs \in Seq(Nat), p \in Pass :
          /\ StartRun(g, rs, p, nodeRewrites)
          /\ StartCompaction => g = working /\ rs = workingRoots
    BY <1>1, EngineStarts
  <2>2. reach' \subseteq DOMAIN g /\ todo' = reach' /\ out' = <<>>
    BY <2>1 DEF StartRun, Reachable
  <2>3. \A j \in todo' : Len(out') < j
    BY <2>2 DEF Graph
  <2>4. ASSUME pc' = "compacting" PROVE runStatus' = "complete"
    <3>1. StartCompaction
      BY <1>1, <2>4 DEF StartImport, StartPhase
    <3> QED
      BY <2>1, <3>1 DEF StartRun, ValidRoots, Rootless
  <2> QED
    BY <2>3, <2>4 DEF Compacts
<1>2. CASE ~StartImport /\ ~StartPhase /\ ~StartCompaction
  <2>1. stage' = "idle"
    BY <1>2, EngineRests
  <2>2. pc' # "compacting"
    BY <1>2, <2>1 DEF EngineStep, Reject, AfterImport, SkipPlan, PhaseBudgetSpent,
                AfterStoppedPhase, AfterStablePhase, AfterChangedPhase, EndSequence,
                NothingToCompact, AfterCompaction
  <2> QED
    BY <2>1, <2>2 DEF Compacts
<1> QED
  BY <1>1, <1>2

(* The final worklist.run of engine::canonicalize never stops early: no    *)
(* budget is in the way of compaction.                                     *)
THEOREM CompactionCompletes == Spec => []Compacts
<1>1. Init => Compacts
  BY DEF Init, Compacts
<1>2. IInv /\ Covered /\ PassLinks /\ OutputKept /\ Rootless /\ Compacts /\ [Next]_vars => Compacts'
  BY CompactsInRun, CompactsInEngine
     DEF Next, vars, runVars, jobVars, engineVars, Compacts
<1> QED
  BY <1>1, <1>2, Invariance, CopiesCover, PassLinked, OutputCorrect, RootlessSmall, PTL DEF Spec
-----------------------------------------------------------------------------
(* A complete run keeps every root, in order.                              *)
LEMMA AllRootsKept ==
  ASSUME IInv, Covered, stage = "finish", runStatus = "complete"
  PROVE  KeptRoots = 1..Len(roots)
<1>1. /\ src \in Graph /\ WellFormed(src) /\ roots \in Seq(Nat)
      /\ copied \in [DOMAIN src -> Nat]
  BY DEF IInv, TypeOK, RunTypeOK, RunInv
<1>2. Elements(roots) \subseteq reach /\ Elements(roots) \subseteq DOMAIN src /\ todo = {}
  BY <1>1, ReachClosed DEF Covered
<1>3. \A k \in DOMAIN roots : roots[k] \in DOMAIN copied /\ copied[roots[k]] # None
  BY <1>1, <1>2 DEF Covered, Elements
<1>4. KeptRoots = DOMAIN roots
  BY <1>3 DEF KeptRoots
<1> QED
  BY <1>1, <1>4

(* So does a run whose roots are as many as before, complete or not.       *)
LEMMA SameRootsKept ==
  ASSUME IInv, pc \in {"phase", "compacting"}, SameRoots
  PROVE  KeptRoots = 1..Len(roots)
<1>1. roots = workingRoots /\ roots \in Seq(Nat)
  BY DEF IInv, EngineLinks, TypeOK, RunTypeOK
<1>2. KeptRoots \in SUBSET (1..Len(roots)) /\ Len(roots) \in Nat
  BY <1>1 DEF KeptRoots
<1> QED
  BY <1>1, <1>2, AllKept DEF SameRoots

(* When every root is kept they keep their places.                         *)
LEMMA RootsInPlace ==
  ASSUME IInv, KeptRoots = 1..Len(roots), NEW p \in Ascending(KeptRoots)
  PROVE  /\ DOMAIN p = DOMAIN roots /\ Len(p) = Len(roots)
         /\ \A k \in DOMAIN p : p[k] = k
<1>1. roots \in Seq(Nat) /\ Len(roots) \in Nat /\ DOMAIN roots = 1..Len(roots)
  BY DEF IInv, TypeOK, RunTypeOK
<1>2. p \in [1..Len(roots) -> 1..Len(roots)] /\ Len(p) = Len(roots)
      /\ \A k \in 1..Len(roots) : p[k] = k
  BY <1>1, AllInOrder
<1> QED
  BY <1>1, <1>2

(* A compaction that is over has kept every root.                          *)
LEMMA CompactionKeepsRoots ==
  ASSUME IInv, Covered, Compacts, pc = "compacting", stage = "finish"
  PROVE  SameRoots
<1>1. KeptRoots = 1..Len(roots) /\ roots = workingRoots /\ Len(roots) \in Nat
  BY AllRootsKept DEF Compacts, IInv, EngineLinks, TypeOK, RunTypeOK
<1> QED
  <2>1. \A n \in Nat : Cardinality(1..n) = n
    BY FS_Interval
  <2> QED
    BY <1>1, <2>1 DEF SameRoots

(* The result is no larger than the output limit.                          *)
ResultSmall == pc = "done" => Len(working) <= MaxOutput

LEMMA ResultSmallStep ==
  ASSUME IInv, Covered, PassLinks, OutputKept, Rootless, Compacts, ResultSmall, Next
  PROVE  ResultSmall'
<1>1. CASE RunStep /\ UNCHANGED engineVars
  BY <1>1 DEF engineVars, ResultSmall
<1>2. CASE EngineStep /\ pc' = "done"
  <2>1. Reject \/ NothingToCompact \/ AfterCompaction
    BY <1>2 DEF EngineStep, StartImport, AfterImport, SkipPlan, PhaseBudgetSpent, StartPhase,
                AfterStoppedPhase, AfterStablePhase, AfterChangedPhase, EndSequence,
                StartCompaction, IInv, TypeOK
  <2>2. CASE Reject \/ NothingToCompact
    BY <2>2 DEF Reject, NothingToCompact, PassLinks, Rootless, ResultSmall
  <2>3. CASE AfterCompaction
    <3>1. pc = "compacting" /\ stage = "finish"
      BY <2>3 DEF AfterCompaction, RunOver
    <3>2. working' = out
      BY <2>3, <3>1, CompactionKeepsRoots, AlwaysComposable DEF AfterCompaction, Adopt
    <3> QED
      BY <3>1, <3>2 DEF PassLinks, CompactionPass, OutputKept, ResultSmall
  <2> QED
    BY <2>1, <2>2, <2>3
<1> QED
  BY <1>1, <1>2 DEF Next, ResultSmall

(* Every budget holds in every call, also for what a stopped run left      *)
(* adopted, and the result is no larger than it may be.                    *)
THEOREM BudgetsHold == Spec => []WithinBudgets
<1>1. Init => ResultSmall
  BY DEF Init, ResultSmall
<1>2. IInv /\ Covered /\ PassLinks /\ OutputKept /\ Rootless /\ Compacts /\ ResultSmall
        /\ [Next]_vars => ResultSmall'
  BY ResultSmallStep DEF vars, engineVars, ResultSmall
<1>3. CountersKept /\ OutputKept /\ ResultSmall => WithinBudgets
  BY DEF CountersKept, OutputKept, ResultSmall, WithinBudgets
<1> QED
  BY <1>1, <1>2, <1>3, Invariance, CopiesCover, PassLinked, OutputCorrect, RootlessSmall,
     CompactionCompletes, CountersCorrect, PTL DEF Spec

-----------------------------------------------------------------------------
(* A diagnostic is emitted with every status other than complete.          *)
Codes == {"validation", "invalid_root", "import_budget", "output_budget", "builder",
          "worklist_budget", "rewrite_budget", "phase_iteration_budget",
          "invalid_rewrite", "invalid_replacement", "non_progressing_rewrite",
          "oscillation", "unresolved_compose"}

Explained ==
  /\ diagnostics \in Seq(Codes)
  /\ diagnostics = <<>>
       <=> status = "complete" /\ (stage # "idle" => runStatus = "complete")

(* A status of its own comes with a diagnostic.                            *)
Reports ==
  \/ UNCHANGED <<diagnostics, runStatus>>
  \/ runStatus' # "complete" /\ \E code \in Codes : Diagnose(code)

LEMMA ReportsInRun ==
  ASSUME RunStep
  PROVE  Reports
<1> USE DEF Reports, Stop, Codes
<1>1. CASE ImportBudgetSpent \/ StepBudgetSpent
  BY <1>1 DEF ImportBudgetSpent, StepBudgetSpent
<1>2. CASE ImportNode
  BY <1>2 DEF ImportNode, ImportAt
<1>3. CASE SeedQueue \/ QueueEmpty \/ DropNode \/ PopSubject \/ SkipRule \/ RulesDone
  BY <1>3 DEF SeedQueue, QueueEmpty, DropNode, PopSubject, SkipRule, RulesDone
<1>4. CASE TryRule
  <2>1. PICK o \in Outcomes(Rule, subject, out) :
          \/ Overgrown(o) \/ NoMatch(o) \/ InvalidRewrite(o)
          \/ ReplaceWith(o) \/ RebuildExpression(o)
    BY <1>4 DEF TryRule
  <2>2. CASE Overgrown(o) \/ NoMatch(o) \/ InvalidRewrite(o) \/ ReplaceWith(o)
    BY <2>2 DEF Overgrown, NoMatch, InvalidRewrite, ReplaceWith
  <2>3. CASE RebuildExpression(o)
    <3>1. RebuildFailure(o) \in {<<>>, <<"internal_failure", "non_progressing_rewrite">>,
                                 <<"resource_exhausted", "oscillation">>,
                                 <<"resource_exhausted", "rewrite_budget">>}
      BY DEF RebuildFailure
    <3> QED
      BY <2>3, <3>1 DEF RebuildExpression
  <2> QED
    BY <2>1, <2>2, <2>3
<1>5. CASE KeepOrReplace \/ RebuildNode
  BY <1>5 DEF KeepOrReplace, RebuildNode, Settle
<1> QED
  BY <1>1, <1>2, <1>3, <1>4, <1>5 DEF RunStep

LEMMA DiagnosedOnce ==
  ASSUME Explained, NEW code \in Codes, Diagnose(code)
  PROVE  diagnostics' \in Seq(Codes) /\ diagnostics' # <<>>
BY DEF Explained, Diagnose

LEMMA ExplainedInRun ==
  ASSUME IInv, Explained, RunStep, UNCHANGED engineVars
  PROVE  Explained'
<1>1. stage # "idle" /\ stage' # "idle" /\ status' = status
  BY RunStepFrame DEF engineVars, IInv, TypeOK
<1>2. CASE UNCHANGED <<diagnostics, runStatus>>
  BY <1>1, <1>2 DEF Explained
<1>3. CASE runStatus' # "complete" /\ \E code \in Codes : Diagnose(code)
  BY <1>1, <1>3, DiagnosedOnce DEF Explained
<1> QED
  BY <1>2, <1>3, ReportsInRun DEF Reports

(* validate_graph accepts every graph a run builds.                        *)
LEMMA ResultIsRunStatus ==
  ASSUME IInv PROVE ResultStatus = runStatus
BY DEF IInv, RunInv, WellFormed, Validates, ResultStatus

LEMMA ExplainedInEngine ==
  ASSUME IInv, Explained, EngineStep, Covered, Compacts
  PROVE  Explained'
<1>1. CASE StartImport \/ StartPhase \/ StartCompaction
  <2>1. PICK g \in Graph, rs \in Seq(Nat), p \in Pass : StartRun(g, rs, p, nodeRewrites)
    BY <1>1, EngineStarts
  <2>2. status' = status /\ stage = "idle"
    BY <1>1, <2>1 DEF StartImport, StartPhase, StartCompaction, StartRun
  <2>3. \/ /\ stage' = "import" /\ runStatus' = "complete" /\ diagnostics' = diagnostics
        \/ /\ stage' = "finish" /\ runStatus' = "invalid_input" /\ Diagnose("invalid_root")
    BY <2>1 DEF StartRun, Stop
  <2>4. "invalid_root" \in Codes
    BY DEF Codes
  <2> QED
    BY <2>2, <2>3, <2>4, DiagnosedOnce DEF Explained
<1>2. CASE AfterImport \/ AfterStoppedPhase \/ AfterCompaction
  <2>1. stage = "finish" /\ stage' = "idle" /\ diagnostics' = diagnostics
    BY <1>2, AlwaysComposable DEF AfterImport, AfterStoppedPhase, AfterCompaction, RunOver
  <2>2. status' = MergedStatus(status, runStatus)
    <3>1. CASE AfterImport \/ AfterStoppedPhase
      BY <3>1, AlwaysComposable, ResultIsRunStatus DEF AfterImport, AfterStoppedPhase
    <3>2. CASE AfterCompaction
      <4>1. pc = "compacting" /\ SameRoots /\ Composable(mapping, copied) /\ working' = out
        BY <2>1, <3>2, CompactionKeepsRoots, AlwaysComposable DEF AfterCompaction, Adopt
      <4>2. Validates(out)
        BY DEF IInv, RunInv, WellFormed, Validates
      <4> QED
        BY <3>2, <4>1, <4>2, ResultIsRunStatus DEF AfterCompaction
    <3> QED
      BY <1>2, <3>1, <3>2
  <2>3. MergedStatus(status, runStatus) = "complete"
          <=> status = "complete" /\ runStatus = "complete"
    BY DEF MergedStatus, IInv, TypeOK, RunTypeOK, Statuses
  <2> QED
    BY <2>1, <2>2, <2>3 DEF Explained
<1>3. CASE AfterStablePhase \/ AfterChangedPhase
  BY <1>3, AlwaysComposable, ResultIsRunStatus
     DEF AfterStablePhase, AfterChangedPhase, RunOver, Explained
<1>4. CASE Reject \/ PhaseBudgetSpent
  <2>1. stage' = stage /\ stage = "idle"
    BY <1>4 DEF Reject, PhaseBudgetSpent, IInv, EngineLinks
  <2>2. /\ status' # "complete"
        /\ \E code \in Codes : Diagnose(code)
    BY <1>4 DEF Reject, PhaseBudgetSpent, Codes
  <2> QED
    BY <2>1, <2>2, DiagnosedOnce DEF Explained
<1>5. CASE SkipPlan \/ EndSequence \/ NothingToCompact
  <2>1. Validates(working)
    BY DEF IInv, EngineLinks, WellFormed, Validates
  <2> QED
    BY <1>5, <2>1 DEF SkipPlan, EndSequence, NothingToCompact, runVars, Explained
<1> QED
  BY <1>1, <1>2, <1>3, <1>4, <1>5 DEF EngineStep

(* A call has diagnostics exactly when its status is not complete: no      *)
(* failure is silent and no success carries an error.                      *)
THEOREM StatusExact == Spec => [](Explained /\ StatusExplained)
<1>1. Init => Explained
  BY DEF Init, Explained
<1>2. IInv /\ Covered /\ Compacts /\ Explained /\ [Next]_vars => Explained'
  BY ExplainedInRun, ExplainedInEngine DEF Next, vars, runVars, engineVars, Explained
<1>3. IInv /\ Explained => StatusExplained
  BY DEF IInv, EngineLinks, Explained, StatusExplained
<1> QED
  BY <1>1, <1>2, <1>3, Invariance, CopiesCover, CompactionCompletes, PTL DEF Spec
-----------------------------------------------------------------------------
(* The trace: up to the checkpoint it holds events of adopted runs, beyond *)
(* it those of the phase run in progress.                                  *)
Numbered ==
  /\ nextSequence = Len(trace)
  /\ \A k \in DOMAIN trace : trace[k].sequence = k - 1

Traced ==
  /\ Numbered
  /\ pc # "phase" => \A k \in DOMAIN trace : trace[k].iteration \in adopted
  /\ pc = "phase" =>
       /\ checkpoint.sequence = checkpoint.events
       /\ \A k \in DOMAIN trace :
            trace[k].iteration \in adopted \/ (k > checkpoint.events
                                               /\ trace[k].iteration = iterations)

LEMMA SettleNumbered ==
  ASSUME IInv, Numbered, NEW node, Settle(node)
  PROVE  /\ Numbered'
         /\ \A k \in DOMAIN trace' :
              \/ k \in DOMAIN trace /\ trace'[k] = trace[k]
              \/ k > Len(trace) /\ trace'[k].iteration = iterations
<1>1. applied \in Seq(Rules) /\ trace \in Seq(Event) /\ nextSequence = Len(trace)
  BY DEF IInv, TypeOK, RunTypeOK, Numbered
<1>2. CASE UNCHANGED <<trace, nextSequence>>
  BY <1>2 DEF Numbered
<1>3. CASE trace' = trace \o AppliedEvents /\ nextSequence' = nextSequence + Len(applied)
  <2> DEFINE m == Len(trace)
             n == Len(applied)
  <2>1. m \in Nat /\ n \in Nat /\ DOMAIN trace = 1..m /\ DOMAIN applied = 1..n
    BY <1>1
  <2>2. AppliedEvents = [k \in 1..n |->
          [sequence |-> m + k - 1, rule |-> applied[k], iteration |-> iterations]]
    BY <1>1, <2>1 DEF AppliedEvents
  <2>3. AppliedEvents \in Seq(Event) /\ Len(AppliedEvents) = n
    <3>1. \A k \in 1..n : [sequence |-> m + k - 1, rule |-> applied[k],
                           iteration |-> iterations] \in Event
      <4>1. iterations \in Nat /\ applied \in Seq(Rules)
        BY DEF IInv, TypeOK, RunTypeOK
      <4>2. \A k \in 1..n : applied[k] \in Rules
        BY <2>1, <4>1
      <4> HIDE DEF m, n
      <4>3. \A k \in 1..n : m + k - 1 \in Nat
        BY <2>1
      <4> QED
        BY <4>1, <4>2, <4>3 DEF Event
    <3> HIDE DEF m, n
    <3> QED
      BY <2>1, <2>2, <3>1
  <2>4. /\ Len(trace') = m + n
        /\ \A k \in 1..(m + n) :
             trace'[k] = IF k <= m THEN trace[k] ELSE AppliedEvents[k - m]
    BY <1>1, <1>3, <2>3
  <2>5. DOMAIN trace' = 1..(m + n)
    <3>1. trace' \in Seq(Event)
      BY <1>1, <1>3, <2>3
    <3> QED
      BY <2>4, <3>1
  <2> HIDE DEF m, n
  <2>6. nextSequence' = Len(trace')
    BY <1>1, <1>3, <2>4 DEF m, n
  <2>7. ASSUME NEW k \in DOMAIN trace'
        PROVE  /\ trace'[k].sequence = k - 1
               /\ \/ k \in DOMAIN trace /\ trace'[k] = trace[k]
                  \/ k > m /\ trace'[k].iteration = iterations
    <3>1. CASE k <= m
      <4>1. k \in DOMAIN trace /\ trace'[k] = trace[k]
        BY <2>1, <2>4, <2>5, <3>1
      <4> QED
        BY <4>1 DEF Numbered
    <3>2. CASE ~(k <= m)
      <4>1. k - m \in 1..n /\ k > m /\ trace'[k] = AppliedEvents[k - m] /\ k \in Nat
        BY <2>1, <2>4, <2>5, <3>2
      <4>2. trace'[k].sequence = m + (k - m) - 1 /\ trace'[k].iteration = iterations
        BY <2>2, <4>1
      <4>3. m + (k - m) - 1 = k - 1
        BY <2>1, <4>1
      <4> QED
        BY <4>1, <4>2, <4>3
    <3> QED
      BY <3>1, <3>2
  <2> QED
    BY <2>6, <2>7 DEF Numbered, m
<1> QED
  BY <1>2, <1>3 DEF Settle, traceVars

LEMMA TracedInRun ==
  ASSUME IInv, Covered, PassLinks, Traced, RunStep, UNCHANGED engineVars
  PROVE  Traced'
<1>1. /\ UNCHANGED <<pc, checkpoint, adopted, iterations>> /\ stage # "idle"
  BY RunStepFrame DEF engineVars, IInv, TypeOK
<1>2. CASE UNCHANGED <<trace, nextSequence>>
  BY <1>1, <1>2 DEF Traced, Numbered
<1>3. CASE \E node : Settle(node) /\ stage = "settle"
  <2>1. PICK node : Settle(node)
    BY <1>3
  <2>2. pc = "phase"
    BY <1>1, <1>3 DEF Covered, PassLinks, ImportPass, CompactionPass, IInv, TypeOK, EngineLinks
  <2>3. checkpoint.events \in Nat /\ checkpoint.events <= Len(trace) /\ Len(trace) \in Nat
    BY <2>2 DEF IInv, EngineLinks, TypeOK, RunTypeOK
  <2>4. /\ Numbered'
        /\ \A k \in DOMAIN trace' :
              \/ k \in DOMAIN trace /\ trace'[k] = trace[k]
              \/ k > Len(trace) /\ trace'[k].iteration = iterations
    BY <2>1, SettleNumbered DEF Traced
  <2>5. ASSUME NEW k \in DOMAIN trace', k > Len(trace)
        PROVE  k > checkpoint.events
    <3>1. k \in Nat
      <4>1. trace' \in Seq(Event)
        BY <2>1, SettleTrace DEF IInv, TypeOK
      <4> QED
        BY <4>1
    <3> QED
      BY <2>3, <2>5, <3>1
  <2> QED
    BY <1>1, <2>2, <2>4, <2>5 DEF Traced
<1>4. UNCHANGED <<trace, nextSequence>> \/ \E node : Settle(node) /\ stage = "settle"
  <2> USE DEF traceVars
  <2>1. CASE TryRule
    BY <2>1 DEF TryRule, Overgrown, NoMatch, InvalidRewrite, ReplaceWith, RebuildExpression,
                Attempt
  <2>2. CASE KeepOrReplace \/ RebuildNode
    BY <2>2 DEF KeepOrReplace, RebuildNode
  <2>3. CASE ImportNode
    BY <2>3 DEF ImportNode
  <2> QED
    BY <2>1, <2>2, <2>3
       DEF RunStep, ImportBudgetSpent, SeedQueue, QueueEmpty, DropNode, PopSubject,
           SkipRule, StepBudgetSpent, RulesDone
<1> QED
  BY <1>2, <1>3, <1>4

LEMMA RollbackTraced ==
  ASSUME IInv, Traced, pc = "phase", Rollback
  PROVE  Numbered' /\ \A k \in DOMAIN trace' : trace'[k].iteration \in adopted
<1> DEFINE e == checkpoint.events
<1>1. e \in Nat /\ e <= Len(trace) /\ trace \in Seq(Event) /\ Len(trace) \in Nat
  BY DEF IInv, EngineLinks, TypeOK, RunTypeOK
<1>2. trace' = SubSeq(trace, 1, e) /\ nextSequence' = e
  BY DEF Rollback, Traced
<1> HIDE DEF e
<1>3. /\ trace' \in Seq(Event) /\ Len(trace') = e
      /\ \A k \in 1..e : trace'[k] = trace[k] /\ k \in DOMAIN trace /\ ~(k > e)
  BY <1>1, <1>2
<1> QED
  BY <1>1, <1>2, <1>3 DEF Traced, Numbered, e

LEMMA TracedInEngine ==
  ASSUME IInv, Traced, EngineStep
  PROVE  Traced'
<1>1. CASE StartImport \/ StartCompaction
  <2>1. /\ UNCHANGED <<trace, nextSequence, adopted>>
        /\ pc # "phase" /\ pc' # "phase"
    BY <1>1 DEF StartImport, StartCompaction, StartRun, traceVars
  <2> QED
    BY <2>1 DEF Traced, Numbered
<1>2. CASE StartPhase
  <2>1. /\ UNCHANGED <<trace, nextSequence, adopted>> /\ checkpoint' = Mark
        /\ pc # "phase" /\ pc' = "phase"
    BY <1>2 DEF StartPhase, StartRun, traceVars
  <2> QED
    BY <2>1 DEF Traced, Numbered, Mark
<1>3. CASE \/ Reject \/ AfterImport \/ SkipPlan \/ PhaseBudgetSpent
           \/ EndSequence \/ NothingToCompact \/ AfterCompaction
  <2>1. /\ UNCHANGED <<trace, nextSequence, adopted>>
        /\ pc # "phase" /\ pc' # "phase"
    BY <1>3 DEF Reject, AfterImport, SkipPlan, PhaseBudgetSpent, EndSequence,
                NothingToCompact, AfterCompaction, traceVars, runVars
  <2> QED
    BY <2>1 DEF Traced, Numbered
<1>4. CASE AfterStoppedPhase \/ AfterStablePhase \/ AfterChangedPhase
  <2>1. /\ pc = "phase" /\ pc' = "plans"
        /\ \/ Rollback /\ adopted' = adopted
           \/ UNCHANGED <<trace, nextSequence>> /\ adopted' = adopted \cup {iterations}
    BY <1>4 DEF AfterStoppedPhase, AfterStablePhase, AfterChangedPhase, traceVars
  <2>2. CASE Rollback /\ adopted' = adopted
    BY <2>1, <2>2, RollbackTraced DEF Traced
  <2>3. CASE UNCHANGED <<trace, nextSequence>> /\ adopted' = adopted \cup {iterations}
    BY <2>1, <2>3 DEF Traced, Numbered
  <2> QED
    BY <2>1, <2>2, <2>3
<1> QED
  BY <1>1, <1>2, <1>3, <1>4 DEF EngineStep

(* The trace is numbered without gaps and has events of adopted iterations *)
(* only: the events of a discarded run are cut off again.                  *)
THEOREM TraceExact == Spec => [](Traced /\ TraceMatchesAdoption)
<1>1. Init => Traced
  BY DEF Init, Traced, Numbered
<1>2. IInv /\ Covered /\ PassLinks /\ Traced /\ [Next]_vars => Traced'
  BY TracedInRun, TracedInEngine
     DEF Next, vars, runVars, traceVars, budgetVars, engineVars, Traced, Numbered
<1>3. Traced => TraceMatchesAdoption
  BY DEF Traced, Numbered, TraceMatchesAdoption
<1> QED
  BY <1>1, <1>2, <1>3, Invariance, CopiesCover, PassLinked, PTL DEF Spec
-----------------------------------------------------------------------------
(* The roots.                                                              *)
RootsPlaced ==
  pc \notin {"validate", "import"} /\ call.accepted =>
    /\ \A j, k \in DOMAIN positions : j < k => positions[j] < positions[k]
    /\ \A k \in DOMAIN positions :
         /\ positions[k] \in DOMAIN call.roots
         /\ call.roots[positions[k]] \in DOMAIN call.graph
         /\ workingRoots[k] = mapping[call.roots[positions[k]]]
         /\ workingRoots[k] # None
    /\ status = "complete" => Len(positions) = Len(call.roots)

LEMMA ComposedEntry ==
  ASSUME IInv, pc \in {"phase", "compacting"}, NEW n \in DOMAIN call.graph,
         mapping[n] # None
  PROVE  Composed(mapping, copied)[n] = copied[mapping[n]]
<1>1. call.graph \in Graph /\ DOMAIN mapping = DOMAIN call.graph
  BY CallType DEF IInv, TypeOK
<1>2. \A m \in 1..n : m \in DOMAIN mapping
  BY <1>1 DEF Graph
<1>3. ~\E m \in 1..n : Uncovered(mapping, copied, m)
  BY <1>2, AlwaysComposable DEF Composable
<1> QED
  BY <1>1, <1>3 DEF Composed

(* Adopting a run's graph leaves every root in its place.                  *)
LEMMA AdoptInPlace ==
  ASSUME IInv, Adopts, pc \in {"phase", "compacting"}
  PROVE  /\ positions' = positions /\ DOMAIN workingRoots' = DOMAIN workingRoots
         /\ mapping' = Composed(mapping, copied) /\ working' = out
         /\ \A k \in DOMAIN workingRoots :
              workingRoots'[k] = copied[workingRoots[k]] /\ workingRoots'[k] # None
<1>1. roots = workingRoots /\ positions \in Seq(Nat) /\ DOMAIN positions = DOMAIN roots
  BY DEF IInv, EngineLinks, TypeOK
<1>2. PICK p \in Ascending(KeptRoots) :
        /\ workingRoots' = [k \in DOMAIN p |-> copied[roots[p[k]]]] /\ working' = out
        /\ SameRoots /\ positions' = [k \in DOMAIN p |-> positions[p[k]]]
        /\ mapping' = Composed(mapping, copied)
  BY DEF Adopts
<1>3. DOMAIN p = DOMAIN roots /\ \A k \in DOMAIN p : p[k] = k
  BY <1>2, SameRootsKept, RootsInPlace
<1>4. positions' = [k \in DOMAIN positions |-> positions[k]]
  BY <1>1, <1>2, <1>3
<1>5. positions' = positions
  BY <1>1, <1>4
<1>6. ASSUME NEW k \in DOMAIN workingRoots
      PROVE  workingRoots'[k] = copied[workingRoots[k]] /\ workingRoots'[k] # None
  BY <1>1, <1>2, <1>3, AdoptedRoots
<1> QED
  BY <1>1, <1>2, <1>3, <1>5, <1>6

(* No step makes an incomplete call complete again.                        *)
LEMMA StatusFalls ==
  ASSUME IInv, EngineStep, status' = "complete"
  PROVE  status = "complete"
BY DEF EngineStep, Reject, StartImport, AfterImport, SkipPlan, PhaseBudgetSpent, StartPhase,
       AfterStoppedPhase, AfterStablePhase, AfterChangedPhase, EndSequence,
       NothingToCompact, StartCompaction, AfterCompaction, MergedStatus

LEMMA RootsImported ==
  ASSUME IInv, Covered, AfterImport
  PROVE  RootsPlaced'
<1>1. /\ pc = "import" /\ stage = "finish" /\ call' = call /\ mapping' = copied
      /\ status' = MergedStatus(status, ResultStatus)
  BY DEF AfterImport, RunOver
<1>2. src = call.graph /\ roots = call.roots /\ copied \in [DOMAIN src -> Nat]
      /\ roots \in Seq(Nat)
  BY <1>1 DEF IInv, EngineLinks, TypeOK, RunTypeOK
<1>3. PICK p \in Ascending(KeptRoots) :
        workingRoots' = [k \in DOMAIN p |-> copied[roots[p[k]]]] /\ positions' = p
  BY DEF AfterImport
<1>4. \A j, k \in DOMAIN p : j < k => p[j] < p[k]
  BY DEF Ascending
<1>5. \A k \in DOMAIN p : /\ p[k] \in DOMAIN call.roots
                          /\ call.roots[p[k]] \in DOMAIN call.graph
                          /\ workingRoots'[k] = mapping'[call.roots[p[k]]]
                          /\ workingRoots'[k] # None
  BY <1>1, <1>2, <1>3, AdoptedRoots
<1>6. ASSUME status' = "complete" PROVE Len(p) = Len(call.roots)
  <2>1. runStatus = "complete"
    BY <1>1, <1>6, ResultIsRunStatus DEF MergedStatus, IInv, TypeOK, RunTypeOK, Statuses
  <2> QED
    BY <1>1, <1>2, <2>1, AllRootsKept, RootsInPlace
<1> QED
  BY <1>1, <1>3, <1>4, <1>5, <1>6 DEF RootsPlaced

LEMMA RootsPlacedStep ==
  ASSUME IInv, Covered, PassLinks, RootsPlaced, Next
  PROVE  RootsPlaced'
<1>1. CASE RunStep /\ UNCHANGED engineVars
  BY <1>1 DEF engineVars, RootsPlaced
<1>2. CASE AfterImport
  BY <1>2, RootsImported
<1>3. CASE EngineStep /\ ~AfterImport
  <2>1. call' = call
    BY <1>3, RootsChange
  <2>2. pc' \notin {"validate", "import"} /\ call.accepted => pc \notin {"validate", "import"}
    BY <1>3 DEF EngineStep, Reject, StartImport, SkipPlan, PhaseBudgetSpent, StartPhase,
                AfterStoppedPhase, AfterStablePhase, AfterChangedPhase, EndSequence,
                NothingToCompact, StartCompaction, AfterCompaction
  <2>3. status' = "complete" => status = "complete"
    BY <1>3, StatusFalls
  <2>4. CASE UNCHANGED <<working, workingRoots, positions, mapping>>
    BY <2>1, <2>2, <2>3, <2>4 DEF RootsPlaced
  <2>5. CASE stage = "finish" /\ Adopts
    <3>1. SUFFICES ASSUME pc \notin {"validate", "import"}, call.accepted
                   PROVE  RootsPlaced'
      BY <2>1, <2>2 DEF RootsPlaced
    <3>2. pc \in {"phase", "compacting"}
      BY <2>5, <3>1 DEF Adopts
    <3>3. /\ positions' = positions /\ mapping' = Composed(mapping, copied)
          /\ \A k \in DOMAIN workingRoots :
               workingRoots'[k] = copied[workingRoots[k]] /\ workingRoots'[k] # None
      BY <2>5, <3>2, AdoptInPlace
    <3>4. DOMAIN positions = DOMAIN workingRoots
      BY DEF IInv, TypeOK
    <3>5. ASSUME NEW k \in DOMAIN positions
          PROVE  workingRoots'[k] = mapping'[call.roots[positions[k]]]
      <4>1. /\ call.roots[positions[k]] \in DOMAIN call.graph
            /\ workingRoots[k] = mapping[call.roots[positions[k]]] /\ workingRoots[k] # None
        BY <3>1 DEF RootsPlaced
      <4> QED
        BY <3>2, <3>3, <3>4, <4>1, ComposedEntry
    <3> QED
      BY <2>1, <2>3, <3>1, <3>3, <3>4, <3>5 DEF RootsPlaced
  <2> QED
    BY <1>3, <2>4, <2>5, RootsChange
<1> QED
  BY <1>1, <1>2, <1>3 DEF Next, EngineStep

(* The roots of the result are the images of the caller's roots, in the    *)
(* caller's order, and all of them when the call is complete.              *)
THEOREM RootsExact == Spec => [](RootsPlaced /\ RootsSound)
<1>1. Init => RootsPlaced
  BY DEF Init, RootsPlaced
<1>2. IInv /\ Covered /\ PassLinks /\ RootsPlaced /\ [Next]_vars => RootsPlaced'
  BY RootsPlacedStep DEF vars, engineVars, RootsPlaced
<1>3. IInv /\ RootsPlaced => RootsSound
  BY DEF IInv, TypeOK, RootsPlaced, RootsSound
<1> QED
  BY <1>1, <1>2, <1>3, Invariance, CopiesCover, PassLinked, PTL DEF Spec

(* What the result reports is so: its roots are those of the call, each in *)
(* its place and at its node of the mapping, all of them when the status   *)
(* is complete; its trace holds the events of the adopted phases, numbered *)
(* without a gap; and any other status comes with a diagnostic.            *)
THEOREM ReportIsExact == Spec => []ReportExact
<1>1. RootsSound /\ TraceMatchesAdoption /\ StatusExplained => ReportExact
  BY DEF ReportExact
<1> QED
  BY <1>1, RootsExact, TraceExact, StatusExact, PTL
-----------------------------------------------------------------------------
(* The abstract promise: what the roots of the working graph denote is     *)
(* what the input roots in their places denote, in every state.            *)
Meant ==
  /\ call.roots \in Seq(Nat) /\ positions \in Seq(Nat)
  /\ pc \notin {"validate", "import"} /\ call.accepted =>
       /\ Denoted = [k \in DOMAIN positions |-> Promised[positions[k]]]
       /\ \A k \in DOMAIN positions : positions[k] \in DOMAIN Promised
       /\ \A j, k \in DOMAIN positions : j < k => positions[j] < positions[k]
       /\ status = "complete" => Len(positions) = Len(call.roots)

(* What the roots of the working graph denote is what the caller's roots in *)
(* their places denote.                                                    *)
THEOREM RootsMeant == Spec => []Meant
<1>1. IInv /\ RootsPlaced => Meant
  <2> SUFFICES ASSUME IInv, RootsPlaced, pc \notin {"validate", "import"}, call.accepted
               PROVE  /\ Denoted = [k \in DOMAIN positions |-> Promised[positions[k]]]
                      /\ \A k \in DOMAIN positions : positions[k] \in DOMAIN Promised
    BY CallType DEF IInv, TypeOK, Meant, RootsPlaced
  <2>1. DOMAIN positions = DOMAIN workingRoots /\ DOMAIN Promised = DOMAIN call.roots
    BY DEF IInv, TypeOK, Promised
  <2>2. ASSUME NEW k \in DOMAIN positions
        PROVE  /\ positions[k] \in DOMAIN Promised
               /\ RootMeaning(working, workingRoots[k]) = Promised[positions[k]]
    <3> DEFINE n == call.roots[positions[k]]
    <3>1. /\ positions[k] \in DOMAIN call.roots /\ n \in DOMAIN call.graph
          /\ workingRoots[k] = mapping[n] /\ mapping[n] # None
      BY DEF RootsPlaced
    <3>2. /\ mapping[n] \in DOMAIN working
          /\ working[mapping[n]].val = call.graph[n].val
          /\ working[mapping[n]].type = call.graph[n].type
      BY <3>1 DEF IInv, TypeOK, MappingSound
    <3>3. Promised[positions[k]] = RootMeaning(call.graph, n)
      BY <3>1 DEF Promised
    <3> QED
      BY <2>1, <3>1, <3>2, <3>3 DEF RootMeaning
  <2>3. Denoted = [k \in DOMAIN positions |-> RootMeaning(working, workingRoots[k])]
    BY <2>1 DEF Denoted
  <2> QED
    BY <2>2, <2>3
<1> QED
  BY <1>1, Invariance, RootsExact, PTL

(* No step changes what the roots denote once they are imported.           *)
LEMMA DenotedKept ==
  ASSUME IInv, Meant, Meant', EngineStep, ~StartImport, ~AfterImport, ~Reject, call.accepted
  PROVE  Promised' = Promised /\ Denoted' = Denoted
<1>1. pc \notin {"validate", "import"} /\ pc' \notin {"validate", "import"}
  BY DEF EngineStep, SkipPlan, PhaseBudgetSpent, StartPhase, AfterStoppedPhase,
         AfterStablePhase, AfterChangedPhase, EndSequence, NothingToCompact,
         StartCompaction, AfterCompaction
<1>2. call' = call /\ positions' = positions
  <2>1. CASE stage = "finish" /\ Adopts
    <3>1. pc \in {"phase", "compacting"}
      BY <1>1, <2>1 DEF Adopts
    <3> QED
      BY <2>1, <3>1, AdoptInPlace, RootsChange
  <2> QED
    BY <2>1, RootsChange
<1>3. Promised' = Promised
  BY <1>2 DEF Promised, RootMeaning
<1> QED
  BY <1>1, <1>2, <1>3 DEF Meant

LEMMA CompleteMeansAll ==
  ASSUME Meant, pc \notin {"validate", "import"}, call.accepted, status = "complete"
  PROVE  Denoted = Promised
<1>1. /\ call.roots \in Seq(Nat) /\ positions \in Seq(Nat)
      /\ Len(positions) = Len(call.roots) /\ DOMAIN Promised = DOMAIN call.roots
      /\ \A k \in DOMAIN positions : positions[k] \in DOMAIN Promised
      /\ \A j, k \in DOMAIN positions : j < k => positions[j] < positions[k]
      /\ Denoted = [k \in DOMAIN positions |-> Promised[positions[k]]]
  BY DEF Meant, Promised
<1> DEFINE n == Len(positions)
<1>2. n \in Nat /\ DOMAIN positions = 1..n /\ DOMAIN Promised = 1..n
  BY <1>1
<1>3. positions \in [1..n -> 1..n]
  BY <1>1, <1>2
<1> HIDE DEF n
<1>4. \A k \in 1..n : positions[k] = k
  BY <1>1, <1>2, <1>3, IncreasingIdentity
<1>5. Denoted = [k \in 1..n |-> Promised[k]]
  BY <1>1, <1>2, <1>4
<1>6. Promised = [k \in 1..n |-> Promised[k]]
  BY <1>2 DEF Promised
<1> QED
  BY <1>5, <1>6

LEMMA PromiseKeptStep ==
  ASSUME IInv, PassLinks, Meant, Meant', IInv', [Next]_vars
  PROVE  [Promise!Next]_(Promise!vars)
<1>1. CASE UNCHANGED engineVars
  <2>1. UNCHANGED <<Promised, Denoted, Verdict>>
    BY <1>1 DEF engineVars, Promised, Denoted, Verdict, RootMeaning
  <2> QED
    BY <2>1 DEF Promise!vars
<1>2. CASE StartImport
  <2>1. pc = "validate" /\ pc' = "import" /\ call' = call
    BY <1>2 DEF StartImport
  <2>2. UNCHANGED <<Promised, Denoted, Verdict>>
    BY <2>1 DEF Promised, Denoted, Verdict, RootMeaning
  <2> QED
    BY <2>2 DEF Promise!vars
<1>3. CASE AfterImport
  <2>1. pc = "import" /\ pc' \in {"plans", "compact"} /\ call' = call /\ call.accepted
    BY <1>3 DEF AfterImport, PassLinks
  <2>2. Promised' = Promised /\ Verdict = "importing" /\ Verdict' = "simplifying"
    BY <2>1 DEF Promised, Verdict, RootMeaning
  <2>3. /\ Denoted' = [k \in DOMAIN positions' |-> Promised[positions'[k]]]
        /\ \A k \in DOMAIN positions' : positions'[k] \in DOMAIN Promised
        /\ \A j, k \in DOMAIN positions' : j < k => positions'[j] < positions'[k]
        /\ positions' \in Seq(Nat)
    BY <2>1, <2>2 DEF Meant
  <2>4. positions' \in [DOMAIN Denoted' -> DOMAIN Promised] /\ DOMAIN Denoted' = DOMAIN positions'
    BY <2>3
  <2>5. Promise!SubsequenceOf(Denoted', Promised)
    BY <2>3, <2>4 DEF Promise!SubsequenceOf
  <2>6. Promise!Import
    BY <2>2, <2>5 DEF Promise!Import
  <2> QED
    BY <2>6 DEF Promise!Next
<1>4. CASE Reject
  <2>1. pc = "validate" /\ pc' = "done" /\ ~call.accepted /\ call' = call
        /\ status' = "invalid_input"
    BY <1>4 DEF Reject
  <2>2. /\ Promised' = Promised /\ Denoted' = Denoted
        /\ Verdict = "importing" /\ Verdict' = "invalid_input"
    BY <2>1 DEF Promised, Denoted, Verdict, RootMeaning
  <2>3. Promise!Return
    BY <2>2 DEF Promise!Return, Promise!Verdicts
  <2> QED
    BY <2>3 DEF Promise!Next
<1>5. CASE EngineStep /\ ~StartImport /\ ~AfterImport /\ ~Reject
  <2>1. /\ pc \notin {"validate", "import", "done"} /\ call' = call
        /\ pc' \notin {"validate", "import"}
    BY <1>5 DEF EngineStep, SkipPlan, PhaseBudgetSpent, StartPhase, AfterStoppedPhase,
                AfterStablePhase, AfterChangedPhase, EndSequence, NothingToCompact,
                StartCompaction, AfterCompaction
  <2>2. call.accepted
    BY <2>1 DEF PassLinks
  <2>3. Promised' = Promised /\ Denoted' = Denoted
    BY <1>5, <2>2, DenotedKept
  <2>4. Verdict = "simplifying"
    BY <2>1 DEF Verdict
  <2>5. CASE pc' # "done"
    <3>1. Verdict' = "simplifying"
      BY <2>1, <2>5 DEF Verdict
    <3> QED
      BY <2>3, <2>4, <3>1 DEF Promise!vars
  <2>6. CASE pc' = "done"
    <3>1. Verdict' = status' /\ status' \in Statuses
      BY <2>6 DEF Verdict, IInv, TypeOK
    <3>2. ASSUME status' = "complete" PROVE Denoted' = Promised'
      <4>1. status = "complete"
        BY <1>5, <3>2, StatusFalls
      <4> QED
        BY <2>1, <2>2, <2>3, <4>1, CompleteMeansAll
    <3>3. Promise!Return
      BY <2>3, <2>4, <3>1, <3>2 DEF Promise!Return, Promise!Verdicts, Statuses
    <3> QED
      BY <3>3 DEF Promise!Next
  <2> QED
    BY <2>5, <2>6
<1> QED
  BY <1>1, <1>2, <1>3, <1>4, <1>5 DEF Next, vars, EngineStep

(* The engine keeps its promise: roots are lost at the import or not at    *)
(* all, no step changes what the others denote, and a complete result has  *)
(* them all.                                                               *)
THEOREM PromiseKept == Spec => KeepsPromise
<1>1. Init => Promise!Init
  BY DEF Init, Promise!Init, Denoted, Verdict
<1>2. IInv /\ PassLinks /\ Meant /\ IInv' /\ Meant' /\ [Next]_vars
        => [Promise!Next]_(Promise!vars)
  BY PromiseKeptStep
<1> QED
  BY <1>1, <1>2, Invariance, PassLinked, RootsMeant, PTL DEF Spec, KeepsPromise, Promise!Spec
-----------------------------------------------------------------------------
(* A run that rewrites nothing, or nothing yet, copies its source node by  *)
(* node: each copy is a node of its own whose operands are the copies of   *)
(* the operands, and until rules add nodes of theirs there are no others.  *)
ExactCopies ==
  stage # "idle" /\ runStatus = "complete" /\ (pass.plan => ~changed) =>
    /\ \A i \in todo : copied[i] = None
    /\ \A i \in reach \ todo : ExprOf(out[copied[i]]) = CopyOf(i)
    /\ \A i, j \in reach \ todo : copied[i] = copied[j] => i = j
    /\ stage = "import" \/ ~pass.plan =>
         \A n \in DOMAIN out : \E i \in reach : copied[i] = n

LEMMA ExactImport ==
  ASSUME IInv, Covered, ExactCopies, ImportNode
  PROVE  ExactCopies'
<1>1. PICK i \in todo : (\A j \in todo : i <= j) /\ ImportAt(i)
  BY DEF ImportNode
<1>2. stage = "import" /\ stage' = stage /\ UNCHANGED <<src, roots, pass, reach, changed>>
  BY DEF ImportNode, jobVars
<1> SUFFICES ASSUME pass.plan => ~changed, runStatus' = "complete"
             PROVE  ExactCopies'
  BY <1>2 DEF ExactCopies
<1>3. runStatus = "complete"
  BY <1>1 DEF ImportAt
<1>4. Resolved(src[i].args)
  BY <1>1, <1>2, <1>3, NextResolved
<1>5. /\ copied' = [copied EXCEPT ![i] = Len(out')]
      /\ todo' = todo \ {i} /\ out' = Build(out, CopyOf(i)) /\ Buildable(out, CopyOf(i))
  BY <1>1, <1>4 DEF ImportAt
<1>6. /\ src \in Graph /\ out \in Graph /\ i \in reach /\ reach \subseteq DOMAIN src
      /\ todo \subseteq reach /\ copied \in [DOMAIN src -> Nat] /\ WellFormed(out)
  BY DEF IInv, TypeOK, RunTypeOK, RunInv
<1>7. CopyOf(i) \in Expr
  BY <1>4, <1>6, CopySound DEF IInv, TypeOK
<1>8. /\ Len(out') = Len(out) + 1 /\ ExtendsGraph(out', out)
      /\ ExprOf(out'[Len(out) + 1]) = CopyOf(i) /\ out' \in Graph
  <2>1. /\ Len(out') = Len(out) + 1 /\ ExtendsGraph(out', out) /\ out' \in Graph
        /\ out'[Len(out) + 1] =
             [op |-> CopyOf(i).op, type |-> CopyOf(i).type, args |-> CopyOf(i).args,
              val |-> Denotes(out, CopyOf(i))]
    BY <1>5, <1>6, <1>7, BuildProperties
  <2>2. [op |-> CopyOf(i).op, type |-> CopyOf(i).type, args |-> CopyOf(i).args] = CopyOf(i)
    BY DEF CopyOf
  <2> QED
    BY <2>1, <2>2 DEF ExprOf
<1>9. Len(out) \in Nat /\ DOMAIN out = 1..Len(out) /\ DOMAIN out' = 1..(Len(out) + 1)
  <2>1. Len(out) \in Nat /\ DOMAIN out = 1..Len(out) /\ DOMAIN out' = 1..Len(out')
    BY <1>6, <1>8 DEF Graph
  <2> QED
    BY <1>8, <2>1
<1>10. /\ \A j \in todo : copied[j] = None
       /\ \A j \in reach \ todo : ExprOf(out[copied[j]]) = CopyOf(j)
       /\ \A j, k \in reach \ todo : copied[j] = copied[k] => j = k
       /\ \A n \in DOMAIN out : \E j \in reach : copied[j] = n
       /\ \A j \in reach \ todo : copied[j] # None
  BY <1>2, <1>3 DEF ExactCopies, Covered
<1>11. ASSUME NEW j \in reach \ todo
       PROVE  /\ copied'[j] = copied[j] /\ copied[j] \in DOMAIN out
              /\ out'[copied[j]] = out[copied[j]] /\ CopyOf(j)' = CopyOf(j)
  <2>1. copied[j] \in DOMAIN out /\ j # i
    BY <1>6, <1>10 DEF IInv, RunInv, CopiesSound, StandsFor
  <2>2. \A k \in DOMAIN out[copied[j]].args : out[copied[j]].args[k] # None
    BY <1>6, <2>1 DEF WellFormed, ValidNode, None
  <2>3. \A k \in DOMAIN src[j].args : copied[src[j].args[k]] # None
    <3>1. out[copied[j]].args = Mapped(src[j].args)
      BY <1>10 DEF ExprOf, CopyOf
    <3>2. \A k \in DOMAIN Mapped(src[j].args) : Mapped(src[j].args)[k] # None
      BY <2>2, <3>1
    <3> QED
      BY <3>2 DEF Mapped
  <2>4. \A k \in DOMAIN src[j].args : src[j].args[k] # i
    BY <1>10, <2>3
  <2>5. \A k \in DOMAIN src[j].args : copied'[src[j].args[k]] = copied[src[j].args[k]]
    BY <1>5, <2>4
  <2>6. CopyOf(j)' = CopyOf(j)
    BY <1>2, <2>5 DEF CopyOf, Mapped
  <2> QED
    BY <1>5, <1>8, <2>1, <2>6 DEF ExtendsGraph
<1>12. copied'[i] = Len(out) + 1 /\ CopyOf(i)' = CopyOf(i)
  <2>1. copied'[i] = Len(out) + 1
    BY <1>5, <1>6, <1>8
  <2>2. \A k \in DOMAIN src[i].args : src[i].args[k] # i
    BY <1>4, <1>10 DEF Resolved
  <2>3. \A k \in DOMAIN src[i].args : copied'[src[i].args[k]] = copied[src[i].args[k]]
    BY <1>5, <2>2
  <2>4. CopyOf(i)' = CopyOf(i)
    BY <1>2, <2>3 DEF CopyOf, Mapped
  <2> QED
    BY <2>1, <2>4
<1>13. \A j \in todo' : copied'[j] = None
  BY <1>5, <1>10
<1>14. ASSUME NEW j \in reach \ todo'
       PROVE  ExprOf(out'[copied'[j]]) = CopyOf(j)'
  <2>1. CASE j = i
    BY <1>8, <1>12, <2>1
  <2>2. CASE j # i
    BY <1>5, <1>10, <1>11, <2>2
  <2> QED
    BY <2>1, <2>2
<1>15. ASSUME NEW n \in DOMAIN out'
       PROVE  \E j \in reach : copied'[j] = n
  <2>1. CASE n = Len(out) + 1
    BY <1>6, <1>12, <2>1
  <2>2. CASE n # Len(out) + 1
    <3>1. n \in DOMAIN out
      BY <1>9, <2>2
    <3>2. PICK j \in reach : copied[j] = n
      BY <1>10, <3>1
    <3>3. n # None
      BY <1>9, <3>1 DEF None
    <3>4. j # i
      BY <1>10, <3>2, <3>3
    <3> QED
      BY <1>5, <3>2, <3>4
  <2> QED
    BY <2>1, <2>2
<1>16. ASSUME NEW j \in reach \ todo', NEW k \in reach \ todo', copied'[j] = copied'[k]
       PROVE  j = k
  <2>1. \A l \in reach \ todo : copied[l] # Len(out) + 1
    BY <1>9, <1>11
  <2> QED
    BY <1>5, <1>10, <1>11, <1>12, <1>16, <2>1
<1> QED
  BY <1>2, <1>13, <1>14, <1>15, <1>16 DEF ExactCopies

(* Behind the import loop the output only grows, and the copies stay where *)
(* they are as long as nothing is changed.                                 *)
LEMMA OutGrows ==
  ASSUME IInv, Covered,
         QueueEmpty \/ DropNode \/ PopSubject \/ SkipRule \/ StepBudgetSpent
           \/ TryRule \/ RulesDone \/ KeepOrReplace \/ RebuildNode
  PROVE  /\ stage \in {"pop", "rules", "settle"} /\ stage' # "import" /\ todo' = todo
         /\ out' \in Graph /\ ExtendsGraph(out', out)
         /\ changed' \/ (copied' = copied /\ ~changed)
<1>1. out \in Graph /\ ExtendsGraph(out, out) /\ changed \in BOOLEAN
  BY ExtendsReflexive DEF IInv, TypeOK, RunTypeOK
<1>2. CASE TryRule
  <2>1. PICK o \in Outcomes(Rule, subject, out) :
          \/ Overgrown(o) \/ NoMatch(o) \/ InvalidRewrite(o)
          \/ ReplaceWith(o) \/ RebuildExpression(o)
    BY <1>2 DEF TryRule
  <2>2. Attempt(o) /\ stage = "rules" /\ stage' \in {"rules", "settle", "finish"}
    BY <1>2, <2>1 DEF TryRule, Overgrown, NoMatch, InvalidRewrite, ReplaceWith,
                      RebuildExpression, Stop
  <2>3. out' = o.graph /\ Contract(subject, out, o) /\ UNCHANGED <<todo, copied, changed>>
    BY <2>2 DEF Attempt
  <2>4. o.graph \in Graph /\ ExtendsGraph(o.graph, out)
    BY <2>3 DEF Contract, Outcome
  <2> QED
    BY <1>1, <2>2, <2>3, <2>4
<1>3. CASE KeepOrReplace
  BY <1>1, <1>3 DEF KeepOrReplace, Settle
<1>4. CASE RebuildNode
  <2>1. CASE out' = Build(out, subject) /\ Buildable(out, subject)
    <3>1. subject \in Expr
      BY <1>4 DEF RebuildNode, IInv, TypeOK, RunTypeOK
    <3>2. out' \in Graph /\ ExtendsGraph(out', out)
      BY <1>1, <2>1, <3>1, BuildProperties
    <3>3. Settle(Len(out')) \/ (stage' = "finish" /\ UNCHANGED <<copied, changed>>)
      BY <1>4 DEF RebuildNode, Stop
    <3> QED
      BY <1>1, <1>4, <3>2, <3>3 DEF RebuildNode, Settle
  <2>2. CASE ~(out' = Build(out, subject) /\ Buildable(out, subject))
    BY <1>1, <1>4, <2>2 DEF RebuildNode, Stop
  <2> QED
    BY <2>1, <2>2
<1> QED
  BY <1>1, <1>2, <1>3, <1>4
     DEF QueueEmpty, DropNode, PopSubject, SkipRule, StepBudgetSpent, RulesDone, Stop

LEMMA ExactInRun ==
  ASSUME IInv, Covered, ExactCopies, RunStep
  PROVE  ExactCopies'
<1>1. UNCHANGED <<src, roots, pass, reach>> /\ stage # "idle"
  BY RunStepJob, RunStepFrame DEF IInv, TypeOK
<1>2. CASE ImportNode
  BY <1>2, ExactImport
<1>3. CASE ImportBudgetSpent
  BY <1>3 DEF ImportBudgetSpent, ExactCopies
<1>4. CASE SeedQueue
  BY <1>1, <1>4 DEF SeedQueue, ExactCopies, CopyOf, Mapped
<1>5. CASE ~ImportNode /\ ~ImportBudgetSpent /\ ~SeedQueue
  <2>1. /\ stage \in {"pop", "rules", "settle"} /\ stage' # "import"
        /\ pass.plan /\ runStatus = "complete" /\ todo' = todo
        /\ ExtendsGraph(out', out)
        /\ changed' \/ (copied' = copied /\ ~changed)
    BY <1>5, OutGrows DEF RunStep, Covered
  <2> SUFFICES ASSUME ~changed'
               PROVE  ExactCopies'
    BY <1>1, <2>1 DEF ExactCopies
  <2>2. ASSUME NEW i \in reach \ todo
        PROVE  ExprOf(out'[copied'[i]]) = CopyOf(i)'
    <3>1. copied[i] \in DOMAIN out
      BY <2>1 DEF Covered, IInv, TypeOK, RunTypeOK, RunInv, CopiesSound, StandsFor
    <3>2. out'[copied[i]] = out[copied[i]]
      BY <2>1, <3>1 DEF ExtendsGraph
    <3>3. CopyOf(i)' = CopyOf(i) /\ copied' = copied
      BY <1>1, <2>1 DEF CopyOf, Mapped
    <3> QED
      BY <2>1, <3>2, <3>3 DEF ExactCopies
  <2> QED
    BY <1>1, <2>1, <2>2 DEF ExactCopies
<1> QED
  BY <1>2, <1>3, <1>4, <1>5

LEMMA ExactInEngine ==
  ASSUME IInv, ExactCopies, EngineStep
  PROVE  ExactCopies'
<1>1. CASE StartImport \/ StartPhase \/ StartCompaction
  <2>1. PICK g \in Graph, rs \in Seq(Nat), p \in Pass : StartRun(g, rs, p, nodeRewrites)
    BY <1>1, EngineStarts
  <2>2. /\ reach' \subseteq DOMAIN g /\ todo' = reach' /\ out' = <<>>
        /\ copied' = [n \in DOMAIN g |-> None]
    BY <2>1 DEF StartRun, Reachable
  <2> QED
    BY <2>2 DEF ExactCopies
<1>2. CASE ~StartImport /\ ~StartPhase /\ ~StartCompaction
  BY <1>2, EngineRests DEF ExactCopies
<1> QED
  BY <1>1, <1>2

(* A run copies node by node, and until a rule changes something each copy *)
(* is what the source node is, over the copies of its operands.            *)
THEOREM CopiesExact == Spec => []ExactCopies
<1>1. Init => ExactCopies
  BY DEF Init, ExactCopies
<1>2. IInv /\ Covered /\ ExactCopies /\ [Next]_vars => ExactCopies'
  BY ExactInRun, ExactInEngine
     DEF Next, vars, runVars, jobVars, ExactCopies, CopyOf, Mapped
<1> QED
  BY <1>1, <1>2, Invariance, CopiesCover, PTL DEF Spec

(* What the copies of the roots reach is the whole output.                 *)
LEMMA OutputReached ==
  ASSUME IInv, Covered, ExactCopies, stage = "finish", ~pass.plan,
         runStatus = "complete", NEW to,
         \A r \in Elements(roots) : copied[r] \in to
  PROVE  Reachable(out, to) = DOMAIN out
<1>1. /\ src \in Graph /\ out \in Graph /\ WellFormed(src) /\ WellFormed(out)
      /\ reach = Reachable(src, Elements(roots)) /\ todo = {} /\ reach \subseteq DOMAIN src
      /\ Elements(roots) \subseteq DOMAIN src /\ DOMAIN copied = DOMAIN src
  BY DEF IInv, TypeOK, RunTypeOK, RunInv, Covered
<1> DEFINE R == Reachable(out, to)
           S == {i \in reach : copied[i] \in R}
<1>2. /\ R \subseteq DOMAIN out /\ to \cap DOMAIN out \subseteq R /\ ClosedIn(out, R)
  BY <1>1, ReachClosed
<1>3. \A i \in reach : copied[i] # None /\ copied[i] \in DOMAIN out
                       /\ out[copied[i]].args = Mapped(src[i].args)
  BY <1>1 DEF Covered, ExactCopies, ExprOf, CopyOf, IInv, RunInv, CopiesSound, StandsFor
<1>4. Elements(roots) \subseteq reach
  BY <1>1, ReachClosed
<1> HIDE DEF R
<1>5. Elements(roots) \cap DOMAIN src \subseteq S
  BY <1>2, <1>3, <1>4
<1>6. ASSUME NEW m \in reach \cap S, NEW n \in Elements(src[m].args)
      PROVE  n \in S
  <2>1. n \in reach
    BY <1>1, ReachClosed DEF ClosedIn
  <2>2. PICK k \in DOMAIN src[m].args : src[m].args[k] = n
    BY DEF Elements
  <2>3. copied[n] \in Elements(out[copied[m]].args)
    <3>1. out[copied[m]].args = Mapped(src[m].args)
      BY <1>3
    <3>2. k \in DOMAIN Mapped(src[m].args) /\ Mapped(src[m].args)[k] = copied[n]
      BY <2>2 DEF Mapped
    <3> QED
      BY <3>1, <3>2 DEF Elements
  <2>4. copied[m] \in R
    OBVIOUS
  <2>5. copied[n] \in R
    BY <1>2, <2>3, <2>4 DEF ClosedIn
  <2> QED
    BY <2>1, <2>5
<1>7. reach \subseteq S
  BY <1>1, <1>5, <1>6, ReachLeast
<1>8. \A n \in DOMAIN out : \E i \in reach : copied[i] = n
  BY DEF ExactCopies
<1>9. DOMAIN out \subseteq R
  BY <1>7, <1>8
<1> QED
  BY <1>2, <1>9 DEF R

LEMMA CompactionStepSafe ==
  ASSUME IInv, Covered, PassLinks, Compacts, ExactCopies, Next,
         pc = "compacting", pc' = "done"
  PROVE  /\ status' = status /\ positions' = positions
         /\ Reachable(working', Elements(workingRoots')) = DOMAIN working'
<1>1. AfterCompaction
  BY DEF Next, EngineStep, engineVars, Reject, StartImport, AfterImport, SkipPlan,
         PhaseBudgetSpent, StartPhase, AfterStoppedPhase, AfterStablePhase,
         AfterChangedPhase, EndSequence, NothingToCompact, StartCompaction
<1>2. stage = "finish" /\ runStatus = "complete" /\ ~pass.plan
  BY <1>1 DEF AfterCompaction, RunOver, Compacts, PassLinks, CompactionPass
<1>3. SameRoots /\ Composable(mapping, copied)
  BY <1>2, CompactionKeepsRoots, AlwaysComposable
<1>4. Adopts
  BY <1>1, <1>3 DEF AfterCompaction, Adopt, Adopts
<1>5. /\ positions' = positions /\ working' = out
      /\ DOMAIN workingRoots' = DOMAIN workingRoots
      /\ \A k \in DOMAIN workingRoots : workingRoots'[k] = copied[workingRoots[k]]
  BY <1>4, AdoptInPlace
<1>6. Validates(out)
  BY DEF IInv, RunInv, WellFormed, Validates
<1>7. status' = status
  BY <1>1, <1>2, <1>3, <1>5, <1>6, ResultIsRunStatus DEF AfterCompaction, MergedStatus
<1>8. roots = workingRoots
  BY DEF IInv, EngineLinks
<1>9. \A r \in Elements(roots) : copied[r] \in Elements(workingRoots')
  BY <1>5, <1>8 DEF Elements
<1>10. Reachable(out, Elements(workingRoots')) = DOMAIN out
  BY <1>2, <1>9, OutputReached
<1> QED
  BY <1>5, <1>7, <1>10

(* Compaction is free: whatever the budgets are, it cannot run out of one, *)
(* it loses no root and changes no status, and leaves a graph of which the *)
(* roots reach every node.                                                 *)
THEOREM CompactionSafe == Spec => CompactionIsSafe
<1>1. IInv /\ Covered /\ PassLinks /\ Compacts /\ ExactCopies /\ [Next]_vars
        => [pc = "compacting" /\ pc' = "done" =>
              /\ status' = status
              /\ positions' = positions
              /\ Reachable(working', Elements(workingRoots')) = DOMAIN working']_vars
  BY CompactionStepSafe
<1> QED
  BY <1>1, Invariance, CopiesCover, PassLinked, CompactionCompletes, CopiesExact, PTL
     DEF Spec, CompactionIsSafe
-----------------------------------------------------------------------------
(* One pass.  The queue holds the operation nodes still to come in         *)
(* ascending order, all behind those taken from it; merge nodes may stand  *)
(* anywhere in it.  A node's users come after it, so that the users a      *)
(* change puts into the queue again are no operation nodes: those are all  *)
(* still in it.                                                            *)
Ops == {i \in reach : IsOperation(i)}

InOrder ==
  /\ OnePass
  /\ stage = "import" => popped = {}
  /\ stage \in {"pop", "rules", "settle"} =>
       /\ popped \subseteq Ops /\ Ops \subseteq popped \cup Elements(queue)
       /\ \A p \in popped : \A q \in Elements(queue) \cap Ops : p < q
       /\ \A a, b \in DOMAIN queue :
            a < b /\ queue[a] \in Ops /\ queue[b] \in Ops => queue[a] < queue[b]
  /\ stage \in {"rules", "settle"} => cur \in popped /\ \A p \in popped : p <= cur

(* A node that is taken from the queue and dropped is no operation node.   *)
LEMMA OpsReady ==
  ASSUME IInv, Covered, stage = "pop", NEW i \in Ops
  PROVE  Ready(i)
<1>1. /\ src \in Graph /\ WellFormed(src) /\ reach = Reachable(src, Elements(roots))
      /\ \A j \in reach : copied[j] # None
  BY DEF IInv, TypeOK, RunTypeOK, RunInv, Covered
<1>2. i \in reach /\ IsOperation(i)
  BY DEF Ops
<1>3. Elements(src[i].args) \subseteq reach
  BY <1>1, <1>2, ReachClosed DEF ClosedIn
<1>4. \A k \in DOMAIN src[i].args : copied[src[i].args[k]] # None
  BY <1>1, <1>3 DEF Elements
<1> QED
  BY <1>1, <1>2, <1>4 DEF Ready, Resolved

LEMMA QueueFacts ==
  ASSUME IInv, queue # <<>>
  PROVE  /\ Tail(queue) \in Seq(reach) /\ Head(queue) = queue[1] /\ 1 \in DOMAIN queue
         /\ DOMAIN Tail(queue) = 1..(Len(queue) - 1) /\ Len(queue) \in Nat
         /\ \A a \in DOMAIN Tail(queue) : Tail(queue)[a] = queue[a + 1]
                                          /\ a + 1 \in DOMAIN queue /\ a \in Nat
         /\ Elements(queue) = {Head(queue)} \cup Elements(Tail(queue))
         /\ reach \subseteq Nat
<1>1. queue \in Seq(reach) /\ reach \subseteq DOMAIN src /\ src \in Graph
  BY DEF IInv, TypeOK, RunTypeOK
<1>2. reach \subseteq Nat
  BY <1>1 DEF Graph
<1>3. /\ Tail(queue) \in Seq(reach) /\ Head(queue) = queue[1] /\ 1 \in DOMAIN queue
      /\ DOMAIN Tail(queue) = 1..(Len(queue) - 1) /\ Len(queue) \in Nat
      /\ DOMAIN queue = 1..Len(queue)
      /\ \A a \in DOMAIN Tail(queue) : Tail(queue)[a] = queue[a + 1]
                                       /\ a + 1 \in DOMAIN queue /\ a \in Nat
  BY <1>1
<1>4. \A a \in DOMAIN queue : a = 1 \/ (a - 1 \in DOMAIN Tail(queue) /\ (a - 1) + 1 = a)
  BY <1>3
<1>5. Elements(queue) = {Head(queue)} \cup Elements(Tail(queue))
  BY <1>3, <1>4 DEF Elements
<1> QED
  BY <1>2, <1>3, <1>5

LEMMA OrderOnDrop ==
  ASSUME IInv, Covered, InOrder, DropNode
  PROVE  InOrder'
<1>1. /\ stage = "pop" /\ stage' = "pop" /\ queue # <<>> /\ queue' = Tail(queue)
      /\ ~Ready(Head(queue)) /\ UNCHANGED <<src, reach, popped>>
  BY DEF DropNode, jobVars
<1>2. Head(queue) \notin Ops /\ Ops' = Ops
  BY <1>1, OpsReady DEF Ops, IsOperation
<1>3. /\ Elements(queue) = {Head(queue)} \cup Elements(queue')
      /\ \A a \in DOMAIN queue' : queue'[a] = queue[a + 1] /\ a + 1 \in DOMAIN queue /\ a \in Nat
  BY <1>1, QueueFacts
<1>4. \A a, b \in DOMAIN queue' :
        a < b /\ queue'[a] \in Ops /\ queue'[b] \in Ops => queue'[a] < queue'[b]
  <2>1. \A a, b \in DOMAIN queue' : a < b => a + 1 < b + 1
    BY <1>3
  <2> QED
    BY <1>1, <1>3, <2>1 DEF InOrder
<1> QED
  BY <1>1, <1>2, <1>3, <1>4 DEF InOrder, OnePass

LEMMA OrderOnPop ==
  ASSUME IInv, InOrder, PopSubject
  PROVE  InOrder'
<1> DEFINE h == Head(queue)
<1>1. /\ stage = "pop" /\ stage' = "rules" /\ queue # <<>> /\ queue' = Tail(queue)
      /\ Ready(h) /\ cur' = h /\ popped' = popped \cup {h} /\ UNCHANGED <<src, reach>>
  BY DEF PopSubject, jobVars
<1>2. /\ Elements(queue) = {h} \cup Elements(queue') /\ h = queue[1] /\ 1 \in DOMAIN queue
      /\ \A a \in DOMAIN queue' : queue'[a] = queue[a + 1] /\ a + 1 \in DOMAIN queue /\ a \in Nat
                                  /\ 1 < a + 1
      /\ queue \in Seq(reach) /\ reach \subseteq Nat
  <2>1. DOMAIN queue' = 1..(Len(queue) - 1) /\ Len(queue) \in Nat
    BY <1>1, QueueFacts
  <2>2. \A a \in DOMAIN queue' : 1 < a + 1
    BY <2>1
  <2> QED
    BY <1>1, <2>2, QueueFacts DEF IInv, TypeOK, RunTypeOK
<1>3. h \in Ops /\ Ops' = Ops /\ Ops \subseteq Nat
  <2>1. h \in reach
    BY <1>2
  <2>2. IsOperation(h)
    BY <1>1 DEF Ready
  <2>3. Ops' = Ops
    BY <1>1 DEF Ops, IsOperation
  <2> QED
    BY <1>2, <2>1, <2>2, <2>3 DEF Ops
<1> HIDE DEF h
<1>4. \A q \in Elements(queue') \cap Ops : h < q
  BY <1>1, <1>2, <1>3 DEF InOrder, Elements
<1>5. \A p \in popped : p < h /\ p \in Nat
  BY <1>1, <1>2, <1>3 DEF InOrder
<1>6. \A a, b \in DOMAIN queue' :
        a < b /\ queue'[a] \in Ops /\ queue'[b] \in Ops => queue'[a] < queue'[b]
  <2>1. \A a, b \in DOMAIN queue' : a < b => a + 1 < b + 1
    BY <1>2
  <2> QED
    BY <1>1, <1>2, <2>1 DEF InOrder
<1>7. h \notin Elements(queue')
  <2>1. ~(h < h)
    BY <1>3
  <2> QED
    BY <1>3, <1>4, <2>1
<1>8. \A p \in popped' : p <= h
  BY <1>1, <1>3, <1>5
<1> QED
  BY <1>1, <1>2, <1>3, <1>4, <1>5, <1>6, <1>7, <1>8 DEF InOrder, OnePass

(* The users enqueued again: no operation node is among them.              *)
LEMMA NoOpAgain ==
  ASSUME IInv, InOrder, stage = "settle"
  PROVE  \A u \in Users(cur) \ Elements(queue) : u \notin Ops
<1> SUFFICES ASSUME NEW u \in Ops, u \in Users(cur), u \notin Elements(queue)
             PROVE  FALSE
  OBVIOUS
<1>1. /\ src \in Graph /\ WellFormed(src) /\ u \in reach /\ reach \subseteq DOMAIN src
      /\ cur \in Elements(src[u].args)
  BY DEF IInv, TypeOK, RunTypeOK, RunInv, Users
<1>2. u \in DOMAIN src /\ cur \in Nat /\ u \in (cur + 1)..Len(src)
  BY <1>1, OperandsEarlier
<1>3. u \in popped
  BY DEF InOrder
<1>4. u <= cur
  BY <1>3 DEF InOrder
<1> QED
  BY <1>2, <1>4

LEMMA OrderOnSettle ==
  ASSUME IInv, InOrder, stage = "settle", NEW node, Settle(node),
         UNCHANGED <<src, reach, popped>>
  PROVE  InOrder'
<1>1. stage' = "pop" /\ Ops' = Ops
  BY DEF Settle, Ops, IsOperation
<1>2. CASE queue' = queue
  BY <1>1, <1>2 DEF InOrder, OnePass
<1>3. CASE \E q \in Ascending(Users(cur) \ Elements(queue)) : queue' = queue \o q
  <2>1. PICK q \in Ascending(Users(cur) \ Elements(queue)) : queue' = queue \o q
    BY <1>3
  <2>2. /\ queue \in Seq(reach) /\ Len(src) \in Nat
        /\ Users(cur) \ Elements(queue) \in SUBSET (1..Len(src))
    <3>1. src \in Graph /\ reach \subseteq DOMAIN src /\ queue \in Seq(reach)
      BY DEF IInv, TypeOK, RunTypeOK
    <3>2. DOMAIN src = 1..Len(src) /\ Len(src) \in Nat
      BY <3>1 DEF Graph
    <3> QED
      BY <3>1, <3>2 DEF Users
  <2>3. q \in Seq(Users(cur) \ Elements(queue))
    BY <2>2, AscendingType
  <2>4. q \in Seq(reach) /\ \A a \in DOMAIN q : q[a] \notin Ops
    BY <2>3, NoOpAgain DEF Users
  <2> DEFINE m == Len(queue)
  <2>5. /\ m \in Nat /\ Len(q) \in Nat /\ DOMAIN queue = 1..m /\ DOMAIN q = 1..Len(q)
        /\ Len(queue') = m + Len(q) /\ DOMAIN queue' = 1..(m + Len(q))
        /\ \A a \in 1..(m + Len(q)) : queue'[a] = IF a <= m THEN queue[a] ELSE q[a - m]
    <3>1. queue' \in Seq(reach)
      BY <2>1, <2>2, <2>4
    <3> QED
      BY <2>1, <2>2, <2>4, <3>1
  <2> HIDE DEF m
  <2>6. \A a \in DOMAIN queue' : \/ a \in DOMAIN queue /\ queue'[a] = queue[a]
                                 \/ queue'[a] \notin Ops
    <3> SUFFICES ASSUME NEW a \in DOMAIN queue'
                 PROVE  \/ a \in DOMAIN queue /\ queue'[a] = queue[a]
                        \/ queue'[a] \notin Ops
      OBVIOUS
    <3>1. CASE a <= m
      BY <2>5, <3>1
    <3>2. CASE ~(a <= m)
      <4>1. a - m \in DOMAIN q /\ queue'[a] = q[a - m]
        BY <2>5, <3>2
      <4> QED
        BY <2>4, <4>1
    <3> QED
      BY <3>1, <3>2
  <2>7. Elements(queue') \cap Ops \subseteq Elements(queue)
    BY <2>6 DEF Elements
  <2>8. Elements(queue) \subseteq Elements(queue')
    <3>1. \A a \in DOMAIN queue : a \in DOMAIN queue' /\ queue'[a] = queue[a]
      BY <2>5
    <3> QED
      BY <3>1 DEF Elements
  <2>9. popped \subseteq Ops /\ Elements(queue) \cap popped = {}
    BY DEF InOrder, OnePass
  <2> QED
    BY <1>1, <2>6, <2>7, <2>8, <2>9 DEF InOrder, OnePass
<1> QED
  BY <1>2, <1>3 DEF Settle

LEMMA OrderOnSeed ==
  ASSUME IInv, InOrder, SeedQueue
  PROVE  InOrder'
<1>1. stage = "import" /\ popped = {} /\ UNCHANGED <<src, reach, popped>>
  BY DEF SeedQueue, InOrder, jobVars
<1>2. Ops' = Ops
  BY <1>1 DEF Ops, IsOperation
<1>3. CASE stage' = "pop" /\ queue' \in Ascending(Ops)
  <2>1. Ops \in SUBSET (1..Len(src)) /\ Len(src) \in Nat
    <3>1. src \in Graph /\ reach \subseteq DOMAIN src
      BY DEF IInv, TypeOK, RunTypeOK
    <3>2. DOMAIN src = 1..Len(src) /\ Len(src) \in Nat
      BY <3>1 DEF Graph
    <3> QED
      BY <3>1, <3>2 DEF Ops
  <2>2. Elements(queue') = Ops
    BY <1>3, <2>1, AscendingType
  <2>3. \A a, b \in DOMAIN queue' : a < b => queue'[a] < queue'[b]
    BY <1>3 DEF Ascending
  <2> QED
    BY <1>1, <1>2, <1>3, <2>2, <2>3 DEF InOrder, OnePass
<1>4. CASE stage' = "finish"
  BY <1>1, <1>4 DEF InOrder, OnePass
<1> QED
  BY <1>3, <1>4 DEF SeedQueue, Ops

LEMMA OrderInRun ==
  ASSUME IInv, Covered, InOrder, RunStep
  PROVE  InOrder'
<1> USE DEF jobVars, subjectVars
<1>1. CASE SeedQueue
  BY <1>1, OrderOnSeed
<1>2. CASE DropNode
  BY <1>2, OrderOnDrop
<1>3. CASE PopSubject
  BY <1>3, OrderOnPop
<1>4. CASE KeepOrReplace \/ RebuildNode
  <2>1. stage = "settle" /\ UNCHANGED <<src, reach, popped>>
    BY <1>4 DEF KeepOrReplace, RebuildNode
  <2>2. (\E node : Settle(node)) \/ (stage' = "finish" /\ queue' = queue)
    BY <1>4 DEF KeepOrReplace, RebuildNode, Stop
  <2>3. CASE stage' = "finish" /\ queue' = queue
    BY <2>1, <2>3 DEF InOrder, OnePass
  <2> QED
    BY <2>1, <2>2, <2>3, OrderOnSettle
<1>5. CASE TryRule
  <2>1. /\ UNCHANGED <<src, reach, popped, queue, cur>> /\ stage = "rules"
        /\ stage' \in {"rules", "settle", "finish"}
    BY <1>5 DEF TryRule, Overgrown, NoMatch, InvalidRewrite, ReplaceWith, RebuildExpression,
                Attempt, Stop
  <2> QED
    BY <2>1 DEF InOrder, OnePass, Ops, IsOperation
<1>6. CASE ImportBudgetSpent \/ ImportNode
  BY <1>6 DEF ImportBudgetSpent, ImportNode, InOrder, OnePass, Ops, IsOperation
<1>7. CASE QueueEmpty \/ SkipRule \/ StepBudgetSpent \/ RulesDone
  BY <1>7 DEF QueueEmpty, SkipRule, StepBudgetSpent, RulesDone, Stop, InOrder, OnePass,
              Ops, IsOperation
<1> QED
  BY <1>1, <1>2, <1>3, <1>4, <1>5, <1>6, <1>7 DEF RunStep

LEMMA OrderInEngine ==
  ASSUME IInv, InOrder, EngineStep
  PROVE  InOrder'
<1>1. CASE StartImport \/ StartPhase \/ StartCompaction
  <2>1. PICK g \in Graph, rs \in Seq(Nat), p \in Pass : StartRun(g, rs, p, nodeRewrites)
    BY <1>1, EngineStarts
  <2>2. popped' = {} /\ stage' \in {"import", "finish"}
    BY <2>1 DEF StartRun, Stop
  <2> QED
    BY <2>2 DEF InOrder, OnePass
<1>2. CASE ~StartImport /\ ~StartPhase /\ ~StartCompaction
  <2>1. stage' = "idle"
    BY <1>2, EngineRests
  <2>2. UNCHANGED <<popped, queue>>
    BY <1>2 DEF EngineStep, Reject, AfterImport, SkipPlan, PhaseBudgetSpent,
                AfterStoppedPhase, AfterStablePhase, AfterChangedPhase, EndSequence,
                NothingToCompact, AfterCompaction, RunOver, runVars
  <2> QED
    BY <2>1, <2>2 DEF InOrder, OnePass
<1> QED
  BY <1>1, <1>2

(* In one run no operation node is taken from the worklist twice, and each *)
(* is taken before those that use it.                                      *)
THEOREM NoneTakenTwice == Spec => [](InOrder /\ OnePass)
<1>1. Init => InOrder
  BY DEF Init, InOrder, OnePass
<1>2. IInv /\ Covered /\ InOrder /\ [Next]_vars => InOrder'
  BY OrderInRun, OrderInEngine
     DEF Next, vars, runVars, jobVars, subjectVars, InOrder, OnePass, Ops, IsOperation
<1>3. InOrder => OnePass
  BY DEF InOrder
<1> QED
  BY <1>1, <1>2, <1>3, Invariance, CopiesCover, PTL DEF Spec

-----------------------------------------------------------------------------
(* The end of a call.  A run that changed nothing has asked every enabled  *)
(* rule of its plan about every operation node it reaches, and each        *)
(* declined: a rule that did not would have named a node other than the    *)
(* copy at hand, or have led to another expression, since rules look only  *)
(* below the subject (RulesLookBelow).                                     *)
RulesLookBelow ==
  \A r \in EnabledRules, g \in Graph, e \in Expr :
    WellFormed(g) /\ Buildable(g, e) /\ e.op \in Operations =>
    \A S \in SUBSET DOMAIN g : ClosedIn(g, S) /\ Elements(e.args) \subseteq S =>
      /\ LooksBelow(r, e, g, S)
      /\ \A h \in Graph, m \in [S -> Nat] : WellFormed(h) => SameElsewhere(r, e, g, S, h, m)

DeclinedUpTo(i, n) ==
  \A k \in DOMAIN pass.rules : k <= n /\ pass.rules[k] \in EnabledRules =>
    Declined(pass.rules[k], ExprOf(src[i]), src)

AllDeclined(i) == DeclinedUpTo(i, Len(pass.rules))

(* The nodes the subject may name, a set that leaves out the copy of cur.  *)
Apart ==
  \E S \in SUBSET DOMAIN out :
    /\ ClosedIn(out, S) /\ Old \notin S
    /\ Elements(subject.args) \cap DOMAIN out \subseteq S

SubjectAsked ==
  /\ CopyOf(cur) \in seen /\ Apart /\ subject.op \in Operations
  /\ IF applied = <<>>
     THEN /\ subject = CopyOf(cur) /\ final = None /\ DeclinedUpTo(cur, ruleIx - 1)
          /\ stage = "settle" => ruleIx > Len(pass.rules)
     ELSE IF final = None THEN subject # CopyOf(cur) ELSE final # Old

Asked ==
  stage \in {"pop", "rules", "settle", "finish"} /\ pass.plan /\ runStatus = "complete"
      /\ ~changed =>
    /\ \A i \in popped : AllDeclined(i) \/ (stage \in {"rules", "settle"} /\ i = cur)
    /\ stage \in {"rules", "settle"} => SubjectAsked
    /\ stage = "finish" => Ops \subseteq popped

(* The node at hand, its copy and its expression.                          *)
LEMMA AtHand ==
  ASSUME IInv, Covered, ExactCopies, stage \notin {"idle", "import"},
         runStatus = "complete", pass.plan => ~changed, NEW i \in reach
  PROVE  /\ copied[i] \in DOMAIN out /\ ExprOf(out[copied[i]]) = CopyOf(i)
         /\ CopyOf(i) \in Expr /\ Buildable(out, CopyOf(i))
         /\ CopyOf(i) = Moved(ExprOf(src[i]), [j \in reach |-> copied[j]])
         /\ ExprOf(src[i]) \in Expr /\ Buildable(src, ExprOf(src[i]))
         /\ reach \in SUBSET DOMAIN src /\ ClosedIn(src, reach)
         /\ Elements(src[i].args) \subseteq reach
         /\ Mirrors(src, reach, out, [j \in reach |-> copied[j]])
<1> DEFINE m == [j \in reach |-> copied[j]]
<1>1. /\ src \in Graph /\ out \in Graph /\ WellFormed(src) /\ WellFormed(out)
      /\ reach = Reachable(src, Elements(roots)) /\ reach \subseteq DOMAIN src /\ todo = {}
      /\ \A j \in reach : copied[j] # None
  BY DEF IInv, TypeOK, RunTypeOK, RunInv, Covered
<1>2. ClosedIn(src, reach)
  BY <1>1, ReachClosed
<1>3. /\ \A j \in reach : copied[j] \in DOMAIN out /\ ExprOf(out[copied[j]]) = CopyOf(j)
      /\ \A j, k \in reach : copied[j] = copied[k] => j = k
  BY <1>1 DEF Covered, ExactCopies, IInv, TypeOK, RunTypeOK, RunInv, CopiesSound, StandsFor
<1>4. ASSUME NEW j \in reach
      PROVE  /\ Elements(src[j].args) \subseteq reach
             /\ CopyOf(j) = Moved(ExprOf(src[j]), m)
  <2>1. Elements(src[j].args) \subseteq reach
    BY <1>2 DEF ClosedIn
  <2>2. \A k \in DOMAIN src[j].args : m[src[j].args[k]] = copied[src[j].args[k]]
    BY <2>1 DEF Elements
  <2>3. Mapped(src[j].args) = [k \in DOMAIN src[j].args |-> m[src[j].args[k]]]
    BY <2>2 DEF Mapped
  <2> DEFINE e == ExprOf(src[j])
  <2>4. e = [op |-> src[j].op, type |-> src[j].type, args |-> src[j].args]
    BY DEF ExprOf
  <2> HIDE DEF e
  <2>5. Moved(e, m) = [e EXCEPT !.args = Mapped(src[j].args)]
    BY <2>3, <2>4 DEF Moved
  <2>6. Moved(e, m) = CopyOf(j)
    BY <2>4, <2>5 DEF CopyOf
  <2> QED
    BY <2>1, <2>6 DEF e
<1>5. CopyOf(i) \in Expr /\ Buildable(out, CopyOf(i))
  <2>1. Resolved(src[i].args)
    BY <1>1, <1>4 DEF Resolved, Elements
  <2> QED
    BY <1>1, <2>1, CopySound DEF IInv, TypeOK
<1>6. ExprOf(src[i]) \in Expr
  <2>1. src[i] \in Node
    BY <1>1 DEF Graph
  <2> QED
    BY <2>1 DEF Node, Expr, ExprOf
<1>7. Buildable(src, ExprOf(src[i]))
  <2>1. Buildable(src, src[i])
    BY <1>1 DEF WellFormed, ValidNode
  <2> QED
    BY <2>1, BuildableAlike DEF ExprOf
<1>8. Mirrors(src, reach, out, m)
  BY <1>3, <1>4 DEF Mirrors
<1> QED
  BY <1>1, <1>2, <1>3, <1>4, <1>5, <1>6, <1>7, <1>8

(* A rule that declines the copy declines the node it is the copy of.      *)
LEMMA DeclinesThere ==
  ASSUME RulesLookBelow, IInv, Covered, ExactCopies, stage = "rules", ~changed,
         subject = CopyOf(cur), subject.op \in Operations, NEW r \in EnabledRules,
         NEW o \in Outcomes(r, subject, out), o.kind = "no_match"
  PROVE  Declined(r, ExprOf(src[cur]), src)
<1> DEFINE m == [j \in reach |-> copied[j]]
           e == ExprOf(src[cur])
<1>1. cur \in reach /\ src \in Graph /\ out \in Graph /\ WellFormed(src) /\ WellFormed(out)
      /\ copied \in [DOMAIN src -> Nat] /\ runStatus = "complete"
  BY DEF IInv, TypeOK, RunTypeOK, RunInv, Covered
<1>2. /\ subject \in Expr /\ Buildable(out, subject) /\ subject = Moved(e, m)
      /\ e \in Expr /\ Buildable(src, e) /\ Mirrors(src, reach, out, m)
      /\ reach \in SUBSET DOMAIN src /\ ClosedIn(src, reach) /\ Elements(e.args) \subseteq reach
  BY <1>1, AtHand DEF ExprOf
<1>3. ClosedIn(out, DOMAIN out) /\ Elements(subject.args) \subseteq DOMAIN out
      /\ e.op \in Operations
  BY <1>2 DEF CopyOf, ExprOf, ClosedIn, Elements, WellFormed, ValidNode, Buildable, IInv, RunInv
<1>4. LooksBelow(r, subject, out, DOMAIN out)
  BY <1>1, <1>2, <1>3 DEF RulesLookBelow
<1>5. Declined(r, Moved(e, m), out)
  BY <1>2, <1>4 DEF LooksBelow
<1>6. m \in [reach -> Nat]
  BY <1>1, <1>2
<1> HIDE DEF m, e
<1>7. SameElsewhere(r, e, src, reach, out, m)
  BY <1>1, <1>2, <1>3, <1>6 DEF RulesLookBelow
<1>8. Declined(r, e, src)
  BY <1>2, <1>5, <1>7 DEF SameElsewhere
<1> QED
  BY <1>8 DEF e

(* Taking a node from the queue: what comes before its copy is apart.      *)
LEMMA AskedOnPop ==
  ASSUME IInv, Covered, ExactCopies, Asked, PopSubject
  PROVE  Asked'
<1>1. /\ stage = "pop" /\ stage' = "rules" /\ queue # <<>> /\ cur' = Head(queue)
      /\ popped' = popped \cup {cur'} /\ subject' = CopyOf(cur') /\ seen' = {subject'}
      /\ ruleIx' = 1 /\ applied' = <<>> /\ final' = None
      /\ UNCHANGED <<src, roots, pass, reach, out, copied, changed, runStatus>>
  BY DEF PopSubject, jobVars
<1> SUFFICES ASSUME ~changed
             PROVE  Asked'
  BY <1>1 DEF Asked
<1>2. pass.plan /\ runStatus = "complete"
  BY <1>1 DEF Covered
<1>3. cur' \in reach
  BY <1>1, QueueFacts DEF IInv, TypeOK, RunTypeOK
<1>4. \A i \in popped : AllDeclined(i)
  BY <1>1, <1>2 DEF Asked
<1>5. \A i : AllDeclined(i)' = AllDeclined(i)
  BY <1>1 DEF AllDeclined, DeclinedUpTo
<1>6. subject' = CopyOf(cur)' /\ Old' = copied[cur']
  BY <1>1 DEF CopyOf, Mapped, Old
<1>7. Apart'
  <2> DEFINE S == 1..(copied[cur'] - 1)
  <2>1. /\ copied[cur'] \in DOMAIN out /\ ExprOf(out[copied[cur']]) = CopyOf(cur')
        /\ out \in Graph /\ WellFormed(out)
    BY <1>1, <1>2, <1>3, AtHand DEF IInv, TypeOK, RunTypeOK, RunInv
  <2>2. DOMAIN out = 1..Len(out) /\ Len(out) \in Nat
    BY <2>1 DEF Graph
  <2>3. S \in SUBSET DOMAIN out /\ copied[cur'] \notin S
    BY <2>1, <2>2
  <2>4. ASSUME NEW n \in DOMAIN out, n <= copied[cur']
        PROVE  Elements(out[n].args) \subseteq S
    <3>1. \A k \in DOMAIN out[n].args : out[n].args[k] \in 1..(n - 1)
      BY <2>1 DEF WellFormed, ValidNode
    <3>2. 1..(n - 1) \subseteq S
      BY <2>1, <2>2, <2>4
    <3> QED
      BY <3>1, <3>2 DEF Elements
  <2>5. ClosedIn(out, S)
    <3>1. \A n \in S : n \in DOMAIN out /\ n <= copied[cur']
      BY <2>1, <2>2
    <3> QED
      BY <2>4, <3>1 DEF ClosedIn
  <2>6. Elements(subject'.args) \subseteq S
    <3>1. subject'.args = out[copied[cur']].args
      BY <1>1, <2>1 DEF ExprOf
    <3>2. copied[cur'] <= copied[cur']
      BY <2>1, <2>2
    <3> QED
      BY <2>1, <2>4, <3>1, <3>2
  <2> QED
    BY <1>1, <1>6, <2>3, <2>5, <2>6 DEF Apart
<1>8. DeclinedUpTo(cur, ruleIx - 1)'
  <2>1. \A k \in DOMAIN pass.rules : ~(k <= 1 - 1)
    BY DEF IInv, TypeOK, RunTypeOK, Pass
  <2> QED
    BY <1>1, <2>1 DEF DeclinedUpTo
<1>9. SubjectAsked'
  <2>1. subject'.op \in Operations
    BY <1>1 DEF PopSubject, Ready, IsOperation, CopyOf
  <2> QED
    BY <1>1, <1>6, <1>7, <1>8, <2>1 DEF SubjectAsked
<1> QED
  BY <1>1, <1>4, <1>5, <1>9 DEF Asked

(* The part of the state that an attempt leaves as it is.                  *)
SameJob ==
  UNCHANGED <<src, roots, pass, reach, copied, cur, popped, changed>>

(* Attempts that leave the subject as it is, and skipped rules: a node     *)
(* appended to the output is no operand of the subject.                    *)
LEMMA ApartKept ==
  ASSUME IInv, Apart, stage = "rules", SameJob, subject' = subject,
         out' \in Graph, ExtendsGraph(out', out)
  PROVE  Apart'
<1>1. PICK S \in SUBSET DOMAIN out :
        /\ ClosedIn(out, S) /\ Old \notin S
        /\ Elements(subject.args) \cap DOMAIN out \subseteq S
  BY DEF Apart
<1>2. out \in Graph /\ subject \in Expr /\ Known(out, subject) /\ Old' = Old
  BY DEF IInv, TypeOK, RunTypeOK, RunInv, SubjectSound, Old, SameJob
<1>3. S \in SUBSET DOMAIN out' /\ \A n \in DOMAIN out : out'[n] = out[n]
  BY <1>1, <1>2, ExtendsDomain DEF ExtendsGraph
<1>4. ClosedIn(out', S)
  BY <1>1, <1>3 DEF ClosedIn
<1>5. ASSUME NEW k \in DOMAIN subject.args, subject.args[k] \in DOMAIN out'
      PROVE  subject.args[k] \in S
  <2>1. subject.args[k] <= Len(out) /\ subject.args[k] \in 1..Len(out')
    BY <1>2, <1>5 DEF Known, Graph
  <2>2. subject.args[k] \in DOMAIN out
    BY <1>2, <2>1 DEF Graph
  <2> QED
    BY <1>1, <2>2 DEF Elements
<1> QED
  BY <1>1, <1>2, <1>3, <1>4, <1>5 DEF Apart, Elements

(* The node's turn goes on with the next rule when this one does not apply *)
(* or is switched off.                                                     *)
LEMMA NextRule ==
  ASSUME IInv, Covered, ExactCopies, Asked, stage = "rules", ~changed,
         SameJob, UNCHANGED <<stage, subject, seen, applied, final, runStatus>>,
         ruleIx' = ruleIx + 1, out' \in Graph, ExtendsGraph(out', out),
         ruleIx <= Len(pass.rules),
         subject = CopyOf(cur) /\ Rule \in EnabledRules => Declined(Rule, ExprOf(src[cur]), src)
  PROVE  Asked'
<1>1. pass.plan /\ runStatus = "complete" /\ SubjectAsked
      /\ \A i \in popped : i = cur \/ AllDeclined(i)
  BY DEF Covered, Asked
<1>2. \A i : CopyOf(i)' = CopyOf(i) /\ AllDeclined(i)' = AllDeclined(i) /\ Old' = Old
  BY DEF SameJob, CopyOf, Mapped, AllDeclined, DeclinedUpTo, Old
<1>3. Apart'
  BY <1>1, ApartKept DEF SubjectAsked
<1>4. ASSUME applied = <<>>
      PROVE  DeclinedUpTo(cur, ruleIx - 1)'
  <2>1. ruleIx \in Nat /\ pass.rules \in Seq(Rules)
    BY DEF IInv, TypeOK, RunTypeOK, Pass
  <2>2. \A k \in DOMAIN pass.rules : k <= ruleIx' - 1 => k <= ruleIx - 1 \/ k = ruleIx
    BY <2>1
  <2>3. subject = CopyOf(cur) /\ DeclinedUpTo(cur, ruleIx - 1)
    BY <1>1, <1>4 DEF SubjectAsked
  <2> QED
    BY <2>2, <2>3 DEF DeclinedUpTo, SameJob, Rule
<1>5. cur' = cur
  BY DEF SameJob
<1>6. SubjectAsked'
  BY <1>1, <1>2, <1>3, <1>4, <1>5 DEF SubjectAsked
<1> QED
  BY <1>1, <1>2, <1>5, <1>6 DEF Asked, SameJob

(* Where an outcome of a rule may lead: to nodes below the subject or to   *)
(* nodes the rule built, and so never to the copy of the node at hand.     *)
LEMMA StaysApart ==
  ASSUME RulesLookBelow, IInv, Covered, Apart, subject.op \in Operations, stage = "rules",
         Rule \in EnabledRules, NEW o \in Outcomes(Rule, subject, out),
         Contract(subject, out, o), o.kind \in {"replace", "rebuild"}
  PROVE  \E T \in SUBSET DOMAIN o.graph :
           /\ ClosedIn(o.graph, T) /\ Old \notin T
           /\ o.kind = "replace" /\ o.node \in DOMAIN o.graph => o.node \in T
           /\ o.kind = "rebuild" => Elements(o.to.args) \cap DOMAIN o.graph \subseteq T
<1>1. PICK S \in SUBSET DOMAIN out :
        /\ ClosedIn(out, S) /\ Old \notin S
        /\ Elements(subject.args) \cap DOMAIN out \subseteq S
  BY DEF Apart
<1>2. /\ out \in Graph /\ WellFormed(out) /\ subject \in Expr /\ o.graph \in Graph
      /\ ExtendsGraph(o.graph, out) /\ Buildable(out, subject)
  BY DEF IInv, TypeOK, RunTypeOK, RunInv, Contract, Outcome
<1>3. Elements(subject.args) \subseteq S
  BY <1>1, <1>2 DEF Buildable, Elements
<1>4. StaysWithin(out, S, o)
  BY <1>1, <1>2, <1>3 DEF RulesLookBelow, LooksBelow
<1>5. With(out, S, o) \in SUBSET DOMAIN o.graph
  BY <1>1, <1>2, ExtendsDomain DEF With
<1>6. Old \notin With(out, S, o)
  <2>1. cur \in reach /\ runStatus = "complete" /\ todo = {}
    BY DEF IInv, TypeOK, RunTypeOK, Covered
  <2>2. Old \in DOMAIN out
    BY <2>1 DEF Covered, IInv, TypeOK, RunTypeOK, RunInv, CopiesSound, StandsFor, Old
  <2>3. ~(Old > Len(out))
    BY <1>2, <2>2 DEF Graph
  <2> QED
    BY <1>1, <2>3 DEF With
<1> QED
  BY <1>4, <1>5, <1>6 DEF StaysWithin

LEMMA AskedOnTry ==
  ASSUME RulesLookBelow, IInv, Covered, ExactCopies, Asked, TryRule
  PROVE  Asked'
<1>1. /\ stage = "rules" /\ ruleIx <= Len(pass.rules) /\ Rule \in EnabledRules
      /\ pass.plan /\ runStatus = "complete"
  BY DEF TryRule, Covered
<1>2. PICK o \in Outcomes(Rule, subject, out) :
        \/ Overgrown(o) \/ NoMatch(o) \/ InvalidRewrite(o)
        \/ ReplaceWith(o) \/ RebuildExpression(o)
  BY DEF TryRule
<1>3. Attempt(o)
  BY <1>2 DEF Overgrown, NoMatch, InvalidRewrite, ReplaceWith, RebuildExpression
<1>4. /\ SameJob /\ Contract(subject, out, o) /\ out' = o.graph
      /\ out' \in Graph /\ ExtendsGraph(out', out)
  BY <1>3 DEF Attempt, SameJob, jobVars, Contract, Outcome
<1> SUFFICES ASSUME ~changed, runStatus' = "complete"
             PROVE  Asked'
  BY <1>4 DEF Asked, SameJob
<1>5. SubjectAsked /\ \A i \in popped : i = cur \/ AllDeclined(i)
  BY <1>1 DEF Asked
<1>6. cur' = cur /\ \A i : CopyOf(i)' = CopyOf(i) /\ AllDeclined(i)' = AllDeclined(i) /\ Old' = Old
  BY <1>4 DEF SameJob, CopyOf, Mapped, AllDeclined, DeclinedUpTo, Old
<1>7. CASE NoMatch(o)
  <2>1. ruleIx' = ruleIx + 1 /\ UNCHANGED <<stage, subject, seen, applied, final, runStatus>>
        /\ o.kind = "no_match"
    BY <1>7 DEF NoMatch
  <2>2. subject = CopyOf(cur) => Declined(Rule, ExprOf(src[cur]), src)
    BY <1>1, <1>5, <2>1, DeclinesThere DEF SubjectAsked
  <2> QED
    BY <1>1, <1>4, <2>1, <2>2, NextRule
<1>8. Append(applied, Rule) # <<>>
  <2>1. applied \in Seq(Rules) /\ Rule \in Rules
    BY <1>1, RulesAssumption DEF IInv, TypeOK, RunTypeOK
  <2>2. Len(Append(applied, Rule)) = Len(applied) + 1 /\ Len(applied) \in Nat
    BY <2>1
  <2>3. Len(Append(applied, Rule)) # Len(<<>>)
    BY <2>2
  <2> QED
    BY <2>3
<1>9. CASE ReplaceWith(o)
  <2>1. /\ o.kind = "replace" /\ o.node \in DOMAIN o.graph /\ final' = o.node
        /\ applied' = Append(applied, Rule) /\ stage' = "settle"
        /\ UNCHANGED <<subject, seen>>
    BY <1>9 DEF ReplaceWith, Stop, AcceptableNode
  <2>2. Apart'
    BY <1>1, <1>4, <1>5, <2>1, ApartKept DEF SubjectAsked
  <2>3. o.node # Old /\ o.node # None
    <3>1. o.node # Old
      BY <1>1, <1>4, <1>5, <2>1, StaysApart DEF SubjectAsked
    <3>2. o.graph \in Seq(Node) /\ o.node \in 1..Len(o.graph)
      BY <1>4, <2>1 DEF Graph
    <3> QED
      BY <3>1, <3>2 DEF None
  <2>4. SubjectAsked'
    BY <1>5, <1>6, <1>8, <2>1, <2>2, <2>3 DEF SubjectAsked
  <2> QED
    BY <1>4, <1>5, <1>6, <2>1, <2>4 DEF Asked, SameJob
<1>10. CASE RebuildExpression(o)
  <2>1. /\ o.kind = "rebuild" /\ final' = final /\ o.to \notin seen
        /\ applied' = Append(applied, Rule) /\ stage' = stage
        /\ subject' = o.to /\ seen' = seen \cup {o.to}
    BY <1>10 DEF RebuildExpression, RebuildFailure, Stop
  <2>2. Apart'
    BY <1>1, <1>4, <1>5, <1>6, <2>1, StaysApart DEF SubjectAsked, Apart
  <2>3. final = None
    BY <1>1 DEF IInv, RunInv, FinalSound
  <2>4. SubjectAsked'
    <3>1. o.to.op \in Operations
      BY <1>4 DEF Contract, Outcome
    <3> QED
      BY <1>5, <1>6, <1>8, <2>1, <2>2, <2>3, <3>1 DEF SubjectAsked
  <2> QED
    BY <1>1, <1>4, <1>5, <1>6, <2>1, <2>4 DEF Asked, SameJob
<1>11. CASE Overgrown(o) \/ InvalidRewrite(o)
  BY <1>11 DEF Overgrown, InvalidRewrite, Stop
<1> QED
  BY <1>2, <1>7, <1>9, <1>10, <1>11

(* The end of the node's turn: where nothing changes no rule has applied.  *)
LEMMA AskedOnSettle ==
  ASSUME IInv, Covered, ExactCopies, Asked, KeepOrReplace \/ RebuildNode
  PROVE  Asked'
<1>1. /\ stage = "settle" /\ pass.plan /\ runStatus = "complete"
      /\ UNCHANGED <<src, reach, pass, cur, popped>>
  BY DEF KeepOrReplace, RebuildNode, Covered, jobVars, subjectVars
<1> SUFFICES ASSUME ~changed', runStatus' = "complete"
             PROVE  Asked'
  BY DEF Asked
<1>2. stage' = "pop" /\ ~changed
      /\ IF final # None THEN final = Old ELSE MatchesSubject
  <2>1. cur \in reach /\ todo = {} /\ out \in Graph
    BY <1>1 DEF IInv, TypeOK, RunTypeOK, Covered
  <2>2. Old \in DOMAIN out
    BY <1>1, <2>1 DEF Covered, IInv, TypeOK, RunTypeOK, RunInv, CopiesSound, StandsFor, Old
  <2>3. Old # Len(out) + 1
    BY <2>1, <2>2 DEF Graph
  <2>4. CASE KeepOrReplace
    BY <2>4 DEF KeepOrReplace, Settle
  <2>5. CASE RebuildNode
    <3>1. subject \in Expr
      BY <1>1 DEF IInv, TypeOK, RunTypeOK
    <3>2. out' = Build(out, subject) /\ Buildable(out, subject) /\ Settle(Len(out'))
      BY <2>5 DEF RebuildNode, Stop
    <3>3. Len(out') = Len(out) + 1
      BY <2>1, <3>1, <3>2, BuildProperties
    <3> QED
      BY <2>3, <3>2, <3>3 DEF Settle
  <2> QED
    BY <2>4, <2>5
<1>3. SubjectAsked /\ \A i \in popped : i = cur \/ AllDeclined(i)
  BY <1>1, <1>2 DEF Asked
<1>4. MatchesSubject => subject = CopyOf(cur)
  <2>1. cur \in reach
    BY <1>1 DEF IInv, TypeOK, RunTypeOK
  <2> QED
    BY <1>1, <1>2, <2>1, AtHand DEF MatchesSubject, Old
<1>5. applied = <<>> /\ ruleIx > Len(pass.rules) /\ DeclinedUpTo(cur, ruleIx - 1)
  BY <1>1, <1>2, <1>3, <1>4 DEF SubjectAsked
<1>6. AllDeclined(cur)
  <2>1. ruleIx \in Nat /\ pass.rules \in Seq(Rules)
    BY DEF IInv, TypeOK, RunTypeOK, Pass
  <2>2. \A k \in DOMAIN pass.rules : k <= ruleIx - 1
    BY <1>5, <2>1
  <2> QED
    BY <1>5, <2>2 DEF DeclinedUpTo, AllDeclined
<1>7. \A i : AllDeclined(i)' = AllDeclined(i)
  BY <1>1 DEF AllDeclined, DeclinedUpTo
<1> QED
  BY <1>1, <1>2, <1>3, <1>6, <1>7 DEF Asked

LEMMA AskedOnControl ==
  ASSUME IInv, Covered, ExactCopies, InOrder, Asked,
         SeedQueue \/ QueueEmpty \/ DropNode \/ SkipRule \/ RulesDone
  PROVE  Asked'
<1>1. /\ UNCHANGED <<src, roots, pass, reach, out, copied, cur, popped, changed, runStatus>>
      /\ UNCHANGED <<subject, seen, applied, final>>
  BY DEF SeedQueue, QueueEmpty, DropNode, SkipRule, RulesDone, jobVars, subjectVars
<1>2. /\ \A i : CopyOf(i)' = CopyOf(i) /\ AllDeclined(i)' = AllDeclined(i)
      /\ Old' = Old /\ Ops' = Ops
  BY <1>1 DEF CopyOf, Mapped, AllDeclined, DeclinedUpTo, Old, Ops, IsOperation
<1>3. CASE SeedQueue
  <2>1. popped = {} /\ (pass.plan /\ runStatus = "complete" => stage' = "pop")
    BY <1>3 DEF SeedQueue, InOrder
  <2> QED
    BY <1>1, <2>1 DEF Asked
<1>4. CASE QueueEmpty
  <2>1. stage = "pop" /\ stage' = "finish" /\ Elements(queue) = {}
    BY <1>4 DEF QueueEmpty, Elements
  <2>2. Ops \subseteq popped
    BY <2>1 DEF InOrder
  <2> QED
    BY <1>1, <1>2, <2>1, <2>2 DEF Asked
<1>5. CASE DropNode
  <2>1. stage = "pop" /\ stage' = "pop"
    BY <1>5 DEF DropNode
  <2> QED
    BY <1>1, <1>2, <2>1 DEF Asked
<1>6. CASE SkipRule
  <2>1. /\ stage = "rules" /\ stage' = stage /\ ruleIx' = ruleIx + 1 /\ ruleIx <= Len(pass.rules)
        /\ Rule \notin EnabledRules /\ SameJob
    BY <1>1, <1>6 DEF SkipRule, SameJob
  <2>2. out' \in Graph /\ ExtendsGraph(out', out)
    BY <1>1, ExtendsReflexive DEF IInv, TypeOK, RunTypeOK
  <2>3. changed => Asked'
    BY <1>1 DEF Asked
  <2> QED
    BY <1>1, <2>1, <2>2, <2>3, NextRule
<1>7. CASE RulesDone
  <2>1. stage = "rules" /\ stage' = "settle" /\ ruleIx > Len(pass.rules) /\ ruleIx' = ruleIx
    BY <1>7 DEF RulesDone, subjectVars
  <2>2. Apart' = Apart /\ DeclinedUpTo(cur, ruleIx - 1)' = DeclinedUpTo(cur, ruleIx - 1)
    BY <1>1, <1>2, <2>1 DEF Apart, DeclinedUpTo
  <2>3. SubjectAsked => SubjectAsked'
    BY <1>1, <1>2, <2>1, <2>2 DEF SubjectAsked
  <2> QED
    BY <1>1, <1>2, <2>1, <2>3 DEF Asked
<1> QED
  BY <1>3, <1>4, <1>5, <1>6, <1>7

LEMMA AskedInRun ==
  ASSUME RulesLookBelow, IInv, Covered, ExactCopies, InOrder, Asked, RunStep
  PROVE  Asked'
<1>1. CASE ImportBudgetSpent \/ ImportNode
  <2>1. stage' = "import"
    BY <1>1 DEF ImportBudgetSpent, ImportNode
  <2> QED
    BY <2>1 DEF Asked
<1>2. CASE SeedQueue \/ QueueEmpty \/ DropNode \/ SkipRule \/ RulesDone
  BY <1>2, AskedOnControl
<1>3. CASE PopSubject
  BY <1>3, AskedOnPop
<1>4. CASE StepBudgetSpent
  <2>1. runStatus' # "complete"
    BY <1>4 DEF StepBudgetSpent, Stop
  <2> QED
    BY <2>1 DEF Asked
<1>5. CASE TryRule
  BY <1>5, AskedOnTry
<1>6. CASE KeepOrReplace \/ RebuildNode
  BY <1>6, AskedOnSettle
<1> QED
  BY <1>1, <1>2, <1>3, <1>4, <1>5, <1>6 DEF RunStep

LEMMA AskedInEngine ==
  ASSUME IInv, EngineStep
  PROVE  Asked'
<1>1. CASE StartImport \/ StartPhase \/ StartCompaction
  <2>1. PICK g \in Graph, rs \in Seq(Nat), p \in Pass : StartRun(g, rs, p, nodeRewrites)
    BY <1>1, EngineStarts
  <2>2. stage' = "import" \/ runStatus' # "complete"
    BY <2>1 DEF StartRun, Stop
  <2> QED
    BY <2>2 DEF Asked
<1>2. CASE ~StartImport /\ ~StartPhase /\ ~StartCompaction
  BY <1>2, EngineRests DEF Asked
<1> QED
  BY <1>1, <1>2

(* A stutter leaves the questions as they are.                             *)
LEMMA AskedStill ==
  ASSUME Asked, UNCHANGED vars
  PROVE  Asked'
<1>1. /\ UNCHANGED <<src, roots, pass, reach, out, copied, cur, popped, changed, runStatus>>
      /\ UNCHANGED <<stage, subject, seen, applied, final, ruleIx>>
  BY DEF vars, runVars, jobVars, subjectVars
<1>2. /\ \A i : CopyOf(i)' = CopyOf(i) /\ AllDeclined(i)' = AllDeclined(i)
      /\ Old' = Old /\ Ops' = Ops
  BY <1>1 DEF CopyOf, Mapped, AllDeclined, DeclinedUpTo, Old, Ops, IsOperation
<1>3. Apart' = Apart /\ DeclinedUpTo(cur, ruleIx - 1)' = DeclinedUpTo(cur, ruleIx - 1)
  BY <1>1, <1>2 DEF Apart, DeclinedUpTo
<1>4. SubjectAsked => SubjectAsked'
  BY <1>1, <1>2, <1>3 DEF SubjectAsked
<1> QED
  BY <1>1, <1>2, <1>4 DEF Asked

-----------------------------------------------------------------------------
(* The sequence of plans: as long as nothing has changed since it began,   *)
(* the plans it has been through are stable on what the working roots use. *)
StableOn(i, g, S) ==
  Plans[i].enabled =>
    \A r \in Elements(Plans[i].rules) \cap EnabledRules, n \in S :
      g[n].op \in Operations => Declined(r, ExprOf(g[n]), g)

InUse == Reachable(working, Elements(workingRoots))

Emptied == workingRoots = <<>> /\ status = "complete" => working = <<>>

SequenceStable ==
  /\ pc \in {"validate", "import"} => planIx = 1 /\ ~stop
  /\ pc = "phase" => planIx \in DOMAIN Plans /\ ~stop /\ pass = PhasePass(Plans[planIx])
  /\ pc \in {"plans", "phase"} /\ ~stop /\ ~changedSequence =>
       \A i \in DOMAIN Plans : i < planIx => StableOn(i, working, InUse)
  /\ pc = "plans" /\ stop => status # "complete"
  /\ pc \in {"compact", "compacting"} /\ status = "complete" =>
       \A i \in DOMAIN Plans : StableOn(i, working, InUse)
  /\ CompleteIsStable

(* A working graph without roots is empty, unless roots were lost.         *)
LEMMA EmptiedStep ==
  ASSUME IInv, Covered, Rootless, Emptied, EngineStep
  PROVE  Emptied'
<1> SUFFICES ASSUME workingRoots' = <<>>, status' = "complete"
             PROVE  working' = <<>>
  BY DEF Emptied
<1>1. CASE UNCHANGED <<working, workingRoots>>
  BY <1>1, StatusFalls DEF Emptied
<1>2. CASE stage = "finish" /\ Adopts
  <2>1. PICK p \in Ascending(KeptRoots) :
          /\ workingRoots' = [k \in DOMAIN p |-> copied[roots[p[k]]]] /\ working' = out
          /\ pc = "import" \/ (pc \in {"phase", "compacting"} /\ SameRoots)
    BY <1>2 DEF Adopts
  <2>2. KeptRoots = 1..Len(roots)
    <3>1. CASE pc = "import"
      <4>1. status' = MergedStatus(status, ResultStatus)
        BY <3>1 DEF EngineStep, Reject, StartImport, AfterImport, SkipPlan, PhaseBudgetSpent,
                    StartPhase, AfterStoppedPhase, AfterStablePhase, AfterChangedPhase,
                    EndSequence, NothingToCompact, StartCompaction, AfterCompaction
      <4>2. runStatus = "complete"
        BY <4>1, ResultIsRunStatus DEF MergedStatus, IInv, TypeOK, RunTypeOK, Statuses
      <4> QED
        BY <1>2, <4>2, AllRootsKept
    <3>2. CASE pc # "import"
      BY <2>1, <3>2, SameRootsKept
    <3> QED
      BY <3>1, <3>2
  <2>3. DOMAIN p = DOMAIN roots
    BY <2>2, RootsInPlace
  <2>4. DOMAIN p = {}
    BY <2>1
  <2>5. roots = <<>>
    <3>1. roots \in Seq(Nat) /\ DOMAIN roots = {}
      BY <2>3, <2>4 DEF IInv, TypeOK, RunTypeOK
    <3>2. Len(roots) = 0
      BY <3>1
    <3> QED
      BY <3>1, <3>2
  <2> QED
    BY <1>2, <2>1, <2>5 DEF Rootless
<1> QED
  BY <1>1, <1>2, RootsChange

(* A phase run that is complete and changed nothing leaves its plan stable.*)
LEMMA PhaseStable ==
  ASSUME IInv, Covered, Asked, SequenceStable, pc = "phase", stage = "finish",
         runStatus = "complete", ~changed
  PROVE  StableOn(planIx, working, InUse)
<1>1. /\ pass = PhasePass(Plans[planIx]) /\ src = working /\ reach = InUse
      /\ reach = Reachable(src, Elements(roots))
  BY DEF SequenceStable, IInv, EngineLinks, Covered, InUse
<1>2. pass.plan /\ pass.rules = Plans[planIx].rules /\ pass.rules \in Seq(Rules)
  BY <1>1 DEF PhasePass, IInv, TypeOK, RunTypeOK, Pass
<1>3. Ops \subseteq popped /\ \A i \in popped : AllDeclined(i)
  BY <1>2 DEF Asked
<1>4. ASSUME NEW r \in Elements(Plans[planIx].rules) \cap EnabledRules, NEW n \in InUse,
             working[n].op \in Operations
      PROVE  Declined(r, ExprOf(working[n]), working)
  <2>1. AllDeclined(n)
    BY <1>1, <1>3, <1>4 DEF Ops, IsOperation
  <2>2. PICK k \in DOMAIN pass.rules : pass.rules[k] = r
    BY <1>2 DEF Elements
  <2>3. k <= Len(pass.rules)
    BY <1>2
  <2> QED
    BY <1>1, <2>1, <2>2, <2>3 DEF AllDeclined, DeclinedUpTo
<1> QED
  BY <1>4 DEF StableOn

(* Compaction moves the nodes in use to other places, where the rules see  *)
(* what they have seen before.                                             *)
LEMMA CompactedStable ==
  ASSUME RulesLookBelow, IInv, Covered, PassLinks, Compacts, ExactCopies,
         pc = "compacting", stage = "finish",
         NEW i \in DOMAIN Plans, StableOn(i, working, InUse)
  PROVE  StableOn(i, out, DOMAIN out)
<1>1. /\ runStatus = "complete" /\ ~pass.plan /\ src = working /\ reach = InUse
      /\ \A n \in DOMAIN out : \E j \in reach : copied[j] = n
      /\ src \in Graph /\ out \in Graph /\ WellFormed(src) /\ WellFormed(out)
      /\ copied \in [DOMAIN src -> Nat]
  BY DEF Compacts, PassLinks, CompactionPass, IInv, EngineLinks, Covered, InUse, ExactCopies,
         TypeOK, RunTypeOK, RunInv
<1>2. ASSUME Plans[i].enabled, NEW r \in Elements(Plans[i].rules) \cap EnabledRules,
             NEW n \in DOMAIN out, out[n].op \in Operations
      PROVE  Declined(r, ExprOf(out[n]), out)
  <2> DEFINE m == [j \in reach |-> copied[j]]
  <2>1. PICK j \in reach : copied[j] = n
    BY <1>1
  <2>2. /\ ExprOf(out[n]) = Moved(ExprOf(src[j]), m) /\ ExprOf(out[n]) = CopyOf(j)
        /\ ExprOf(src[j]) \in Expr /\ Buildable(src, ExprOf(src[j]))
        /\ reach \in SUBSET DOMAIN src /\ ClosedIn(src, reach)
        /\ Elements(ExprOf(src[j]).args) \subseteq reach
        /\ Mirrors(src, reach, out, m)
    BY <1>1, <2>1, AtHand DEF ExprOf
  <2>3. src[j].op \in Operations
    BY <1>2, <2>2 DEF ExprOf, CopyOf
  <2>4. Declined(r, ExprOf(src[j]), src)
    BY <1>1, <1>2, <2>3 DEF StableOn
  <2>5. m \in [reach -> Nat]
    BY <1>1, <2>2
  <2> HIDE DEF m
  <2>6. SameElsewhere(r, ExprOf(src[j]), src, reach, out, m)
    <3>1. ExprOf(src[j]).op \in Operations
      BY <2>3 DEF ExprOf
    <3> QED
      BY <1>1, <2>2, <2>5, <3>1 DEF RulesLookBelow
  <2> QED
    BY <2>2, <2>4, <2>6 DEF SameElsewhere
<1> QED
  BY <1>2 DEF StableOn

(* The scheduling loop: a plan is passed over only when it has nothing to  *)
(* do or its run came to the end and changed nothing.                      *)
LEMMA SequenceOnPlans ==
  ASSUME IInv, Covered, SequenceStable, Asked,
         SkipPlan \/ PhaseBudgetSpent \/ StartPhase \/ AfterStoppedPhase \/ AfterStablePhase
           \/ AfterChangedPhase \/ EndSequence
  PROVE  SequenceStable'
<1>1. planIx \in Nat /\ Plans \in Seq(Plan) /\ status \in Statuses /\ ResultStatus = runStatus
      /\ runStatus \in Statuses
  BY PlansAssumption, ResultIsRunStatus DEF IInv, TypeOK, RunTypeOK
<1>2. CASE SkipPlan
  <2>1. /\ pc = "plans" /\ pc' = pc /\ ~stop /\ planIx' = planIx + 1 /\ planIx <= Len(Plans)
        /\ Plans[planIx].rules = <<>> \/ ~Plans[planIx].enabled
        /\ UNCHANGED <<working, workingRoots, changedSequence, stop>>
    BY <1>2 DEF SkipPlan
  <2>2. StableOn(planIx, working, InUse)
    BY <2>1 DEF StableOn, Elements
  <2>3. \A i \in DOMAIN Plans : i < planIx' => i < planIx \/ i = planIx
    BY <1>1, <2>1
  <2>4. InUse' = InUse
    BY <2>1 DEF InUse
  <2> QED
    BY <2>1, <2>2, <2>3, <2>4 DEF SequenceStable, CompleteIsStable
<1>3. CASE PhaseBudgetSpent
  BY <1>3 DEF PhaseBudgetSpent, SequenceStable, CompleteIsStable
<1>4. CASE StartPhase
  <2>1. /\ pc = "plans" /\ pc' = "phase" /\ ~stop /\ planIx <= Len(Plans)
        /\ UNCHANGED <<working, workingRoots, changedSequence, stop, planIx>>
        /\ pass' = PhasePass(Plans[planIx])
    BY <1>4 DEF StartPhase, StartRun
  <2>2. planIx \in DOMAIN Plans /\ InUse' = InUse
    <3>1. planIx \in 1..Len(Plans)
      BY <1>1, <2>1 DEF IInv, TypeOK
    <3> QED
      BY <1>1, <2>1, <3>1 DEF InUse
  <2> QED
    BY <2>1, <2>2 DEF SequenceStable, CompleteIsStable
<1>5. CASE AfterStoppedPhase
  <2>1. pc' = "plans" /\ stop' /\ runStatus # "complete" /\ pc = "phase"
    BY <1>1, <1>5 DEF AfterStoppedPhase
  <2>2. status' = MergedStatus(status, runStatus)
    BY <1>1, <1>5, <2>1, AlwaysComposable DEF AfterStoppedPhase
  <2>3. status' # "complete"
    BY <1>1, <2>1, <2>2 DEF MergedStatus, Statuses
  <2> QED
    BY <2>1, <2>3 DEF SequenceStable, CompleteIsStable
<1>6. CASE AfterStablePhase
  <2>1. /\ pc = "phase" /\ pc' = "plans" /\ stage = "finish" /\ runStatus = "complete" /\ ~changed
        /\ planIx' = planIx + 1 /\ UNCHANGED <<working, workingRoots, changedSequence, stop>>
    BY <1>1, <1>6 DEF AfterStablePhase, RunOver
  <2>2. StableOn(planIx, working, InUse)
    BY <2>1, PhaseStable
  <2>3. \A i \in DOMAIN Plans : i < planIx' => i < planIx \/ i = planIx
    BY <1>1, <2>1
  <2>4. InUse' = InUse
    BY <2>1 DEF InUse
  <2> QED
    BY <2>1, <2>2, <2>3, <2>4 DEF SequenceStable, CompleteIsStable
<1>7. CASE AfterChangedPhase
  <2>1. pc = "phase" /\ pc' = "plans" /\ stage = "finish" /\ runStatus = "complete"
    BY <1>1, <1>7 DEF AfterChangedPhase, RunOver
  <2>2. SameRoots /\ Composable(mapping, copied)
    <3>1. KeptRoots = 1..Len(roots) /\ roots = workingRoots /\ Len(roots) \in Nat
      BY <2>1, AllRootsKept DEF IInv, EngineLinks, TypeOK, RunTypeOK
    <3>2. \A n \in Nat : Cardinality(1..n) = n
      BY FS_Interval
    <3> QED
      BY <2>1, <3>1, <3>2, AlwaysComposable DEF SameRoots
  <2>3. changedSequence' /\ stop' = stop
    BY <1>7, <2>2 DEF AfterChangedPhase
  <2> QED
    BY <2>1, <2>3 DEF SequenceStable, CompleteIsStable
<1>8. CASE EndSequence
  <2>1. /\ pc = "plans" /\ (stop \/ planIx > Len(Plans)) /\ pc' \in {"plans", "compact"}
        /\ UNCHANGED <<working, workingRoots, stop, status>>
        /\ pc' = "plans" => planIx' = 1 /\ ~stop
        /\ pc' = "compact" => stop \/ ~changedSequence
    BY <1>8 DEF EndSequence
  <2>2. InUse' = InUse
    BY <2>1 DEF InUse
  <2>3. ASSUME pc' = "compact", ~stop, NEW i \in DOMAIN Plans
        PROVE  StableOn(i, working, InUse)
    <3>1. i < planIx
      BY <1>1, <2>1, <2>3
    <3> QED
      BY <2>1, <2>3, <3>1 DEF SequenceStable
  <2>4. \A i \in DOMAIN Plans : ~(i < 1)
    BY <1>1
  <2> QED
    BY <2>1, <2>2, <2>3, <2>4 DEF SequenceStable, CompleteIsStable
<1> QED
  BY <1>2, <1>3, <1>4, <1>5, <1>6, <1>7, <1>8

LEMMA SequenceInEngine ==
  ASSUME RulesLookBelow, IInv, Covered, PassLinks, Compacts, ExactCopies, Emptied, Asked,
         SequenceStable, EngineStep
  PROVE  SequenceStable'
<1>1. CASE SkipPlan \/ PhaseBudgetSpent \/ StartPhase \/ AfterStoppedPhase \/ AfterStablePhase
           \/ AfterChangedPhase \/ EndSequence
  BY <1>1, SequenceOnPlans
<1>2. CASE Reject
  BY <1>2 DEF Reject, SequenceStable, CompleteIsStable
<1>3. CASE StartImport
  BY <1>3 DEF StartImport, SequenceStable, CompleteIsStable
<1>4. CASE AfterImport
  <2>1. /\ pc = "import" /\ planIx' = planIx /\ stop' = stop
        /\ pc' = "plans" \/ (pc' = "compact" /\ status' # "complete")
    BY <1>4 DEF AfterImport
  <2>2. \A i \in DOMAIN Plans : ~(i < 1)
    BY PlansAssumption
  <2> QED
    BY <2>1, <2>2 DEF SequenceStable, CompleteIsStable
<1>5. CASE NothingToCompact
  <2>1. /\ pc = "compact" /\ pc' = "done" /\ workingRoots = <<>>
        /\ UNCHANGED <<working, call>> /\ status' \in {status, "internal_failure"}
    BY <1>5 DEF NothingToCompact
  <2>2. status' = "complete" => DOMAIN working = {}
    BY <2>1 DEF Emptied
  <2> QED
    BY <2>1, <2>2 DEF SequenceStable, CompleteIsStable
<1>6. CASE StartCompaction
  <2>1. /\ pc = "compact" /\ pc' = "compacting" /\ UNCHANGED <<working, workingRoots, status, stop>>
    BY <1>6 DEF StartCompaction
  <2>2. InUse' = InUse
    BY <2>1 DEF InUse
  <2> QED
    BY <2>1, <2>2 DEF SequenceStable, CompleteIsStable
<1>7. CASE AfterCompaction
  <2>1. pc = "compacting" /\ pc' = "done" /\ stage = "finish" /\ call' = call
    BY <1>7 DEF AfterCompaction, RunOver
  <2>2. working' = out
    BY <1>7, <2>1, CompactionKeepsRoots, AlwaysComposable DEF AfterCompaction, Adopt
  <2>3. ASSUME status' = "complete", NEW i \in DOMAIN Plans
        PROVE  StableOn(i, out, DOMAIN out)
    <3>1. status = "complete"
      BY <2>3, StatusFalls
    <3>2. StableOn(i, working, InUse)
      BY <2>1, <3>1 DEF SequenceStable
    <3> QED
      BY <2>1, <3>2, CompactedStable
  <2>4. status' = "complete" => \A i \in DOMAIN Plans : StableOn(i, working', DOMAIN working')
    BY <2>2, <2>3
  <2> QED
    BY <2>1, <2>4 DEF SequenceStable, CompleteIsStable, StableOn
<1> QED
  BY <1>1, <1>2, <1>3, <1>4, <1>5, <1>6, <1>7 DEF EngineStep

LEMMA SequenceInRun ==
  ASSUME Emptied, SequenceStable, UNCHANGED <<engineVars, pass>>
  PROVE  Emptied' /\ SequenceStable'
<1>1. /\ UNCHANGED <<pc, call, working, workingRoots, status, planIx, changedSequence, stop, pass>>
  BY DEF engineVars
<1>2. InUse' = InUse /\ \A i, g, S : StableOn(i, g, S)' = StableOn(i, g, S)
  BY <1>1 DEF InUse, StableOn
<1>3. CompleteIsStable' = CompleteIsStable
  BY <1>1 DEF CompleteIsStable
<1> QED
  BY <1>1, <1>2, <1>3 DEF Emptied, SequenceStable

(* With rules that look only below the subject, a complete result is       *)
(* stable: "canonicalization revisits earlier phases until the full phase  *)
(* sequence is stable" holds for every budget, scheduler, catalogue and    *)
(* input, of the graph that compaction has built and not only of the one   *)
(* the last phases looked at.                                              *)
THEOREM ResultIsStable ==
  ASSUME RulesLookBelow
  PROVE  Spec => []CompleteIsStable
<1>1. Init => Asked /\ Emptied /\ SequenceStable
  BY DEF Init, Asked, Emptied, SequenceStable, CompleteIsStable
<1>2. IInv /\ Covered /\ PassLinks /\ Rootless /\ Compacts /\ ExactCopies /\ InOrder
        /\ Asked /\ Emptied /\ SequenceStable /\ [Next]_vars
        => (Asked /\ Emptied /\ SequenceStable)'
  <2> SUFFICES ASSUME IInv, Covered, PassLinks, Rootless, Compacts, ExactCopies, InOrder,
                      Asked, Emptied, SequenceStable, [Next]_vars
               PROVE  (Asked /\ Emptied /\ SequenceStable)'
    OBVIOUS
  <2>1. CASE EngineStep
    BY <2>1, AskedInEngine, EmptiedStep, SequenceInEngine
  <2>2. CASE RunStep /\ UNCHANGED engineVars
    BY <2>2, AskedInRun, SequenceInRun, RunStepJob
  <2>3. CASE UNCHANGED vars
    BY <2>3, AskedStill, SequenceInRun DEF vars, runVars, jobVars
  <2> QED
    BY <2>1, <2>2, <2>3 DEF Next
<1>3. SequenceStable => CompleteIsStable
  BY DEF SequenceStable
<1> QED
  BY <1>1, <1>2, <1>3, NoneTakenTwice, Invariance, CopiesCover, PassLinked, RootlessSmall,
     CompactionCompletes, CopiesExact, PTL DEF Spec
=============================================================================
