---------------------------- MODULE Canonicalizer ----------------------------
(***************************************************************************)
(* engine::canonicalize (lib/canonicalizer/engine.cpp): import the part of *)
(* the input graph its roots reach, run the scheduler's plans over the     *)
(* copy until a whole sequence of plans changes nothing, compact, return.  *)
(* Every run of worklist_engine builds a new graph; the engine decides     *)
(* whether the run's graph becomes the working graph (adoption), and keeps *)
(* the mapping from input nodes to nodes of the working graph.             *)
(***************************************************************************)
EXTENDS Worklist

CONSTANTS
  Plans,          \* pass_scheduler::plans(), with is_phase_enabled
  Inputs          \* the calls: [graph, roots, accepted]

Plan == [rules : Seq(Rules), enabled : BOOLEAN, once : BOOLEAN]

ASSUME PlansAssumption == Plans \in Seq(Plan)
ASSUME InputsAssumption ==
  \A c \in Inputs :
    /\ c.graph \in Graph /\ WellFormed(c.graph)
    /\ c.roots \in Seq(Nat) /\ c.accepted \in BOOLEAN

VARIABLES
  pc,             \* where canonicalize() stands
  call,           \* its arguments, and whether the validations accept them
  working,        \* working_graph
  workingRoots,   \* working_roots
  mapping,        \* mapping: input node -> working node
  status,         \* status
  planIx,         \* position in scheduler.plans()
  changedSequence,\* changed_sequence
  stop,           \* stop
  checkpoint,     \* trace_checkpoint
  positions,      \* history: which input root each working root stands for
  adopted         \* history: the phase iterations whose graph was adopted

engineVars == <<pc, call, working, workingRoots, mapping, status, planIx,
                changedSequence, stop, checkpoint, positions, adopted>>
vars == <<runVars, engineVars>>

(* Fault: compaction draws on the import budget again.                     *)
CountedPass    == [plan |-> FALSE, rules |-> <<>>, counting |-> TRUE]

ImportPass     == [plan |-> FALSE, rules |-> <<>>, counting |-> TRUE]
CompactionPass == [plan |-> FALSE, rules |-> <<>>, counting |-> FALSE]
PhasePass(p)   == [plan |-> TRUE, rules |-> p.rules, counting |-> FALSE]

NoMapping(g) == [n \in DOMAIN g |-> None]

(* Fault: running out of a budget does not show in the status.             *)
OptimisticStatus(current, incoming) ==
  IF incoming \in {"internal_failure", "invalid_input"} THEN incoming ELSE current

MergedStatus(current, incoming) ==
  IF incoming \in {"internal_failure", "invalid_input"} THEN incoming
  ELSE IF incoming = "resource_exhausted" /\ current = "complete" THEN incoming
  ELSE current

(* source_mapping::compose, which stops at the first entry that next does  *)
(* not cover; whether there is none.                                       *)
Uncovered(current, next, n) == current[n] # None /\ current[n] \notin DOMAIN next
Composable(current, next) ==
  \A n \in DOMAIN current : ~Uncovered(current, next, n)
(* Fault: the mapping still points into the graph before the run.          *)
StaleMapping(current, next) == current
Composed(current, next) ==
  [n \in DOMAIN current |->
     IF current[n] = None \/ \E m \in 1..n : Uncovered(current, next, m)
     THEN current[n] ELSE next[current[n]]]

(* trace_collector::mark.                                                  *)
Mark == [events |-> Len(trace), sequence |-> nextSequence]

(* trace_collector::rollback.                                              *)
Rollback ==
  /\ trace' = SubSeq(trace, 1, checkpoint.events)
  /\ nextSequence' = checkpoint.sequence

Init ==
  /\ call \in Inputs
  /\ pc = "validate" /\ status = "complete"
  /\ working = <<>> /\ workingRoots = <<>> /\ mapping = NoMapping(call.graph)
  /\ planIx = 1 /\ changedSequence = FALSE /\ stop = FALSE
  /\ checkpoint = [events |-> 0, sequence |-> 0]
  /\ positions = <<>> /\ adopted = {}
  /\ stage = "idle" /\ src = <<>> /\ roots = <<>> /\ pass = CompactionPass
  /\ reach = {} /\ todo = {} /\ out = <<>> /\ copied = <<>> /\ queue = <<>>
  /\ cur = None /\ subject = NoSubject /\ seen = {} /\ ruleIx = 1
  /\ applied = <<>> /\ final = None /\ popped = {} /\ changed = FALSE
  /\ runStatus = "complete" /\ diagnostics = <<>>
  /\ trace = <<>> /\ nextSequence = 0
  /\ BudgetInit

(* invalid_result: configuration, scheduler, rule, graph and evaluator     *)
(* checks come before anything is built.                                   *)
Reject ==
  /\ pc = "validate" /\ ~call.accepted
  /\ status' = "invalid_input" /\ Diagnose("validation")
  /\ pc' = "done"
  /\ UNCHANGED <<call, working, workingRoots, mapping, planIx, changedSequence,
                 stop, checkpoint, positions, adopted, stage, jobVars, todo,
                 out, copied, queue, subjectVars, popped, changed, runStatus,
                 traceVars, budgetVars>>

StartImport ==
  /\ pc = "validate" /\ call.accepted
  /\ StartRun(call.graph, call.roots, ImportPass, nodeRewrites)
  /\ UNCHANGED iterations
  /\ pc' = "import"
  /\ UNCHANGED <<call, working, workingRoots, mapping, status, planIx,
                 changedSequence, stop, checkpoint, positions, adopted>>

(* Fault: the rewrite counts of the old graph survive.                     *)
AdoptKeepingCounts(p) ==
  /\ working' = out
  /\ workingRoots' = [k \in DOMAIN p |-> copied[roots[p[k]]]]
  /\ positions' = [k \in DOMAIN p |-> positions[p[k]]]
  /\ UNCHANGED nodeRewrites

(* A run's graph and roots become the working ones: p lists the positions  *)
(* of the roots the run kept.                                              *)
Adopt(p) ==
  /\ working' = out
  /\ workingRoots' = [k \in DOMAIN p |-> copied[roots[p[k]]]]
  /\ positions' = [k \in DOMAIN p |-> positions[p[k]]]
  /\ nodeRewrites' = NoRewrites(DOMAIN out)

(* What every finished run leaves alone.                                   *)
RunOver ==
  /\ stage = "finish" /\ stage' = "idle"
  /\ UNCHANGED <<jobVars, todo, out, copied, queue, subjectVars, popped,
                 changed, runStatus, imported, steps, rewrites>>

AfterImport ==
  /\ pc = "import" /\ RunOver
  /\ status' = MergedStatus(status, ResultStatus)
  /\ mapping' = copied
  /\ \E p \in Ascending(KeptRoots) :
       /\ working' = out
       /\ workingRoots' = [k \in DOMAIN p |-> copied[roots[p[k]]]]
       /\ positions' = p
  /\ nodeRewrites' = NoRewrites(DOMAIN out)
  /\ pc' = IF status' = "complete" THEN "plans" ELSE "compact"
  /\ UNCHANGED <<call, planIx, changedSequence, stop, checkpoint, adopted,
                 diagnostics, traceVars, iterations>>

-----------------------------------------------------------------------------
(* The scheduling loop.                                                    *)
(* Fault: a plan without work is not passed over.                          *)
StickOnPlan ==
  /\ pc = "plans" /\ ~stop /\ planIx <= Len(Plans)
  /\ Plans[planIx].rules = <<>> \/ ~Plans[planIx].enabled
  /\ UNCHANGED <<runVars, engineVars>>

SkipPlan ==
  /\ pc = "plans" /\ ~stop /\ planIx <= Len(Plans)
  /\ Plans[planIx].rules = <<>> \/ ~Plans[planIx].enabled
  /\ planIx' = planIx + 1
  /\ UNCHANGED <<runVars, pc, call, working, workingRoots, mapping, status,
                 changedSequence, stop, checkpoint, positions, adopted>>

PhaseBudgetSpent ==
  /\ pc = "plans" /\ ~stop /\ planIx <= Len(Plans)
  /\ Plans[planIx].rules # <<>> /\ Plans[planIx].enabled
  /\ ~CanIterate
  /\ status' = "resource_exhausted" /\ Diagnose("phase_iteration_budget")
  /\ stop' = TRUE
  /\ UNCHANGED <<pc, call, working, workingRoots, mapping, planIx,
                 changedSequence, checkpoint, positions, adopted, stage,
                 jobVars, todo, out, copied, queue, subjectVars, popped,
                 changed, runStatus, traceVars, budgetVars>>

StartPhase ==
  /\ pc = "plans" /\ ~stop /\ planIx <= Len(Plans)
  /\ Plans[planIx].rules # <<>> /\ Plans[planIx].enabled
  /\ CanIterate /\ ConsumeIteration
  /\ checkpoint' = Mark
  /\ StartRun(working, workingRoots, PhasePass(Plans[planIx]), nodeRewrites)
  /\ pc' = "phase"
  /\ UNCHANGED <<call, working, workingRoots, mapping, status, planIx,
                 changedSequence, stop, positions, adopted>>

SameRoots == Cardinality(KeptRoots) = Len(workingRoots)

(* The run ended early: its graph is adopted if it changed anything and    *)
(* kept every root, and the loop ends either way.                          *)
AfterStoppedPhase ==
  /\ pc = "phase" /\ RunOver /\ ResultStatus # "complete"
  /\ LET adopting == changed /\ SameRoots
     IN /\ mapping' = IF adopting THEN Composed(mapping, copied) ELSE mapping
        /\ IF adopting /\ Composable(mapping, copied)
           THEN /\ \E p \in Ascending(KeptRoots) : Adopt(p)
                /\ adopted' = adopted \cup {iterations}
                /\ changedSequence' = TRUE
                /\ UNCHANGED traceVars
           ELSE /\ Rollback
                /\ UNCHANGED <<working, workingRoots, positions, nodeRewrites,
                               adopted, changedSequence>>
        /\ IF adopting /\ ~Composable(mapping, copied)
           THEN status' = "internal_failure" /\ Diagnose("unresolved_compose")
           ELSE /\ status' = MergedStatus(status, ResultStatus)
                /\ UNCHANGED diagnostics
  /\ stop' = TRUE /\ pc' = "plans"
  /\ UNCHANGED <<call, planIx, checkpoint, iterations>>

(* Nothing changed: on to the next plan.                                   *)
AfterStablePhase ==
  /\ pc = "phase" /\ RunOver /\ ResultStatus = "complete" /\ ~changed
  /\ Rollback
  /\ planIx' = planIx + 1 /\ pc' = "plans"
  /\ UNCHANGED <<call, working, workingRoots, mapping, status, changedSequence,
                 stop, checkpoint, positions, adopted, diagnostics, iterations,
                 nodeRewrites>>

AfterChangedPhase ==
  /\ pc = "phase" /\ RunOver /\ ResultStatus = "complete" /\ changed
  /\ mapping' = IF SameRoots THEN Composed(mapping, copied) ELSE mapping
  /\ IF SameRoots /\ Composable(mapping, copied)
     THEN /\ \E p \in Ascending(KeptRoots) : Adopt(p)
          /\ adopted' = adopted \cup {iterations}
          /\ changedSequence' = TRUE
          /\ planIx' = IF Plans[planIx].once THEN planIx + 1 ELSE planIx
          /\ UNCHANGED <<stop, status, diagnostics, traceVars>>
     ELSE /\ Rollback
          /\ stop' = TRUE
          /\ IF SameRoots
             THEN status' = "internal_failure" /\ Diagnose("unresolved_compose")
             ELSE UNCHANGED <<status, diagnostics>>
          /\ UNCHANGED <<working, workingRoots, positions, nodeRewrites,
                         adopted, changedSequence, planIx>>
  /\ pc' = "plans"
  /\ UNCHANGED <<call, checkpoint, iterations>>

(* Fault: the plans are gone through once.                                 *)
SingleSequence ==
  /\ pc = "plans" /\ (stop \/ planIx > Len(Plans))
  /\ pc' = "compact"
  /\ UNCHANGED <<runVars, call, working, workingRoots, mapping, status, planIx,
                 changedSequence, stop, checkpoint, positions, adopted>>

(* while (!stop && changed_sequence)                                       *)
EndSequence ==
  /\ pc = "plans" /\ (stop \/ planIx > Len(Plans))
  /\ IF ~stop /\ changedSequence
     THEN planIx' = 1 /\ changedSequence' = FALSE /\ UNCHANGED pc
     ELSE pc' = "compact" /\ UNCHANGED <<planIx, changedSequence>>
  /\ UNCHANGED <<runVars, call, working, workingRoots, mapping, status, stop,
                 checkpoint, positions, adopted>>

-----------------------------------------------------------------------------
NothingToCompact ==
  /\ pc = "compact" /\ workingRoots = <<>>
  /\ pc' = "done"
  /\ status' = IF Validates(working) THEN status ELSE "internal_failure"
  /\ UNCHANGED <<runVars, call, working, workingRoots, mapping, planIx,
                 changedSequence, stop, checkpoint, positions, adopted>>

StartCompaction ==
  /\ pc = "compact" /\ workingRoots # <<>>
  /\ StartRun(working, workingRoots, CompactionPass, nodeRewrites)
  /\ UNCHANGED iterations
  /\ pc' = "compacting"
  /\ UNCHANGED <<call, working, workingRoots, mapping, status, planIx,
                 changedSequence, stop, checkpoint, positions, adopted>>

AfterCompaction ==
  /\ pc = "compacting" /\ RunOver
  /\ mapping' = IF SameRoots THEN Composed(mapping, copied) ELSE mapping
  /\ IF SameRoots /\ Composable(mapping, copied)
     THEN \E p \in Ascending(KeptRoots) : Adopt(p)
     ELSE UNCHANGED <<working, workingRoots, positions, nodeRewrites>>
  /\ IF SameRoots /\ ~Composable(mapping, copied)
     THEN status' = "internal_failure" /\ Diagnose("unresolved_compose")
     ELSE /\ status' = IF Validates(working')
                       THEN MergedStatus(status, ResultStatus)
                       ELSE "internal_failure"
          /\ UNCHANGED diagnostics
  /\ pc' = "done"
  /\ UNCHANGED <<call, planIx, changedSequence, stop, checkpoint, adopted,
                 traceVars, iterations>>

EngineStep ==
  \/ Reject \/ StartImport \/ AfterImport
  \/ SkipPlan \/ PhaseBudgetSpent \/ StartPhase
  \/ AfterStoppedPhase \/ AfterStablePhase \/ AfterChangedPhase \/ EndSequence
  \/ NothingToCompact \/ StartCompaction \/ AfterCompaction

Next == EngineStep \/ (RunStep /\ UNCHANGED engineVars)

Spec == Init /\ [][Next]_vars
(* The call is one thread that runs until it returns.                      *)
FairSpec == Spec /\ WF_vars(Next)

-----------------------------------------------------------------------------
TypeOK ==
  /\ RunTypeOK
  /\ call \in Inputs
  /\ pc \in {"validate", "import", "plans", "phase", "compact", "compacting", "done"}
  /\ working \in Graph /\ workingRoots \in Seq(Nat) /\ positions \in Seq(Nat)
  /\ planIx \in Nat \ {0}
  /\ status \in Statuses
  /\ changedSequence \in BOOLEAN /\ stop \in BOOLEAN
  /\ mapping \in [DOMAIN call.graph -> Nat]
  /\ DOMAIN nodeRewrites = DOMAIN working
  /\ DOMAIN positions = DOMAIN workingRoots
  /\ checkpoint \in [events : Nat, sequence : Nat]
  /\ adopted \subseteq 0..iterations

(* Whatever phases ran, and wherever a budget ended the call, a node the   *)
(* mapping names denotes what its input node denotes: substitution of      *)
(* operands, adoption and compaction never detach the mapping from the     *)
(* graph it points into.                                                   *)
MappingSound ==
  \A n \in DOMAIN mapping :
    mapping[n] # None =>
      /\ mapping[n] \in DOMAIN working
      /\ working[mapping[n]].val = call.graph[n].val
      /\ working[mapping[n]].type = call.graph[n].type

(* The roots are the input roots, in the caller's order, and mapping and   *)
(* roots agree.  Only an import that ran out of budget loses roots.        *)
RootsSound ==
  pc \notin {"validate", "import"} /\ call.accepted =>
    /\ DOMAIN positions = DOMAIN workingRoots
    /\ \A j, k \in DOMAIN positions : j < k => positions[j] < positions[k]
    /\ \A k \in DOMAIN positions :
         /\ positions[k] \in DOMAIN call.roots
         /\ workingRoots[k] = mapping[call.roots[positions[k]]]
         /\ workingRoots[k] # None
    /\ status = "complete" => Len(positions) = Len(call.roots)

(* Outside a phase run the trace holds exactly the events of adopted runs, *)
(* numbered without a gap: rolling back never keeps or loses an event.     *)
TraceMatchesAdoption ==
  /\ nextSequence = Len(trace)
  /\ \A k \in DOMAIN trace : trace[k].sequence = k - 1
  /\ pc # "phase" => \A k \in DOMAIN trace : trace[k].iteration \in adopted

(* In one run no operation node is rewritten twice: when its turn comes    *)
(* all its operands are final, so the re-enqueueing of users after a       *)
(* change only ever finds operation nodes that are still queued.           *)
OnePass == Elements(queue) \cap popped = {}

(* Every budget holds, also for what a stopped run left adopted.           *)
WithinBudgets ==
  /\ imported <= MaxImports /\ steps <= MaxSteps /\ iterations <= MaxIterations
  /\ rewrites <= MaxRewrites
  /\ \A n \in DOMAIN nodeRewrites : nodeRewrites[n] <= MaxNodeRewrites
  /\ \A k \in DOMAIN workingRoots : workingRoots[k] <= MaxOutput
  /\ pc = "done" => Len(working) <= MaxOutput

(* Compaction is free: it cannot exhaust a budget, lose a root or change   *)
(* the status that the phases ended with.                                  *)
CompactionIsSafe ==
  [][pc = "compacting" /\ pc' = "done" =>
       /\ status' = status
       /\ positions' = positions
       /\ Reachable(working', Elements(workingRoots')) = DOMAIN working']_vars

(* A call that reports anything but complete says why, and only then.      *)
StatusExplained == pc = "done" => (status = "complete" <=> diagnostics = <<>>)

(* What the result reports of the call, its roots, their places, its trace *)
(* and its status, is so.                                                  *)
ReportExact == RootsSound /\ TraceMatchesAdoption /\ StatusExplained

(* "canonicalization revisits earlier phases until the full phase sequence *)
(* is stable": on a complete result no enabled rule of an enabled phase    *)
(* applies to any operation node of the result.                            *)
CompleteIsStable ==
  pc = "done" /\ status = "complete" /\ call.accepted =>
    \A i \in DOMAIN Plans : Plans[i].enabled =>
      \A r \in Elements(Plans[i].rules) \cap EnabledRules :
        \A n \in DOMAIN working : working[n].op \in Operations =>
          Declined(r, ExprOf(working[n]), working)

(* The same test's other half: the sequence of plans does become stable    *)
(* when no budget is in the way.                                           *)
ReachesStability == pc = "done" /\ call.accepted => status = "complete"

(* "worklist propagates operand replacements through users": after a run   *)
(* that completed, the copy of a merge node merges what its operands were  *)
(* replaced by.                                                            *)
UsersSeeReplacements ==
  stage = "finish" /\ pass.plan /\ runStatus = "complete" =>
    \A i \in reach : src[i].op \in Merges =>
      out[copied[i]].args = Mapped(src[i].args)

(* The engine keeps the promise of CanonicalContract: through every run,   *)
(* adoption, abandoned run and compaction, no root of the working graph    *)
(* comes to denote something else, and complete means that none was lost.  *)
RootMeaning(g, n) == IF n \in DOMAIN g THEN <<g[n].val, g[n].type>> ELSE <<>>
Promised == [k \in DOMAIN call.roots |-> RootMeaning(call.graph, call.roots[k])]
Denoted ==
  IF pc \in {"validate", "import"} \/ ~call.accepted THEN Promised
  ELSE [k \in DOMAIN workingRoots |-> RootMeaning(working, workingRoots[k])]
Verdict ==
  CASE pc = "done" -> status
    [] pc \in {"validate", "import"} -> "importing"
    [] OTHER -> "simplifying"
Promise == INSTANCE CanonicalContract WITH
  promised <- Promised, denoted <- Denoted, verdict <- Verdict
KeepsPromise == Promise!Spec

(* Every call returns.                                                     *)
Termination == <>(pc = "done")
=============================================================================
