----------------------------- MODULE Termination -----------------------------
(***************************************************************************)
(* termination_tracker (lib/canonicalizer/termination.cpp): the budgets of *)
(* one canonicalize call.  A consume_* operation fails, and changes no     *)
(* counter, once its counter has reached the limit; otherwise it adds 1.   *)
(* m_node_rewrites is keyed by node_id, whose owner is the source graph of *)
(* the run: nodeRewrites holds the counts of the graph now being rewritten.*)
(***************************************************************************)
EXTENDS Naturals

CONSTANTS
  MaxImports,       \* maximum_imported_nodes
  MaxOutput,        \* maximum_output_nodes
  MaxGrowth,        \* maximum_node_growth
  MaxSteps,         \* maximum_worklist_steps
  MaxRewrites,      \* maximum_rewrites
  MaxNodeRewrites,  \* maximum_rewrites_per_node
  MaxIterations     \* maximum_phase_iterations

ASSUME LimitsAssumption ==
  /\ MaxImports \in Nat      /\ MaxOutput \in Nat   /\ MaxGrowth \in Nat
  /\ MaxSteps \in Nat        /\ MaxRewrites \in Nat
  /\ MaxNodeRewrites \in Nat /\ MaxIterations \in Nat

VARIABLES
  imported,         \* imported_nodes
  steps,            \* worklist_steps
  rewrites,         \* rewrites_applied
  iterations,       \* phase_iterations
  nodeRewrites      \* m_node_rewrites of the current source graph

budgetVars == <<imported, steps, rewrites, iterations, nodeRewrites>>

NoRewrites(nodes) == [n \in nodes |-> 0]

BudgetInit ==
  /\ imported = 0 /\ steps = 0 /\ rewrites = 0 /\ iterations = 0
  /\ nodeRewrites = NoRewrites({})

CanImport      == imported < MaxImports
CanOverstep    == steps <= MaxSteps           \* fault: one step too many
CanStep        == steps < MaxSteps
CanIterate     == iterations < MaxIterations
CanRewrite(n)  == rewrites < MaxRewrites /\ nodeRewrites[n] < MaxNodeRewrites

ConsumeImport  == imported' = imported + 1
ConsumeStep    == steps' = steps + 1
ConsumeIteration == iterations' = iterations + 1
ConsumeRewrite(n) ==
  /\ rewrites' = rewrites + 1
  /\ nodeRewrites' = [nodeRewrites EXCEPT ![n] = @ + 1]

(* observe_output_nodes: growth is counted from the size of the run's own  *)
(* source graph.                                                           *)
OutputFits(nodes, baseline) ==
  /\ nodes <= MaxOutput
  /\ nodes > baseline => nodes - baseline <= MaxGrowth
=============================================================================
