------------------------------ MODULE Worklist ------------------------------
(***************************************************************************)
(* worklist_engine::run (lib/canonicalizer/worklist.cpp): one pass over    *)
(* the part of a source graph that its roots reach.  It copies that part   *)
(* into a new graph, in ascending node order, and, when it was given a     *)
(* pass plan, rewrites the operation nodes of the copy through a FIFO      *)
(* worklist.  A run without a plan is an import or a compaction.           *)
(*                                                                         *)
(* The rules are a parameter: Outcomes(r, e, g) is what rule r may do with *)
(* subject e when the output graph is g.  A rule is trusted with the       *)
(* meaning of what it returns and with nothing else (Contract): it may     *)
(* append nodes it then does not use, name a node that does not exist or   *)
(* has another type, give up with an error, rebuild for ever.              *)
(***************************************************************************)
EXTENDS ExprGraph, Termination

CONSTANTS
  Rules, EnabledRules,
  Outcomes(_, _, _),
  CollectTrace

ASSUME RulesAssumption == EnabledRules \subseteq Rules /\ CollectTrace \in BOOLEAN

VARIABLES
  stage,         \* where run() stands
  src, roots,    \* its arguments: the source graph and the roots
  pass,          \* its arguments: the plan, if any, and count_imports
  reach,         \* reachable
  todo,          \* the rest of reachable_order in the import loop
  out,           \* output
  copied,        \* copied: source node -> output node
  queue,         \* queue; queued[n] is n \in Elements(queue)
  cur,           \* the source node taken from the queue
  subject,       \* subject
  seen,          \* states
  ruleIx,        \* position in plan->rules
  applied,       \* applied_rules
  final,         \* final_node
  popped,        \* history: the operation nodes taken from the queue
  changed,       \* changed
  runStatus,     \* status; rewriting_enabled is pass.plan and "complete"
  diagnostics,   \* the codes emitted in this canonicalize call
  trace,         \* trace_collector::m_events
  nextSequence   \* trace_collector::m_next_sequence

subjectVars == <<cur, subject, seen, ruleIx, applied, final>>
traceVars == <<trace, nextSequence>>
jobVars == <<src, roots, pass, reach>>
runVars == <<stage, jobVars, todo, out, copied, queue, subjectVars, popped,
             changed, runStatus, diagnostics, traceVars, budgetVars>>

NoSubject == <<>>
Statuses == {"complete", "resource_exhausted", "invalid_input",
             "internal_failure"}

Pass == [plan : BOOLEAN, rules : Seq(Rules), counting : BOOLEAN]

(* rewrite_trace_event: its number and rule, and, as history, the phase    *)
(* iteration it belongs to.                                                *)
Event == [sequence : Nat, rule : Rules, iteration : Nat]

(* rewrite_result with the graph the rule's builder calls left behind.     *)
Outcome == [kind : {"no_match", "invalid", "replace", "rebuild"},
            graph : Graph, node : Nat,
            to : [op : Operations, type : Types, args : Seq(Nat)]]

Known(g, e) == \A k \in DOMAIN e.args : e.args[k] <= Len(g)

(* What is trusted of a rule (equivalence_contract): a replacement the     *)
(* engine would accept, and a rebuilt expression the builder would accept, *)
(* denote what the subject denotes.  A subject no builder would accept is  *)
(* left alone, and the operands of a rebuilt expression are node_ids the   *)
(* rule has seen, or foreign ones (None), never ids of nodes to come.      *)
Contract(e, g, o) ==
  /\ o \in Outcome
  /\ ExtendsGraph(o.graph, g) /\ WellFormed(o.graph)
  /\ ~Buildable(g, e) => o.kind \in {"no_match", "invalid"}
  /\ o.kind = "replace" /\ o.node \in DOMAIN o.graph
       /\ o.graph[o.node].type = e.type
     => o.graph[o.node].val = Denotes(g, e)
  /\ o.kind = "rebuild" => Known(o.graph, o.to)
  /\ o.kind = "rebuild" /\ Buildable(o.graph, o.to)
     => o.to.type = e.type /\ Denotes(o.graph, o.to) = Denotes(g, e)

(* What a rule may look at, which matters where a run ends that changed    *)
(* nothing: a subject and the nodes below it, not their places.  It        *)
(* declines for good, and names nodes below the subject or nodes it built. *)
Declined(r, e, g) == \A o \in Outcomes(r, e, g) : o.kind = "no_match"

ClosedIn(g, S) == \A n \in S : Elements(g[n].args) \subseteq S
Moved(e, m) == [e EXCEPT !.args = [k \in DOMAIN e.args |-> m[e.args[k]]]]
Mirrors(g, S, h, m) ==
  /\ \A i, j \in S : m[i] = m[j] => i = j
  /\ \A n \in S : m[n] \in DOMAIN h /\ ExprOf(h[m[n]]) = Moved(ExprOf(g[n]), m)

With(g, S, o) == S \cup {n \in DOMAIN o.graph : n > Len(g)}
StaysWithin(g, S, o) ==
  /\ ClosedIn(o.graph, With(g, S, o))
  /\ o.kind = "replace" /\ o.node \in DOMAIN o.graph => o.node \in With(g, S, o)
  /\ o.kind = "rebuild" => Elements(o.to.args) \cap DOMAIN o.graph \subseteq With(g, S, o)

LooksBelow(r, e, g, S) ==
  /\ (\E o \in Outcomes(r, e, g) : o.kind = "no_match") => Declined(r, e, g)
  /\ \A o \in Outcomes(r, e, g) : StaysWithin(g, S, o)
SameElsewhere(r, e, g, S, h, m) ==
  Mirrors(g, S, h, m) => (Declined(r, e, g) <=> Declined(r, Moved(e, m), h))

(* Source operand -> output operand (resolved).                            *)
Mapped(args) == [k \in DOMAIN args |-> copied[args[k]]]
Resolved(args) == \A k \in DOMAIN args : copied[args[k]] # None

(* The source node's expression over the output graph.                     *)
CopyOf(i) ==
  [op |-> src[i].op, type |-> src[i].type, args |-> Mapped(src[i].args)]

IsOperation(i) == src[i].op \in Operations

Users(i) == {u \in reach : i \in Elements(src[u].args)}

ValidRoots(g, rs) == Elements(rs) \subseteq DOMAIN g

Diagnose(code) == diagnostics' = Append(diagnostics, code)

(* exhaust / add_diagnostic followed by the breaks that end the run.       *)
Stop(status, code) ==
  /\ runStatus' = status
  /\ Diagnose(code)
  /\ stage' = "finish"

-----------------------------------------------------------------------------
(* The head of run(): fresh output, reachability, and the early return for *)
(* a root that is not a node of the source graph.                          *)
StartRun(g, rs, p, counts) ==
  /\ stage = "idle"
  /\ src' = g /\ roots' = rs /\ pass' = p /\ nodeRewrites' = counts
  /\ copied' = [n \in DOMAIN g |-> None]
  /\ out' = <<>> /\ queue' = <<>> /\ changed' = FALSE /\ popped' = {}
  /\ cur' = None /\ subject' = NoSubject /\ seen' = {} /\ ruleIx' = 1
  /\ applied' = <<>> /\ final' = None
  /\ IF ValidRoots(g, rs)
     THEN /\ stage' = "import" /\ runStatus' = "complete"
          /\ reach' = Reachable(g, Elements(rs))
          /\ UNCHANGED diagnostics
     ELSE /\ Stop("invalid_input", "invalid_root")
          /\ reach' = {}
  /\ todo' = reach'
  /\ UNCHANGED <<traceVars, imported, steps, rewrites>>

ImportBudgetSpent ==
  /\ stage = "import" /\ todo # {}
  /\ pass.counting /\ ~CanImport
  /\ runStatus' = "resource_exhausted" /\ Diagnose("import_budget")
  /\ todo' = {}
  /\ UNCHANGED <<stage, jobVars, out, copied, queue, subjectVars, popped,
                 changed, traceVars, budgetVars>>

(* One turn of the import loop: the operands are resolved, the output      *)
(* budgets are asked for one more node, and the node is rebuilt.           *)
ImportAt(i) ==
  LET fits == OutputFits(Len(out) + 1, Len(src))
  IN IF Resolved(src[i].args) /\ fits /\ Buildable(out, CopyOf(i))
     THEN /\ out' = Build(out, CopyOf(i))
          /\ copied' = [copied EXCEPT ![i] = Len(out')]
          /\ todo' = todo \ {i}
          /\ UNCHANGED <<runStatus, diagnostics>>
     ELSE /\ todo' = {}
          /\ UNCHANGED <<out, copied>>
          /\ IF ~Resolved(src[i].args)
             THEN UNCHANGED <<runStatus, diagnostics>>
             ELSE IF ~fits
             THEN runStatus' = "resource_exhausted" /\ Diagnose("output_budget")
             ELSE runStatus' = "internal_failure" /\ Diagnose("builder")

ImportNode ==
  /\ stage = "import"
  /\ pass.counting => CanImport
  /\ IF pass.counting THEN ConsumeImport ELSE UNCHANGED imported
  /\ \E i \in todo : (\A j \in todo : i <= j) /\ ImportAt(i)
  /\ UNCHANGED <<stage, jobVars, queue, subjectVars, popped, changed,
                 traceVars, steps, rewrites, iterations, nodeRewrites>>

(* Fault: the worklist is seeded from the roots down.                      *)
SeedBackwards ==
  /\ stage = "import" /\ todo = {}
  /\ IF pass.plan /\ runStatus = "complete"
     THEN /\ stage' = "pop"
          /\ \E q \in Ascending({i \in reach : IsOperation(i)}) :
               queue' = [k \in DOMAIN q |-> q[Len(q) + 1 - k]]
     ELSE /\ stage' = "finish"
          /\ UNCHANGED queue
  /\ UNCHANGED <<jobVars, todo, out, copied, subjectVars, popped, changed,
                 runStatus, diagnostics, traceVars, budgetVars>>

(* The import loop is over: seed the worklist with the reachable operation *)
(* nodes, if there is a plan and nothing went wrong.                       *)
SeedQueue ==
  /\ stage = "import" /\ todo = {}
  /\ IF pass.plan /\ runStatus = "complete"
     THEN /\ stage' = "pop"
          /\ queue' \in Ascending({i \in reach : IsOperation(i)})
     ELSE /\ stage' = "finish"
          /\ UNCHANGED queue
  /\ UNCHANGED <<jobVars, todo, out, copied, subjectVars, popped, changed,
                 runStatus, diagnostics, traceVars, budgetVars>>

-----------------------------------------------------------------------------
(* while (!queue.empty() && rewriting_enabled)                             *)
QueueEmpty ==
  /\ stage = "pop" /\ queue = <<>>
  /\ stage' = "finish"
  /\ UNCHANGED <<jobVars, todo, out, copied, queue, subjectVars, popped,
                 changed, runStatus, diagnostics, traceVars, budgetVars>>

Ready(i) == IsOperation(i) /\ copied[i] # None /\ Resolved(src[i].args)

(* A node that is not an operation (a merge enqueued as a user) is dropped.*)
DropNode ==
  /\ stage = "pop" /\ queue # <<>> /\ ~Ready(Head(queue))
  /\ queue' = Tail(queue)
  /\ UNCHANGED <<stage, jobVars, todo, out, copied, subjectVars, popped,
                 changed, runStatus, diagnostics, traceVars, budgetVars>>

PopSubject ==
  /\ stage = "pop" /\ queue # <<>> /\ Ready(Head(queue))
  /\ queue' = Tail(queue)
  /\ cur' = Head(queue)
  /\ popped' = popped \cup {cur'}
  /\ subject' = CopyOf(cur')
  /\ seen' = {subject'} /\ ruleIx' = 1 /\ applied' = <<>> /\ final' = None
  /\ stage' = "rules"
  /\ UNCHANGED <<jobVars, todo, out, copied, changed, runStatus, diagnostics,
                 traceVars, budgetVars>>

-----------------------------------------------------------------------------
(* The loop over plan->rules.                                              *)
Rule == pass.rules[ruleIx]

SkipRule ==
  /\ stage = "rules" /\ ruleIx <= Len(pass.rules) /\ Rule \notin EnabledRules
  /\ ruleIx' = ruleIx + 1
  /\ UNCHANGED <<stage, jobVars, todo, out, copied, queue, cur, subject, seen,
                 applied, final, popped, changed, runStatus, diagnostics,
                 traceVars, budgetVars>>

StepBudgetSpent ==
  /\ stage = "rules" /\ ruleIx <= Len(pass.rules) /\ Rule \in EnabledRules
  /\ ~CanStep
  /\ Stop("resource_exhausted", "worklist_budget")
  /\ UNCHANGED <<jobVars, todo, out, copied, queue, subjectVars, popped,
                 changed, traceVars, budgetVars>>

(* One rule attempt with its outcome: rule->apply and the output budget    *)
(* check that follows it, in that order.                                   *)
Attempt(o) ==
  /\ Contract(subject, out, o)
  /\ ConsumeStep
  /\ out' = o.graph
  /\ UNCHANGED <<jobVars, todo, copied, queue, cur, popped, changed, traceVars,
                 imported, iterations>>

Fits(o) == OutputFits(Len(o.graph), Len(src))

Overgrown(o) ==
  /\ Attempt(o) /\ ~Fits(o)
  /\ Stop("resource_exhausted", "output_budget")
  /\ UNCHANGED <<subject, seen, ruleIx, applied, final, rewrites, nodeRewrites>>

NoMatch(o) ==
  /\ Attempt(o) /\ Fits(o) /\ o.kind = "no_match"
  /\ ruleIx' = ruleIx + 1
  /\ UNCHANGED <<stage, subject, seen, applied, final, runStatus, diagnostics,
                 rewrites, nodeRewrites>>

InvalidRewrite(o) ==
  /\ Attempt(o) /\ Fits(o) /\ o.kind = "invalid"
  /\ Stop("internal_failure", "invalid_rewrite")
  /\ UNCHANGED <<subject, seen, ruleIx, applied, final, rewrites, nodeRewrites>>

(* Fault: the type of a replacement is not compared.                       *)
AnyNode(o) == o.node \in DOMAIN o.graph

AcceptableNode(o) ==
  /\ o.node \in DOMAIN o.graph
  /\ o.graph[o.node].type = subject.type

ReplaceWith(o) ==
  /\ Attempt(o) /\ Fits(o) /\ o.kind = "replace"
  /\ IF ~AcceptableNode(o)
     THEN /\ Stop("internal_failure", "invalid_replacement")
          /\ UNCHANGED <<applied, final, rewrites, nodeRewrites>>
     ELSE IF ~CanRewrite(cur)
     THEN /\ Stop("resource_exhausted", "rewrite_budget")
          /\ UNCHANGED <<applied, final, rewrites, nodeRewrites>>
     ELSE /\ ConsumeRewrite(cur)
          /\ applied' = Append(applied, Rule)
          /\ final' = o.node
          /\ stage' = "settle"
          /\ UNCHANGED <<runStatus, diagnostics>>
  /\ UNCHANGED <<subject, seen, ruleIx>>

RebuildFailure(o) ==
  IF o.to = subject THEN <<"internal_failure", "non_progressing_rewrite">>
  ELSE IF o.to \in seen THEN <<"resource_exhausted", "oscillation">>
  ELSE IF ~CanRewrite(cur) THEN <<"resource_exhausted", "rewrite_budget">>
  ELSE <<>>

RebuildExpression(o) ==
  /\ Attempt(o) /\ Fits(o) /\ o.kind = "rebuild"
  /\ LET failure == RebuildFailure(o)
     IN IF failure # <<>>
        THEN /\ Stop(failure[1], failure[2])
             /\ UNCHANGED <<subject, seen, ruleIx, applied, rewrites, nodeRewrites>>
        ELSE /\ ConsumeRewrite(cur)
             /\ applied' = Append(applied, Rule)
             /\ subject' = o.to /\ seen' = seen \cup {o.to} /\ ruleIx' = 1
             /\ UNCHANGED <<stage, runStatus, diagnostics>>
  /\ UNCHANGED final

TryRule ==
  /\ stage = "rules" /\ ruleIx <= Len(pass.rules) /\ Rule \in EnabledRules
  /\ CanStep
  /\ \E o \in Outcomes(Rule, subject, out) :
       \/ Overgrown(o) \/ NoMatch(o) \/ InvalidRewrite(o)
       \/ ReplaceWith(o) \/ RebuildExpression(o)

RulesDone ==
  /\ stage = "rules" /\ ruleIx > Len(pass.rules)
  /\ stage' = "settle"
  /\ UNCHANGED <<jobVars, todo, out, copied, queue, subjectVars, popped,
                 changed, runStatus, diagnostics, traceVars, budgetVars>>

-----------------------------------------------------------------------------
(* The end of the loop body: the node that now stands for cur.             *)
Old == copied[cur]

MatchesSubject == ExprOf(out[Old]) = subject      \* node_matches_subject

(* Fault: the number advances once per node.                               *)
SameNumber ==
  [k \in DOMAIN applied |->
     [sequence |-> nextSequence, rule |-> applied[k], iteration |-> iterations]]

AppliedEvents ==
  [k \in DOMAIN applied |->
     [sequence |-> nextSequence + k - 1, rule |-> applied[k], iteration |-> iterations]]

(* copied[index] = *final_node, the trace, and the users into the queue.   *)
Settle(node) ==
  /\ stage' = "pop"
  /\ UNCHANGED <<runStatus, diagnostics>>
  /\ IF node = Old
     THEN UNCHANGED <<copied, changed, traceVars, queue>>
     ELSE /\ copied' = [copied EXCEPT ![cur] = node]
          /\ changed' = TRUE
          /\ IF CollectTrace
             THEN /\ trace' = trace \o AppliedEvents
                  /\ nextSequence' = nextSequence + Len(applied)
             ELSE UNCHANGED traceVars
          /\ \E q \in Ascending(Users(cur) \ Elements(queue)) : queue' = queue \o q

KeepOrReplace ==
  /\ stage = "settle"
  /\ final # None \/ MatchesSubject
  /\ Settle(IF final # None THEN final ELSE Old)
  /\ UNCHANGED <<jobVars, todo, out, subjectVars, popped, budgetVars>>

RebuildNode ==
  /\ stage = "settle" /\ final = None /\ ~MatchesSubject
  /\ IF ~OutputFits(Len(out) + 1, Len(src))
     THEN /\ Stop("resource_exhausted", "output_budget")
          /\ UNCHANGED <<out, copied, changed, queue, traceVars>>
     ELSE IF ~Buildable(out, subject)
     THEN /\ Stop("internal_failure", "builder")
          /\ UNCHANGED <<out, copied, changed, queue, traceVars>>
     ELSE /\ out' = Build(out, subject)
          /\ Settle(Len(out'))
  /\ UNCHANGED <<jobVars, todo, subjectVars, popped, budgetVars>>

RunStep ==
  \/ ImportBudgetSpent \/ ImportNode \/ SeedQueue
  \/ QueueEmpty \/ DropNode \/ PopSubject
  \/ SkipRule \/ StepBudgetSpent \/ TryRule \/ RulesDone
  \/ KeepOrReplace \/ RebuildNode

(* Fault: a root that was not copied is kept.                              *)
AllRoots == {k \in DOMAIN roots : roots[k] \in DOMAIN copied}

(* What a finished run returns: the positions of the roots it kept, their  *)
(* copies, and the mapping, which is copied itself.                        *)
KeptRoots ==
  {k \in DOMAIN roots : roots[k] \in DOMAIN copied /\ copied[roots[k]] # None}
ResultStatus == IF Validates(out) THEN runStatus ELSE "internal_failure"

-----------------------------------------------------------------------------
Stages == {"idle", "import", "pop", "rules", "settle", "finish"}

RunTypeOK ==
  /\ stage \in Stages
  /\ src \in Graph /\ out \in Graph
  /\ roots \in Seq(Nat) /\ pass \in Pass
  /\ reach \subseteq DOMAIN src /\ todo \subseteq reach /\ popped \subseteq reach
  /\ copied \in [DOMAIN src -> Nat]
  /\ queue \in Seq(reach)
  /\ cur \in Nat /\ final \in Nat /\ ruleIx \in Nat \ {0}
  /\ stage \in {"rules", "settle"} => cur \in reach
  /\ stage \in {"rules", "settle"} => subject \in Expr
  /\ applied \in Seq(Rules)
  /\ runStatus \in Statuses
  /\ changed \in BOOLEAN
  /\ imported \in Nat /\ steps \in Nat /\ rewrites \in Nat /\ iterations \in Nat
  /\ trace \in Seq(Event) /\ nextSequence \in Nat
  /\ nodeRewrites \in [DOMAIN nodeRewrites -> Nat]

(* Node n of the output stands for node i of the source.                   *)
StandsFor(n, i) ==
  /\ n \in DOMAIN out
  /\ out[n].val = src[i].val
  /\ out[n].type = src[i].type

(* Every copy denotes what the source node denotes, at every moment of a   *)
(* run: while operands are being replaced under it and while a budget ends *)
(* the run half way.                                                       *)
CopiesSound == \A i \in DOMAIN copied : copied[i] # None => StandsFor(copied[i], i)

(* The expression under rewriting still denotes the node it came from.     *)
SubjectSound ==
  stage \in {"rules", "settle"} =>
    /\ Known(out, subject)
    /\ Buildable(out, subject) =>
         /\ subject.type = src[cur].type
         /\ Denotes(out, subject) = src[cur].val

FinalSound ==
  /\ stage = "rules" => final = None
  /\ stage = "settle" /\ final # None => StandsFor(final, cur)

RunInv ==
  /\ WellFormed(src) /\ WellFormed(out)
  /\ CopiesSound /\ SubjectSound /\ FinalSound
=============================================================================
