-------------------------- MODULE CanonicalizerProofs --------------------------
(***************************************************************************)
(* Proofs about engine::canonicalize and the worklist runs it starts, for  *)
(* every rule set, term language, set of budgets, scheduler and input:     *)
(* first the graph a builder appends to, then the steps of a run, then the *)
(* engine.  The inductive invariant joins the types, the invariant of the  *)
(* run in progress, the soundness of the mapping, and the link between the *)
(* engine's variables and the arguments of the run it has started.         *)
(***************************************************************************)
EXTENDS Canonicalizer, FiniteSetTheorems, TLAPS

-----------------------------------------------------------------------------
(* The graph: a builder call keeps it well formed, and appending nodes     *)
(* changes neither the meaning nor the validity of what was there.         *)

(* An expression the builder accepts denotes a value.                      *)
LEMMA DenotesType ==
  ASSUME NEW g \in Graph, NEW e \in Expr, Buildable(g, e)
  PROVE  Denotes(g, e) \in Values
<1>1. e.args \in Seq(Nat) /\ e.op \in Symbols
  BY DEF Expr
<1>2. Len(e.args) \in 0..MaxArity /\ DOMAIN e.args = 1..Len(e.args)
  BY <1>1, ArityAssumption DEF Buildable
<1>3. \A n \in DOMAIN g : g[n].val \in Values
  <2>1. \A n \in DOMAIN g : g[n] \in Node
    BY DEF Graph
  <2> QED
    BY <2>1 DEF Node
<1>4. ArgVals(g, e.args) \in [1..Len(e.args) -> Values]
  BY <1>2, <1>3 DEF ArgVals, Buildable
<1>5. ArgVals(g, e.args) \in ValueSeqs
  BY <1>2, <1>4 DEF ValueSeqs
<1> QED
  BY <1>1, <1>5, MeaningAssumption DEF Denotes

(* What one successful builder call does to the graph.                     *)
LEMMA BuildProperties ==
  ASSUME NEW g \in Graph, NEW e \in Expr, Buildable(g, e)
  PROVE  /\ Build(g, e) \in Graph
         /\ Len(Build(g, e)) = Len(g) + 1
         /\ ExtendsGraph(Build(g, e), g)
         /\ Build(g, e)[Len(g) + 1] =
              [op |-> e.op, type |-> e.type, args |-> e.args, val |-> Denotes(g, e)]
<1> DEFINE n == [op |-> e.op, type |-> e.type, args |-> e.args, val |-> Denotes(g, e)]
<1>1. Denotes(g, e) \in Values
  BY DenotesType
<1>2. n \in Node
  BY <1>1 DEF Node, Expr
<1>3. Build(g, e) = Append(g, n)
  BY DEF Build
<1> HIDE DEF n
<1>4. /\ Append(g, n) \in Seq(Node) /\ Len(Append(g, n)) = Len(g) + 1
      /\ \A i \in 1..Len(g) : Append(g, n)[i] = g[i]
      /\ Append(g, n)[Len(g) + 1] = n
  BY <1>2 DEF Graph
<1>5. DOMAIN g = 1..Len(g) /\ Len(g) \in Nat
  BY DEF Graph
<1> QED
  BY <1>3, <1>4, <1>5 DEF Graph, ExtendsGraph, n

(* The node a successful builder call returns.                             *)
LEMMA BuildLast ==
  ASSUME NEW g \in Graph, NEW e \in Expr, Buildable(g, e),
         NEW h, h = Build(g, e)
  PROVE  /\ Len(h) \in DOMAIN h
         /\ h[Len(h)].val = Denotes(g, e) /\ h[Len(h)].type = e.type
<1>1. /\ h \in Graph /\ Len(h) = Len(g) + 1
      /\ h[Len(g) + 1] = [op |-> e.op, type |-> e.type, args |-> e.args,
                          val |-> Denotes(g, e)]
  BY BuildProperties
<1>2. Len(g) \in Nat /\ DOMAIN h = 1..Len(h)
  BY <1>1 DEF Graph
<1> QED
  BY <1>1, <1>2

LEMMA ExtendsReflexive ==
  ASSUME NEW g \in Graph PROVE ExtendsGraph(g, g)
BY DEF ExtendsGraph, Graph

LEMMA ExtendsDomain ==
  ASSUME NEW g \in Graph, NEW h \in Graph, ExtendsGraph(h, g)
  PROVE  DOMAIN g \subseteq DOMAIN h
BY DEF ExtendsGraph, Graph

(* Appending nodes keeps an expression valid and its meaning unchanged.    *)
LEMMA ExtendsStable ==
  ASSUME NEW g \in Graph, NEW h \in Graph, ExtendsGraph(h, g),
         NEW e, Buildable(g, e)
  PROVE  Buildable(h, e) /\ Denotes(h, e) = Denotes(g, e)
<1>1. \A k \in DOMAIN e.args : e.args[k] \in DOMAIN g
  BY DEF Buildable
<1>2. \A k \in DOMAIN e.args : e.args[k] \in DOMAIN h /\ h[e.args[k]] = g[e.args[k]]
  BY <1>1, ExtendsDomain DEF ExtendsGraph
<1>3. ArgTypes(h, e.args) = ArgTypes(g, e.args)
  BY <1>2 DEF ArgTypes
<1>4. ArgVals(h, e.args) = ArgVals(g, e.args)
  BY <1>2 DEF ArgVals
<1> QED
  BY <1>2, <1>3, <1>4 DEF Buildable, Denotes

(* Conversely, an expression whose operands are all old is not made valid  *)
(* by nodes that are appended later.                                       *)
LEMMA ExtendsReflects ==
  ASSUME NEW g \in Graph, NEW h \in Graph, ExtendsGraph(h, g), NEW e \in Expr,
         \A k \in DOMAIN e.args : e.args[k] <= Len(g), Buildable(h, e)
  PROVE  Buildable(g, e)
<1>1. \A k \in DOMAIN e.args : e.args[k] \in DOMAIN h
  BY DEF Buildable
<1>2. \A k \in DOMAIN e.args : e.args[k] \in DOMAIN g
  BY <1>1 DEF Graph
<1>3. ArgTypes(h, e.args) = ArgTypes(g, e.args)
  BY <1>2 DEF ArgTypes, ExtendsGraph
<1> QED
  BY <1>2, <1>3 DEF Buildable

(* Whether a node is valid depends on its operands only.                   *)
LEMMA BuildableAlike ==
  ASSUME NEW g, NEW d, NEW e, d.op = e.op, d.type = e.type, d.args = e.args
  PROVE  /\ Buildable(g, d) <=> Buildable(g, e)
         /\ Denotes(g, d) = Denotes(g, e)
BY DEF Buildable, Denotes

(* A successful builder call keeps the graph well formed.                  *)
LEMMA BuildWellFormed ==
  ASSUME NEW g \in Graph, NEW e \in Expr, WellFormed(g), Buildable(g, e)
  PROVE  WellFormed(Build(g, e))
<1> DEFINE h == Build(g, e)
<1>1. /\ h \in Graph /\ Len(h) = Len(g) + 1 /\ ExtendsGraph(h, g)
      /\ h[Len(g) + 1] = [op |-> e.op, type |-> e.type, args |-> e.args,
                          val |-> Denotes(g, e)]
  BY BuildProperties
<1> HIDE DEF h
<1>2. Len(g) \in Nat /\ DOMAIN g = 1..Len(g) /\ DOMAIN h = 1..(Len(g) + 1)
  BY <1>1 DEF Graph
<1>3. ASSUME NEW n \in DOMAIN g
      PROVE  ValidNode(h, n) /\ h[n].val = Denotes(h, h[n])
  <2>1. h[n] = g[n]
    BY <1>1 DEF ExtendsGraph
  <2>2. ValidNode(g, n) /\ g[n].val = Denotes(g, g[n])
    BY DEF WellFormed
  <2>3. Buildable(h, g[n]) /\ Denotes(h, g[n]) = Denotes(g, g[n])
    BY <1>1, <2>2, ExtendsStable DEF ValidNode
  <2> QED
    BY <2>1, <2>2, <2>3 DEF ValidNode
<1>4. ValidNode(h, Len(g) + 1) /\ h[Len(g) + 1].val = Denotes(h, h[Len(g) + 1])
  <2> DEFINE m == h[Len(g) + 1]
  <2>1. m.op = e.op /\ m.type = e.type /\ m.args = e.args /\ m.val = Denotes(g, e)
    BY <1>1
  <2> HIDE DEF m
  <2>2. Buildable(h, e) /\ Denotes(h, e) = Denotes(g, e)
    BY <1>1, ExtendsStable
  <2>3. Buildable(h, m) /\ Denotes(h, m) = Denotes(h, e)
    BY <2>1, <2>2, BuildableAlike
  <2>4. \A k \in DOMAIN m.args : m.args[k] \in 1..((Len(g) + 1) - 1)
    BY <2>1, <1>2 DEF Buildable
  <2> QED
    BY <2>1, <2>2, <2>3, <2>4 DEF ValidNode, m
<1>5. \A n \in DOMAIN h : n \in DOMAIN g \/ n = Len(g) + 1
  BY <1>2
<1> QED
  BY <1>3, <1>4, <1>5 DEF WellFormed, h
-----------------------------------------------------------------------------
(* A worklist run: every step keeps its types and RunInv.  Whatever the    *)
(* rules do within their contract, and wherever a budget ends the run, the *)
(* copy of a source node denotes what the source node denotes.             *)

(* Sorting a set of node indices gives a sequence of them.                 *)
LEMMA AscendingType ==
  ASSUME NEW n \in Nat, NEW S \in SUBSET (1..n), NEW q \in Ascending(S)
  PROVE  /\ q \in Seq(S)
         /\ DOMAIN q = 1..Cardinality(S)
         /\ Elements(q) = S
<1>1. IsFiniteSet(1..n)
  BY FS_Interval
<1>2. Cardinality(S) \in Nat
  BY <1>1, FS_Subset, FS_CardinalityType
<1>3. /\ q \in [1..Cardinality(S) -> S]
      /\ \A s \in S : \E i \in DOMAIN q : q[i] = s
  BY DEF Ascending
<1>4. q \in Seq(S) /\ DOMAIN q = 1..Cardinality(S)
  BY <1>2, <1>3
<1>5. Elements(q) = S
  BY <1>3 DEF Elements
<1> QED
  BY <1>4, <1>5

(* A node of the source and the node that stands for it keep their         *)
(* relation when the output graph grows.                                   *)
LEMMA CopiesStable ==
  ASSUME out \in Graph, NEW h \in Graph, ExtendsGraph(h, out),
         NEW n, NEW i, StandsFor(n, i)
  PROVE  n \in DOMAIN h /\ h[n].val = src[i].val /\ h[n].type = src[i].type
BY ExtendsDomain DEF StandsFor, ExtendsGraph

(* The heart of the import loop and of the worklist: an expression whose   *)
(* operands are the copies of a source node's operands is accepted by the  *)
(* builder and denotes what the source node denotes.                       *)
LEMMA CopySound ==
  ASSUME RunTypeOK, RunInv, NEW i \in DOMAIN src, Resolved(src[i].args)
  PROVE  /\ CopyOf(i) \in Expr
         /\ Known(out, CopyOf(i))
         /\ Buildable(out, CopyOf(i))
         /\ Denotes(out, CopyOf(i)) = src[i].val
         /\ CopyOf(i).type = src[i].type
<1> DEFINE e == src[i]
           args == Mapped(e.args)
<1>1. e.args \in Seq(Nat) /\ e.op \in Symbols /\ e.type \in Types
  <2>1. src[i] \in Node
    BY SMTT(30) DEF RunTypeOK, Graph
  <2> QED
    BY <2>1 DEF Node
<1>2. ValidNode(src, i) /\ e.val = Denotes(src, e)
  BY DEF RunInv, WellFormed
<1>3. Buildable(src, e) /\ \A k \in DOMAIN e.args : e.args[k] \in DOMAIN src
  BY <1>2 DEF ValidNode, Buildable
<1>4. DOMAIN e.args = 1..Len(e.args) /\ Len(e.args) \in Nat
  BY <1>1
<1>5. DOMAIN args = DOMAIN e.args /\ \A k \in DOMAIN args : args[k] = copied[e.args[k]]
  BY DEF Mapped
<1>6. \A k \in DOMAIN args :
        /\ args[k] \in Nat
        /\ args[k] \in DOMAIN out
        /\ out[args[k]].val = src[e.args[k]].val
        /\ out[args[k]].type = src[e.args[k]].type
  BY <1>3, <1>5 DEF Resolved, RunTypeOK, RunInv, CopiesSound, StandsFor
<1>7. args \in Seq(Nat) /\ Len(args) = Len(e.args)
  <2>1. args \in [1..Len(e.args) -> Nat]
    BY <1>4, <1>5, <1>6 DEF Mapped
  <2> QED
    BY <2>1, <1>4
<1>8. CopyOf(i) = [op |-> e.op, type |-> e.type, args |-> args]
  BY DEF CopyOf
<1>9. ArgTypes(out, args) = ArgTypes(src, e.args) /\ ArgVals(out, args) = ArgVals(src, e.args)
  BY <1>5, <1>6 DEF ArgTypes, ArgVals
<1> HIDE DEF e, args
<1>10. CopyOf(i).op = e.op /\ CopyOf(i).type = e.type /\ CopyOf(i).args = args
  BY <1>8
<1>11. Len(out) \in Nat /\ DOMAIN out = 1..Len(out)
  BY DEF RunTypeOK, Graph
<1>12. CopyOf(i) \in Expr
  BY <1>1, <1>7, <1>8 DEF Expr
<1>13. Known(out, CopyOf(i))
  BY <1>6, <1>10, <1>11 DEF Known
<1>14. Buildable(out, CopyOf(i))
  BY <1>3, <1>6, <1>7, <1>9, <1>10 DEF Buildable
<1>15. Denotes(out, CopyOf(i)) = e.val
  BY <1>2, <1>9, <1>10 DEF Denotes
<1> QED
  BY <1>10, <1>12, <1>13, <1>14, <1>15 DEF e

(* A step that leaves the graphs, the copies and the subject alone.        *)
LEMMA QuietStep ==
  ASSUME RunInv, UNCHANGED <<src, out, copied>>,
         stage' \notin {"rules", "settle"}
  PROVE  RunInv'
BY DEF RunInv, CopiesSound, SubjectSound, FinalSound, StandsFor, WellFormed,
       ValidNode, Buildable, Denotes, ArgTypes, ArgVals

-----------------------------------------------------------------------------
(* Replacing the copy of one node by a node that stands for it, in a graph *)
(* that has only grown, keeps every copy sound.                            *)
LEMMA CopiesKept ==
  ASSUME RunTypeOK, RunInv, src' = src, out' \in Graph, ExtendsGraph(out', out),
         NEW i, NEW n,
         i \in DOMAIN src =>
           /\ n \in DOMAIN out' /\ out'[n].val = src[i].val
           /\ out'[n].type = src[i].type,
         copied' = [copied EXCEPT ![i] = n]
  PROVE  CopiesSound'
<1>1. DOMAIN copied = DOMAIN src /\ DOMAIN copied' = DOMAIN copied
  BY DEF RunTypeOK
<1> SUFFICES ASSUME NEW j \in DOMAIN copied, copied'[j] # None
             PROVE  /\ copied'[j] \in DOMAIN out'
                    /\ out'[copied'[j]].val = src[j].val
                    /\ out'[copied'[j]].type = src[j].type
  BY <1>1 DEF CopiesSound, StandsFor
<1>2. CASE j = i
  BY <1>1, <1>2
<1>3. CASE j # i
  <2>1. copied'[j] = copied[j] /\ StandsFor(copied[j], j)
    BY <1>1, <1>3 DEF RunInv, CopiesSound
  <2> QED
    BY <2>1, CopiesStable DEF RunTypeOK
<1> QED
  BY <1>2, <1>3

(* Counting a rewrite keeps the per-node counters.                         *)
LEMMA RewriteCounted ==
  ASSUME NEW n, ConsumeRewrite(n), rewrites \in Nat,
         nodeRewrites \in [DOMAIN nodeRewrites -> Nat]
  PROVE  /\ rewrites' \in Nat
         /\ DOMAIN nodeRewrites' = DOMAIN nodeRewrites
         /\ nodeRewrites' \in [DOMAIN nodeRewrites' -> Nat]
<1> DEFINE D == DOMAIN nodeRewrites
<1>1. rewrites' \in Nat
  BY DEF ConsumeRewrite
<1>2. nodeRewrites' = [m \in D |-> IF m = n THEN nodeRewrites[n] + 1 ELSE nodeRewrites[m]]
  BY DEF ConsumeRewrite
<1>3. \A m \in D : nodeRewrites[m] \in Nat
  OBVIOUS
<1> HIDE DEF D
<1>4. nodeRewrites' \in [D -> Nat]
  BY <1>2, <1>3
<1> QED
  BY <1>1, <1>4 DEF D

-----------------------------------------------------------------------------
(* The run's steps.                                                        *)
LEMMA ImportNodeStep ==
  ASSUME RunTypeOK, RunInv, ImportNode
  PROVE  RunTypeOK' /\ RunInv'
<1> USE DEF jobVars, subjectVars, traceVars
<1>1. PICK i \in todo : ImportAt(i)
  BY DEF ImportNode
<1>2. /\ stage = "import" /\ stage' = stage
      /\ UNCHANGED <<src, roots, pass, reach, queue, cur, subject, seen, ruleIx,
                     applied, final, popped, changed, trace, nextSequence, steps,
                     rewrites, iterations, nodeRewrites>>
  BY DEF ImportNode
<1>3. imported' \in Nat
  BY SMTT(30) DEF ImportNode, ConsumeImport, RunTypeOK
<1>4. i \in DOMAIN src /\ todo' \subseteq reach
  BY <1>1 DEF RunTypeOK, ImportAt
<1>5. CASE ~(Resolved(src[i].args) /\ OutputFits(Len(out) + 1, Len(src))
               /\ Buildable(out, CopyOf(i)))
  <2>1. UNCHANGED <<out, copied>>
    BY <1>1, <1>5 DEF ImportAt
  <2>2. runStatus' \in Statuses
    BY <1>1, <1>5 DEF ImportAt, RunTypeOK, Statuses
  <2>3. RunTypeOK'
    BY <1>2, <1>3, <1>4, <2>1, <2>2 DEF RunTypeOK
  <2> QED
    BY <1>2, <2>1, <2>3, QuietStep
<1>6. CASE /\ Resolved(src[i].args) /\ OutputFits(Len(out) + 1, Len(src))
           /\ Buildable(out, CopyOf(i))
  <2>1. out' = Build(out, CopyOf(i)) /\ copied' = [copied EXCEPT ![i] = Len(out')]
    BY <1>1, <1>6 DEF ImportAt
  <2>2. /\ CopyOf(i) \in Expr /\ Denotes(out, CopyOf(i)) = src[i].val
        /\ CopyOf(i).type = src[i].type
    BY <1>4, <1>6, CopySound
  <2>3. out \in Graph /\ WellFormed(out)
    BY DEF RunTypeOK, RunInv
  <2>4. out' \in Graph /\ ExtendsGraph(out', out) /\ WellFormed(out')
    BY <1>6, <2>1, <2>2, <2>3, BuildProperties, BuildWellFormed
  <2>5. /\ Len(out') \in DOMAIN out'
        /\ out'[Len(out')].val = src[i].val /\ out'[Len(out')].type = src[i].type
    BY <1>6, <2>1, <2>2, <2>3, BuildLast
  <2>6. CopiesSound'
    BY <1>2, <2>1, <2>4, <2>5, CopiesKept
  <2>7. copied' \in [DOMAIN src -> Nat] /\ runStatus' = runStatus
    BY SMTT(30), <1>1, <1>6, <2>1, <2>4 DEF ImportAt, RunTypeOK, Graph
  <2>8. RunTypeOK'
    BY <1>2, <1>3, <1>4, <2>4, <2>7 DEF RunTypeOK
  <2>9. SubjectSound' /\ FinalSound' /\ WellFormed(src)'
    BY <1>2 DEF SubjectSound, FinalSound, RunInv
  <2> QED
    BY <2>4, <2>6, <2>8, <2>9 DEF RunInv
<1> QED
  BY <1>5, <1>6

LEMMA SeedQueueStep ==
  ASSUME RunTypeOK, RunInv, SeedQueue
  PROVE  RunTypeOK' /\ RunInv'
<1> USE DEF jobVars, subjectVars, traceVars, budgetVars
<1>1. queue' \in Seq(reach) /\ stage' \in {"pop", "finish"}
  <2> DEFINE S == {i \in reach : IsOperation(i)}
  <2>1. CASE queue' \in Ascending(S)
    <3>1. S \subseteq 1..Len(src) /\ Len(src) \in Nat
      BY SMTT(30) DEF RunTypeOK, Graph
    <3>2. queue' \in Seq(S)
      BY <2>1, <3>1, AscendingType
    <3> QED
      BY <3>2 DEF SeedQueue
  <2> QED
    BY <2>1 DEF SeedQueue, RunTypeOK
<1>2. RunTypeOK'
  BY <1>1 DEF SeedQueue, RunTypeOK, Stages
<1> QED
  BY <1>1, <1>2, QuietStep DEF SeedQueue

(* The subject taken from the queue starts as the copy of its source node. *)
LEMMA PopSubjectStep ==
  ASSUME RunTypeOK, RunInv, PopSubject
  PROVE  RunTypeOK' /\ RunInv'
<1> USE DEF jobVars, traceVars, budgetVars
<1>1. /\ cur' = Head(queue) /\ Ready(Head(queue)) /\ subject' = CopyOf(Head(queue))
      /\ queue # <<>> /\ queue' = Tail(queue) /\ popped' = popped \cup {Head(queue)}
      /\ ruleIx' = 1 /\ applied' = <<>> /\ final' = None /\ stage' = "rules"
      /\ UNCHANGED <<src, roots, pass, reach, todo, out, copied, changed, runStatus,
                     trace, nextSequence, imported, steps, rewrites, iterations,
                     nodeRewrites>>
  BY DEF PopSubject
<1>2. Head(queue) \in reach /\ Tail(queue) \in Seq(reach) /\ Head(queue) \in DOMAIN src
  BY SMTT(30), <1>1 DEF RunTypeOK
<1>3. Head(queue) \in Nat
  <2>1. DOMAIN src \subseteq Nat
    BY SMTT(30) DEF RunTypeOK, Graph
  <2> QED
    BY <1>2, <2>1
<1>4. /\ CopyOf(Head(queue)) \in Expr /\ Known(out, CopyOf(Head(queue)))
      /\ Buildable(out, CopyOf(Head(queue)))
      /\ Denotes(out, CopyOf(Head(queue))) = src[Head(queue)].val
      /\ CopyOf(Head(queue)).type = src[Head(queue)].type
  BY <1>1, <1>2, CopySound DEF Ready
<1>5. RunTypeOK'
  <2>1. /\ stage' \in Stages /\ cur' \in reach' /\ cur' \in Nat /\ subject' \in Expr
        /\ queue' \in Seq(reach') /\ popped' \subseteq reach'
    BY <1>1, <1>2, <1>3, <1>4 DEF RunTypeOK, Stages
  <2>2. applied' \in Seq(Rules) /\ ruleIx' \in Nat \ {0} /\ final' \in Nat
    BY <1>1 DEF None
  <2> QED
    BY <1>1, <2>1, <2>2 DEF RunTypeOK
<1>6. SubjectSound'
  BY <1>1, <1>4 DEF SubjectSound
<1>7. FinalSound'
  BY <1>1 DEF FinalSound, StandsFor
<1>8. (WellFormed(src) /\ WellFormed(out) /\ CopiesSound)'
  BY <1>1 DEF RunInv, CopiesSound, StandsFor
<1> QED
  BY <1>5, <1>6, <1>7, <1>8 DEF RunInv

(* What a rule attempt leaves true, whatever its outcome.                  *)
LEMMA AttemptSound ==
  ASSUME RunTypeOK, RunInv, NEW o, Attempt(o), stage = "rules"
  PROVE  /\ out' \in Graph /\ WellFormed(src)' /\ WellFormed(out') /\ CopiesSound'
         /\ ExtendsGraph(out', out) /\ steps' \in Nat
         /\ src' = src /\ cur' = cur
         /\ subject' = subject /\ stage' \in {"rules", "settle"} => SubjectSound'
<1> USE DEF jobVars, traceVars
<1>1. Contract(subject, out, o) /\ out' = o.graph /\ o.graph \in Graph
  BY DEF Attempt, Contract, Outcome
<1>2. UNCHANGED <<src, copied, cur>> /\ steps' = steps + 1
  BY DEF Attempt, ConsumeStep
<1>3. out \in Graph /\ out' \in Graph /\ ExtendsGraph(out', out) /\ WellFormed(out')
  BY <1>1 DEF Contract, RunTypeOK
<1>4. CopiesSound'
  <2> SUFFICES ASSUME NEW j \in DOMAIN copied, copied[j] # None
               PROVE  /\ copied[j] \in DOMAIN out'
                      /\ out'[copied[j]].val = src[j].val
                      /\ out'[copied[j]].type = src[j].type
    BY <1>2 DEF CopiesSound, StandsFor
  <2>1. StandsFor(copied[j], j)
    BY DEF RunInv, CopiesSound
  <2> QED
    BY <1>3, <2>1, CopiesStable
<1>5. ASSUME subject' = subject, stage' \in {"rules", "settle"}
      PROVE  SubjectSound'
  <2>1. subject \in Expr /\ Known(out, subject)
    BY DEF RunTypeOK, RunInv, SubjectSound
  <2>2. Known(out', subject)
    <3>1. Len(out) \in Nat /\ Len(out') \in Nat /\ Len(out) <= Len(out')
      BY <1>3 DEF Graph, ExtendsGraph
    <3>2. subject.args \in Seq(Nat)
      BY <2>1 DEF Expr
    <3>3. \A k \in DOMAIN subject.args : subject.args[k] \in Nat
      BY <3>2
    <3> QED
      BY <2>1, <3>1, <3>3 DEF Known
  <2>3. ASSUME Buildable(out', subject)
        PROVE  subject.type = src[cur].type /\ Denotes(out', subject) = src[cur].val
    <3>1. Buildable(out, subject)
      BY <1>3, <2>1, <2>3, ExtendsReflects DEF Known
    <3>2. Denotes(out', subject) = Denotes(out, subject)
      BY <1>3, <3>1, ExtendsStable
    <3> QED
      BY <3>1, <3>2 DEF RunInv, SubjectSound
  <2> QED
    BY <1>2, <1>5, <2>2, <2>3 DEF SubjectSound
<1> QED
  BY <1>2, <1>3, <1>4, <1>5 DEF RunInv, RunTypeOK

(* A rule attempt: the new subject, or the replacement node, still denotes *)
(* the source node; every other outcome leaves the subject as it was.      *)
LEMMA TryRuleStep ==
  ASSUME RunTypeOK, RunInv, TryRule
  PROVE  RunTypeOK' /\ RunInv'
<1> USE DEF jobVars, traceVars
<1>1. PICK o \in Outcomes(Rule, subject, out) :
        \/ Overgrown(o) \/ NoMatch(o) \/ InvalidRewrite(o)
        \/ ReplaceWith(o) \/ RebuildExpression(o)
  BY DEF TryRule
<1>2. stage = "rules" /\ ruleIx <= Len(pass.rules)
  BY DEF TryRule
<1>3. Attempt(o)
  BY <1>1 DEF Overgrown, NoMatch, InvalidRewrite, ReplaceWith, RebuildExpression
<1>4. /\ out' \in Graph /\ WellFormed(src)' /\ WellFormed(out') /\ CopiesSound'
      /\ ExtendsGraph(out', out) /\ steps' \in Nat
      /\ subject' = subject /\ stage' \in {"rules", "settle"} => SubjectSound'
  BY <1>2, <1>3, AttemptSound
<1>5. UNCHANGED <<src, roots, pass, reach, todo, copied, queue, cur, popped,
                  changed, trace, nextSequence, imported, iterations>>
  BY <1>3 DEF Attempt
<1>6. Contract(subject, out, o) /\ out' = o.graph /\ o \in Outcome
  BY <1>3 DEF Attempt, Contract
<1>7. Rule \in Rules
  BY <1>2, SMTT(30) DEF Rule, RunTypeOK, Pass
<1>8. cur \in reach /\ subject \in Expr /\ final = None
  BY <1>2, SMTT(30) DEF RunTypeOK, RunInv, FinalSound
<1>9. /\ Append(applied, Rule) \in Seq(Rules)
      /\ ruleIx + 1 \in Nat \ {0} /\ 1 \in Nat \ {0}
  BY <1>7 DEF RunTypeOK
<1>10. ASSUME ConsumeRewrite(cur)
       PROVE  rewrites' \in Nat /\ nodeRewrites' \in [DOMAIN nodeRewrites' -> Nat]
  BY <1>10, RewriteCounted DEF RunTypeOK
<1> DEFINE Typed == /\ stage' \in Stages /\ ruleIx' \in Nat \ {0}
                    /\ stage' \in {"rules", "settle"} => subject' \in Expr
                    /\ final' \in Nat /\ applied' \in Seq(Rules)
                    /\ runStatus' \in Statuses /\ rewrites' \in Nat
                    /\ nodeRewrites' \in [DOMAIN nodeRewrites' -> Nat]
<1>11. ASSUME Typed
       PROVE  RunTypeOK'
  BY <1>4, <1>5, <1>8, <1>11 DEF RunTypeOK
<1>12. CASE \/ Overgrown(o) \/ InvalidRewrite(o)
  <2>1. /\ stage' = "finish" /\ runStatus' \in Statuses
        /\ UNCHANGED <<subject, ruleIx, applied, final, rewrites, nodeRewrites>>
    BY <1>12 DEF Overgrown, InvalidRewrite, Stop, Statuses
  <2>2. Typed
    BY <2>1 DEF RunTypeOK, Stages
  <2>3. SubjectSound' /\ FinalSound'
    BY <2>1 DEF SubjectSound, FinalSound
  <2> QED
    BY <1>4, <1>11, <2>2, <2>3 DEF RunInv
<1>13. CASE NoMatch(o)
  <2>1. /\ ruleIx' = ruleIx + 1
        /\ UNCHANGED <<stage, subject, applied, final, runStatus, rewrites, nodeRewrites>>
    BY <1>13 DEF NoMatch
  <2>2. Typed
    BY <1>9, <2>1 DEF RunTypeOK
  <2>3. FinalSound'
    BY <1>2, <1>8, <2>1 DEF FinalSound
  <2> QED
    BY <1>2, <1>4, <1>11, <2>1, <2>2, <2>3 DEF RunInv
<1>14. CASE ReplaceWith(o)
  <2>1. /\ UNCHANGED <<subject, ruleIx>> /\ o.kind = "replace"
        /\ \/ /\ stage' = "finish" /\ runStatus' \in Statuses
              /\ UNCHANGED <<applied, final, rewrites, nodeRewrites>>
           \/ /\ AcceptableNode(o) /\ ConsumeRewrite(cur)
              /\ applied' = Append(applied, Rule) /\ final' = o.node
              /\ stage' = "settle" /\ UNCHANGED runStatus
    BY <1>14 DEF ReplaceWith, Stop, Statuses
  <2>2. o.node \in Nat
    BY <1>6 DEF Outcome
  <2>3. Typed
    BY <1>8, <1>9, <1>10, <2>1, <2>2 DEF RunTypeOK, Stages
  <2>4. ASSUME stage' = "settle"
        PROVE  FinalSound'
    <3>1. AcceptableNode(o) /\ final' = o.node
      BY <2>1, <2>4
    <3>2. Buildable(out, subject) /\ o.graph[o.node].val = Denotes(out, subject)
      BY <1>6, <2>1, <3>1 DEF Contract, AcceptableNode
    <3>3. src[cur].val = Denotes(out, subject) /\ src[cur].type = subject.type
      BY <1>2, <3>2 DEF RunInv, SubjectSound
    <3> QED
      BY <1>5, <1>6, <2>4, <3>1, <3>2, <3>3 DEF FinalSound, StandsFor, AcceptableNode
  <2>5. FinalSound'
    BY <2>1, <2>4 DEF FinalSound
  <2>6. SubjectSound'
    BY <1>4, <2>1 DEF SubjectSound
  <2> QED
    BY <1>4, <1>11, <2>3, <2>5, <2>6 DEF RunInv
<1>15. CASE RebuildExpression(o)
  <2>1. /\ final' = final /\ o.kind = "rebuild"
        /\ \/ /\ stage' = "finish" /\ runStatus' \in Statuses
              /\ UNCHANGED <<subject, ruleIx, applied, rewrites, nodeRewrites>>
           \/ /\ ConsumeRewrite(cur)
              /\ applied' = Append(applied, Rule) /\ ruleIx' = 1
              /\ subject' = o.to /\ UNCHANGED <<stage, runStatus>>
    BY <1>15 DEF RebuildExpression, RebuildFailure, Stop, Statuses
  <2>2. o.to \in Expr
    BY <1>6 DEF Outcome, Expr, Symbols
  <2>3. Typed
    BY <1>8, <1>9, <1>10, <2>1, <2>2 DEF RunTypeOK, Stages
  <2>4. FinalSound'
    BY <1>2, <1>8, <2>1 DEF FinalSound
  <2>5. SubjectSound'
    <3>1. CASE stage' = "finish"
      BY <3>1 DEF SubjectSound
    <3>2. CASE subject' = o.to /\ stage' = stage
      <4>1. Known(out', o.to)
        BY <1>6, <2>1 DEF Contract
      <4>2. ASSUME Buildable(out', o.to)
            PROVE  o.to.type = src[cur].type /\ Denotes(out', o.to) = src[cur].val
        <5>1. Buildable(out, subject)
          BY <1>6, <2>1 DEF Contract
        <5>2. o.to.type = subject.type /\ Denotes(out', o.to) = Denotes(out, subject)
          BY <1>6, <2>1, <4>2 DEF Contract
        <5> QED
          BY <1>2, <5>1, <5>2 DEF RunInv, SubjectSound
      <4> QED
        BY <1>5, <3>2, <4>1, <4>2 DEF SubjectSound
    <3> QED
      BY <2>1, <3>1, <3>2
  <2> QED
    BY <1>4, <1>11, <2>3, <2>4, <2>5 DEF RunInv
<1> QED
  BY <1>1, <1>12, <1>13, <1>14, <1>15

(* Recording the applied rules extends the trace with events.              *)
LEMMA SettleTrace ==
  ASSUME RunTypeOK, NEW node, Settle(node)
  PROVE  /\ trace' \in Seq(Event) /\ nextSequence' \in Nat
         /\ Len(trace) <= Len(trace')
<1>1. applied \in Seq(Rules) /\ nextSequence \in Nat /\ iterations \in Nat
      /\ trace \in Seq(Event)
  BY DEF RunTypeOK
<1>2. AppliedEvents \in Seq(Event)
  <2>1. DOMAIN applied = 1..Len(applied) /\ Len(applied) \in Nat
    BY <1>1
  <2>2. \A k \in 1..Len(applied) :
          [sequence |-> nextSequence + k - 1, rule |-> applied[k],
           iteration |-> iterations] \in Event
    BY <1>1 DEF Event
  <2> QED
    BY <2>1, <2>2 DEF AppliedEvents
<1>3. \/ UNCHANGED <<trace, nextSequence>>
      \/ trace' = trace \o AppliedEvents /\ nextSequence' = nextSequence + Len(applied)
  BY DEF Settle, traceVars
<1>4. /\ trace \o AppliedEvents \in Seq(Event)
      /\ Len(trace) <= Len(trace \o AppliedEvents)
  BY <1>1, <1>2
<1>5. nextSequence + Len(applied) \in Nat
  BY <1>1
<1>6. Len(trace) \in Nat
  BY <1>1
<1>7. CASE UNCHANGED <<trace, nextSequence>>
  BY <1>1, <1>6, <1>7
<1>8. CASE trace' = trace \o AppliedEvents /\ nextSequence' = nextSequence + Len(applied)
  BY <1>4, <1>5, <1>8, Zenon
<1> QED
  BY <1>3, <1>7, <1>8

(* The end of the loop body, given the node that stands for cur.           *)
LEMMA SettleStep ==
  ASSUME RunTypeOK, RunInv, stage = "settle", NEW node \in Nat, Settle(node),
         out' \in Graph, ExtendsGraph(out', out), WellFormed(out'),
         node # Old => /\ node \in DOMAIN out' /\ out'[node].val = src[cur].val
                       /\ out'[node].type = src[cur].type,
         UNCHANGED <<jobVars, todo, subjectVars, popped, budgetVars>>
  PROVE  RunTypeOK' /\ RunInv'
<1> USE DEF jobVars, subjectVars, traceVars, budgetVars
<1>1. stage' = "pop" /\ runStatus' = runStatus
  BY DEF Settle
<1>2. CopiesSound'
  <2>1. CASE node = Old
    <3>1. copied' = copied
      BY <2>1 DEF Settle
    <3>2. copied' = [copied EXCEPT ![0] = 0]
      <4>1. 0 \notin DOMAIN copied
        BY SMTT(30) DEF RunTypeOK, Graph
      <4> QED
        BY <3>1, <4>1 DEF RunTypeOK
    <3>3. 0 \notin DOMAIN src
      <4>1. src \in Graph
        BY DEF RunTypeOK
      <4> QED
        BY <4>1 DEF Graph
    <3> QED
      BY <3>2, <3>3, CopiesKept
  <2>2. CASE node # Old
    <3>1. copied' = [copied EXCEPT ![cur] = node]
      BY <2>2 DEF Settle
    <3> QED
      BY <2>2, <3>1, CopiesKept
  <2> QED
    BY <2>1, <2>2
<1>3. copied' \in [DOMAIN src -> Nat]
  BY DEF Settle, RunTypeOK
<1>4. queue' \in Seq(reach)
  <2>1. ASSUME NEW q \in Ascending(Users(cur) \ Elements(queue)), queue' = queue \o q
        PROVE  queue' \in Seq(reach)
    <3>1. Users(cur) \ Elements(queue) \subseteq 1..Len(src) /\ Len(src) \in Nat
      <4>1. src \in Graph /\ reach \subseteq DOMAIN src
        BY DEF RunTypeOK
      <4> QED
        BY <4>1 DEF Users, Graph
    <3>2. q \in Seq(Users(cur) \ Elements(queue))
      BY <3>1, AscendingType
    <3>3. q \in Seq(reach)
      BY <3>2 DEF Users
    <3> QED
      BY <2>1, <3>3 DEF RunTypeOK
  <2> QED
    BY <2>1 DEF Settle, RunTypeOK
<1>5. trace' \in Seq(Event) /\ nextSequence' \in Nat
  BY SettleTrace
<1>6. changed' \in BOOLEAN
  BY DEF Settle, RunTypeOK
<1>7. RunTypeOK'
  BY <1>1, <1>3, <1>4, <1>5, <1>6 DEF RunTypeOK, Stages
<1>8. SubjectSound' /\ FinalSound' /\ WellFormed(src)'
  BY <1>1 DEF SubjectSound, FinalSound, RunInv
<1> QED
  BY <1>2, <1>7, <1>8 DEF RunInv

LEMMA KeepOrReplaceStep ==
  ASSUME RunTypeOK, RunInv, KeepOrReplace
  PROVE  RunTypeOK' /\ RunInv'
<1> DEFINE node == IF final # None THEN final ELSE Old
<1>1. stage = "settle" /\ Settle(node) /\ out' = out
      /\ UNCHANGED <<jobVars, todo, subjectVars, popped, budgetVars>>
  BY DEF KeepOrReplace
<1>2. out' \in Graph /\ ExtendsGraph(out', out) /\ WellFormed(out')
  BY <1>1, ExtendsReflexive DEF RunTypeOK, RunInv
<1>3. node \in Nat
  BY <1>1 DEF RunTypeOK, Old
<1>4. node # Old => /\ node \in DOMAIN out' /\ out'[node].val = src[cur].val
                    /\ out'[node].type = src[cur].type
  BY <1>1 DEF RunInv, FinalSound, StandsFor
<1> HIDE DEF node
<1> QED
  BY <1>1, <1>2, <1>3, <1>4, SettleStep

LEMMA RebuildNodeStep ==
  ASSUME RunTypeOK, RunInv, RebuildNode
  PROVE  RunTypeOK' /\ RunInv'
<1>1. /\ stage = "settle"
      /\ UNCHANGED <<jobVars, todo, subjectVars, popped, budgetVars>>
  BY DEF RebuildNode
<1>2. CASE ~(OutputFits(Len(out) + 1, Len(src)) /\ Buildable(out, subject))
  <2>1. /\ stage' = "finish" /\ runStatus' \in Statuses
        /\ UNCHANGED <<out, copied, changed, queue, traceVars>>
    BY <1>2 DEF RebuildNode, Stop, Statuses
  <2>2. RunTypeOK'
    BY <1>1, <2>1 DEF RunTypeOK, Stages, jobVars, subjectVars, traceVars, budgetVars
  <2> QED
    BY <1>1, <2>1, <2>2, QuietStep DEF jobVars
<1>3. CASE OutputFits(Len(out) + 1, Len(src)) /\ Buildable(out, subject)
  <2>1. out' = Build(out, subject) /\ Settle(Len(out'))
    BY <1>3 DEF RebuildNode
  <2>2. out \in Graph /\ WellFormed(out) /\ subject \in Expr
    BY <1>1 DEF RunTypeOK, RunInv
  <2>3. out' \in Graph /\ ExtendsGraph(out', out) /\ WellFormed(out')
    BY <1>3, <2>1, <2>2, BuildProperties, BuildWellFormed
  <2>4. /\ Len(out') \in DOMAIN out' /\ out'[Len(out')].val = Denotes(out, subject)
        /\ out'[Len(out')].type = subject.type
    BY <1>3, <2>1, <2>2, BuildLast
  <2>5. Denotes(out, subject) = src[cur].val /\ subject.type = src[cur].type
    BY <1>1, <1>3 DEF RunInv, SubjectSound
  <2>6. Len(out') \in Nat
    BY <2>3 DEF Graph
  <2> QED
    BY <1>1, <2>1, <2>3, <2>4, <2>5, <2>6, SettleStep
<1> QED
  BY <1>2, <1>3

(* The steps that only move the run along.                                 *)
LEMMA ControlSteps ==
  ASSUME RunTypeOK, RunInv,
         \/ ImportBudgetSpent \/ QueueEmpty \/ DropNode \/ SkipRule
         \/ StepBudgetSpent \/ RulesDone
  PROVE  RunTypeOK' /\ RunInv'
<1> USE DEF jobVars, subjectVars, traceVars, budgetVars
<1>1. CASE ImportBudgetSpent
  <2>1. RunTypeOK'
    BY <1>1 DEF ImportBudgetSpent, RunTypeOK, Statuses
  <2> QED
    BY <1>1, <2>1, QuietStep DEF ImportBudgetSpent
<1>2. CASE QueueEmpty
  <2>1. RunTypeOK'
    BY <1>2 DEF QueueEmpty, RunTypeOK, Stages
  <2> QED
    BY <1>2, <2>1, QuietStep DEF QueueEmpty
<1>3. CASE DropNode
  <2>1. Tail(queue) \in Seq(reach)
    BY <1>3 DEF DropNode, RunTypeOK
  <2>2. RunTypeOK'
    BY <1>3, <2>1 DEF DropNode, RunTypeOK, Stages
  <2> QED
    BY <1>3, <2>2, QuietStep DEF DropNode
<1>4. CASE SkipRule
  <2>1. ruleIx + 1 \in Nat \ {0}
    BY DEF RunTypeOK
  <2>2. RunTypeOK'
    BY <1>4, <2>1 DEF SkipRule, RunTypeOK
  <2> QED
    BY <1>4, <2>2 DEF SkipRule, RunInv, CopiesSound, SubjectSound, FinalSound,
                      StandsFor
<1>5. CASE StepBudgetSpent
  <2>1. RunTypeOK'
    BY <1>5 DEF StepBudgetSpent, Stop, RunTypeOK, Stages, Statuses
  <2> QED
    BY <1>5, <2>1, QuietStep DEF StepBudgetSpent, Stop
<1>6. CASE RulesDone
  <2>1. RunTypeOK'
    BY <1>6 DEF RulesDone, RunTypeOK, Stages
  <2> QED
    BY <1>6, <2>1 DEF RulesDone, RunInv, CopiesSound, SubjectSound, FinalSound,
                      StandsFor
<1> QED
  BY <1>1, <1>2, <1>3, <1>4, <1>5, <1>6

LEMMA TraceLength ==
  ASSUME RunTypeOK PROVE Len(trace) \in Nat /\ Len(trace) <= Len(trace)
BY DEF RunTypeOK

(* What no step of a run changes.                                          *)
LEMMA RunStepFrame ==
  ASSUME RunTypeOK, RunStep
  PROVE  /\ UNCHANGED <<src, roots, iterations>>
         /\ DOMAIN nodeRewrites' = DOMAIN nodeRewrites
         /\ stage # "idle" /\ stage' # "idle"
         /\ Len(trace) <= Len(trace')
<1> USE DEF jobVars, subjectVars, traceVars, budgetVars, Stop
<1>1. CASE ImportBudgetSpent \/ ImportNode \/ SeedQueue \/ QueueEmpty \/ DropNode
             \/ PopSubject \/ SkipRule \/ StepBudgetSpent \/ RulesDone
  <2>1. trace' = trace
    BY <1>1 DEF ImportBudgetSpent, ImportNode, SeedQueue, QueueEmpty, DropNode,
                PopSubject, SkipRule, StepBudgetSpent, RulesDone
  <2> QED
    BY <1>1, <2>1, TraceLength
         DEF ImportBudgetSpent, ImportNode, SeedQueue, QueueEmpty, DropNode,
             PopSubject, SkipRule, StepBudgetSpent, RulesDone
<1>2. CASE KeepOrReplace \/ RebuildNode
  <2>1. trace' = trace \/ \E node : Settle(node)
    BY <1>2 DEF KeepOrReplace, RebuildNode
  <2>2. Len(trace) <= Len(trace')
    BY <2>1, TraceLength, SettleTrace
  <2> QED
    BY <1>2, <2>2 DEF KeepOrReplace, RebuildNode, Settle
<1>3. CASE TryRule
  <2>1. PICK o \in Outcomes(Rule, subject, out) :
          \/ Overgrown(o) \/ NoMatch(o) \/ InvalidRewrite(o)
          \/ ReplaceWith(o) \/ RebuildExpression(o)
    BY <1>3 DEF TryRule
  <2>2. Attempt(o) /\ stage = "rules" /\ stage' \in {"rules", "settle", "finish"}
    BY <1>3, <2>1 DEF TryRule, Overgrown, NoMatch, InvalidRewrite, ReplaceWith,
                      RebuildExpression
  <2>3. ConsumeRewrite(cur) \/ UNCHANGED nodeRewrites
    BY <2>1 DEF Overgrown, NoMatch, InvalidRewrite, ReplaceWith, RebuildExpression
  <2>4. DOMAIN nodeRewrites' = DOMAIN nodeRewrites
    BY <2>3, RewriteCounted DEF RunTypeOK
  <2> QED
    BY <2>2, <2>4, TraceLength DEF Attempt
<1> QED
  BY <1>1, <1>2, <1>3 DEF RunStep

(* Every step of a run keeps its types and its invariant.                  *)
THEOREM RunStepSound ==
  ASSUME RunTypeOK, RunInv, RunStep
  PROVE  RunTypeOK' /\ RunInv'
BY ControlSteps, ImportNodeStep, SeedQueueStep, PopSubjectStep, TryRuleStep,
   KeepOrReplaceStep, RebuildNodeStep DEF RunStep

(* A run starts in a sound state, whatever it is given to copy.            *)
LEMMA StartRunSound ==
  ASSUME NEW g \in Graph, WellFormed(g), NEW rs \in Seq(Nat), NEW p \in Pass,
         NEW counts, counts \in [DOMAIN counts -> Nat],
         RunTypeOK, StartRun(g, rs, p, counts), iterations' \in Nat
  PROVE  RunTypeOK' /\ RunInv'
<1> USE DEF traceVars
<1>1. /\ src' = g /\ roots' = rs /\ pass' = p /\ nodeRewrites' = counts
      /\ copied' = [n \in DOMAIN g |-> None]
      /\ out' = <<>> /\ queue' = <<>> /\ changed' = FALSE /\ popped' = {}
      /\ cur' = None /\ ruleIx' = 1 /\ applied' = <<>> /\ final' = None
      /\ todo' = reach' /\ UNCHANGED <<trace, nextSequence, imported, steps, rewrites>>
  BY DEF StartRun
<1>2. stage' \in {"import", "finish"} /\ runStatus' \in Statuses /\ reach' \subseteq DOMAIN g
  BY DEF StartRun, Stop, Statuses, Reachable
<1>3. <<>> \in Graph /\ WellFormed(<<>>)
  BY DEF Graph, WellFormed
<1>4. /\ copied' \in [DOMAIN src' -> Nat] /\ queue' \in Seq(reach')
      /\ applied' \in Seq(Rules) /\ nodeRewrites' \in [DOMAIN nodeRewrites' -> Nat]
  BY <1>1 DEF None
<1>5. RunTypeOK'
  <2>1. /\ stage' \in Stages /\ stage' \notin {"rules", "settle"}
        /\ src' \in Graph /\ out' \in Graph /\ roots' \in Seq(Nat) /\ pass' \in Pass
    BY <1>1, <1>2, <1>3 DEF Stages
  <2>2. /\ reach' \subseteq DOMAIN src' /\ todo' \subseteq reach' /\ popped' \subseteq reach'
        /\ cur' \in Nat /\ final' \in Nat /\ ruleIx' \in Nat \ {0} /\ runStatus' \in Statuses
    BY <1>1, <1>2 DEF None
  <2>3. /\ changed' \in BOOLEAN
        /\ imported' \in Nat /\ steps' \in Nat /\ rewrites' \in Nat
        /\ trace' \in Seq(Event) /\ nextSequence' \in Nat
    BY <1>1 DEF RunTypeOK
  <2> QED
    BY <1>4, <2>1, <2>2, <2>3 DEF RunTypeOK
<1>6. CopiesSound' /\ SubjectSound' /\ FinalSound'
  BY <1>1, <1>2 DEF CopiesSound, SubjectSound, FinalSound, None
<1> QED
  BY <1>1, <1>3, <1>5, <1>6 DEF RunInv
-----------------------------------------------------------------------------
(* The engine.                                                             *)

(* The run in progress works on the graph and the roots of the engine.     *)
EngineLinks ==
  /\ stage = "idle" <=> pc \in {"validate", "plans", "compact", "done"}
  /\ pc = "import" => src = call.graph /\ roots = call.roots
  /\ pc \in {"phase", "compacting"} => src = working /\ roots = workingRoots
  /\ pc = "phase" => checkpoint.events <= Len(trace)
  /\ WellFormed(working)

IInv == TypeOK /\ RunInv /\ MappingSound /\ EngineLinks

USE DEF None

(* A call's arguments are what the validations have accepted.              *)
LEMMA CallType ==
  ASSUME TypeOK
  PROVE  call.graph \in Graph /\ WellFormed(call.graph) /\ call.roots \in Seq(Nat)
BY InputsAssumption DEF TypeOK

LEMMA InitInvariant ==
  ASSUME Init
  PROVE  IInv
<1> USE DEF Init, BudgetInit, NoMapping, NoRewrites
<1>1. /\ <<>> \in Graph /\ WellFormed(<<>>) /\ DOMAIN <<>> = {}
  BY DEF Graph, WellFormed
<1>2. call.graph \in Graph /\ call.roots \in Seq(Nat) /\ call \in Inputs
  BY InputsAssumption
<1>3. RunTypeOK
  <2>1. /\ stage \in Stages /\ stage \notin {"rules", "settle"} /\ runStatus \in Statuses
        /\ pass \in Pass
    BY DEF Stages, Statuses, CompactionPass, Pass
  <2>2. /\ copied \in [DOMAIN src -> Nat] /\ queue \in Seq(reach)
        /\ roots \in Seq(Nat) /\ applied \in Seq(Rules)
        /\ nodeRewrites \in [DOMAIN nodeRewrites -> Nat]
        /\ trace \in Seq(Event)
    BY <1>1
  <2>3. /\ src \in Graph /\ out \in Graph
        /\ reach \subseteq DOMAIN src /\ todo \subseteq reach /\ popped \subseteq reach
    BY <1>1
  <2>4. changed \in BOOLEAN
    OBVIOUS
  <2>5. /\ cur \in Nat /\ final \in Nat /\ ruleIx \in Nat \ {0}
        /\ imported \in Nat /\ steps \in Nat /\ rewrites \in Nat /\ iterations \in Nat
        /\ nextSequence \in Nat
    OBVIOUS
  <2> QED
    BY <2>1, <2>2, <2>3, <2>4, <2>5 DEF RunTypeOK
<1>4. RunInv
  BY <1>1 DEF RunInv, CopiesSound, SubjectSound, FinalSound
<1>5. TypeOK
  <2>1. mapping \in [DOMAIN call.graph -> Nat] /\ DOMAIN nodeRewrites = DOMAIN working
    BY <1>1
  <2>2. /\ workingRoots \in Seq(Nat) /\ positions \in Seq(Nat)
        /\ DOMAIN positions = DOMAIN workingRoots
        /\ checkpoint \in [events : Nat, sequence : Nat]
    OBVIOUS
  <2>3. working \in Graph /\ planIx \in Nat \ {0} /\ status \in Statuses
    BY <1>1 DEF Statuses
  <2>4. /\ changedSequence \in BOOLEAN /\ stop \in BOOLEAN
        /\ adopted \subseteq 0..iterations
    OBVIOUS
  <2>5. pc \in {"validate", "import", "plans", "phase", "compact", "compacting", "done"}
    OBVIOUS
  <2> QED
    BY <1>2, <1>3, <2>1, <2>2, <2>3, <2>4, <2>5 DEF TypeOK
<1>6. MappingSound /\ EngineLinks
  BY <1>1 DEF MappingSound, EngineLinks
<1> QED
  BY <1>4, <1>5, <1>6 DEF IInv

(* A finished run leaves a sound idle state.                               *)
LEMMA RunOverSound ==
  ASSUME RunTypeOK, RunInv, RunOver, iterations' = iterations,
         trace' \in Seq(Event), nextSequence' \in Nat,
         nodeRewrites' \in [DOMAIN nodeRewrites' -> Nat]
  PROVE  RunTypeOK' /\ RunInv'
<1> USE DEF RunOver, jobVars, subjectVars
<1>1. RunTypeOK'
  BY DEF RunTypeOK, Stages
<1> QED
  BY <1>1, QuietStep

(* Rolling back shortens the trace to the checkpoint.                      *)
LEMMA RollbackType ==
  ASSUME TypeOK, EngineLinks, pc = "phase", Rollback
  PROVE  trace' \in Seq(Event) /\ nextSequence' \in Nat
<1>1. checkpoint.events \in Nat /\ checkpoint.sequence \in Nat
  BY DEF TypeOK
<1>2. trace \in Seq(Event) /\ checkpoint.events <= Len(trace)
  BY DEF TypeOK, RunTypeOK, EngineLinks
<1>3. SubSeq(trace, 1, checkpoint.events) \in Seq(Event)
  BY <1>1, <1>2
<1> QED
  BY <1>1, <1>3 DEF Rollback

(* The roots a run kept, in order, give the new roots.                     *)
LEMMA KeptType ==
  ASSUME RunTypeOK, NEW p \in Ascending(KeptRoots)
  PROVE  /\ p \in Seq(DOMAIN roots) /\ p \in Seq(Nat)
         /\ [k \in DOMAIN p |-> copied[roots[p[k]]]] \in Seq(Nat)
<1>1. KeptRoots \subseteq 1..Len(roots) /\ Len(roots) \in Nat /\ DOMAIN roots = 1..Len(roots)
  BY SMTT(30) DEF KeptRoots, RunTypeOK
<1>2. p \in Seq(KeptRoots)
  BY <1>1, AscendingType
<1>3. p \in Seq(DOMAIN roots) /\ p \in Seq(Nat)
  <2>1. DOMAIN p = 1..Len(p) /\ Len(p) \in Nat /\ p \in [DOMAIN p -> KeptRoots]
    BY <1>2
  <2>2. KeptRoots \subseteq DOMAIN roots /\ KeptRoots \subseteq Nat
    BY <1>1
  <2>3. p \in [1..Len(p) -> DOMAIN roots] /\ p \in [1..Len(p) -> Nat]
    BY <2>1, <2>2
  <2> QED
    BY <2>1, <2>3
<1>4. \A k \in DOMAIN p : copied[roots[p[k]]] \in Nat
  <2> SUFFICES ASSUME NEW k \in DOMAIN p PROVE copied[roots[p[k]]] \in Nat
    OBVIOUS
  <2>1. p[k] \in KeptRoots
    BY <1>2
  <2>2. roots[p[k]] \in DOMAIN copied
    BY <2>1 DEF KeptRoots
  <2> QED
    BY <2>2 DEF RunTypeOK
<1>5. DOMAIN p = 1..Len(p) /\ Len(p) \in Nat
  BY <1>3
<1> QED
  BY <1>3, <1>4, <1>5

(* A new working graph has no node rewrites counted against it.            *)
LEMMA FreshCounts ==
  ASSUME NEW g
  PROVE  /\ DOMAIN NoRewrites(DOMAIN g) = DOMAIN g
         /\ NoRewrites(DOMAIN g) \in [DOMAIN NoRewrites(DOMAIN g) -> Nat]
BY DEF NoRewrites

(* The mapping of a call can always be composed with that of a run: the    *)
(* run's source graph is the graph the mapping points into.                *)
LEMMA AlwaysComposable ==
  ASSUME IInv, pc \in {"phase", "compacting"}
  PROVE  Composable(mapping, copied)
BY DEF IInv, TypeOK, RunTypeOK, EngineLinks, MappingSound, Composable, Uncovered

(* Adopting a run's graph keeps the mapping sound: it is composed with the *)
(* run's own mapping, every entry of which stands for its source node.     *)
LEMMA AdoptSound ==
  ASSUME IInv, pc \in {"phase", "compacting"}, call' = call,
         NEW p \in Ascending(KeptRoots), Adopt(p),
         Composable(mapping, copied), mapping' = Composed(mapping, copied)
  PROVE  /\ working' \in Graph /\ WellFormed(working') /\ MappingSound'
         /\ workingRoots' \in Seq(Nat) /\ positions' \in Seq(Nat)
         /\ DOMAIN positions' = DOMAIN workingRoots'
         /\ mapping' \in [DOMAIN call.graph -> Nat]
         /\ DOMAIN nodeRewrites' = DOMAIN working'
         /\ nodeRewrites' \in [DOMAIN nodeRewrites' -> Nat]
<1>1. src = working /\ roots = workingRoots
  BY DEF IInv, EngineLinks
<1>2. working' = out /\ working' \in Graph /\ WellFormed(working')
  BY DEF Adopt, IInv, TypeOK, RunTypeOK, RunInv
<1>3. p \in Seq(DOMAIN roots) /\ workingRoots' \in Seq(Nat)
  BY KeptType DEF Adopt, IInv, TypeOK
<1>4. positions' \in Seq(Nat) /\ DOMAIN positions' = DOMAIN workingRoots'
  <2>1. DOMAIN p = 1..Len(p) /\ Len(p) \in Nat
    BY <1>3
  <2>2. DOMAIN positions = DOMAIN roots /\ positions \in Seq(Nat)
    BY <1>1 DEF IInv, TypeOK
  <2>3. \A k \in DOMAIN p : positions[p[k]] \in Nat
    BY <1>3, <2>2
  <2>4. positions' = [k \in 1..Len(p) |-> positions[p[k]]] /\ DOMAIN workingRoots' = 1..Len(p)
    BY <2>1 DEF Adopt
  <2> QED
    BY <2>1, <2>3, <2>4
<1>5. DOMAIN nodeRewrites' = DOMAIN working' /\ nodeRewrites' \in [DOMAIN nodeRewrites' -> Nat]
  BY <1>2, FreshCounts DEF Adopt
<1>6. mapping \in [DOMAIN call.graph -> Nat] /\ copied \in [DOMAIN src -> Nat]
  BY DEF IInv, TypeOK, RunTypeOK
<1>7. ASSUME NEW n \in DOMAIN call.graph
      PROVE  /\ mapping'[n] \in Nat
             /\ mapping'[n] # None => /\ mapping[n] \in DOMAIN copied
                                      /\ mapping'[n] = copied[mapping[n]]
                                      /\ mapping[n] # None
  <2> DEFINE D == DOMAIN call.graph
  <2>1. mapping' = [m \in D |-> IF mapping[m] = None THEN mapping[m] ELSE copied[mapping[m]]]
    <3>1. call.graph \in Graph
      BY CallType DEF IInv
    <3>2. D = 1..Len(call.graph) /\ Len(call.graph) \in Nat
      BY <3>1 DEF Graph
    <3>3. \A m \in D : \A k \in 1..m : k \in D
      BY <3>2
    <3>4. DOMAIN mapping = D
      BY <1>6
    <3> HIDE DEF D
    <3>5. \A m \in D : ~\E k \in 1..m : Uncovered(mapping, copied, k)
      BY <3>3, <3>4 DEF Composable
    <3> QED
      BY <3>4, <3>5 DEF Composed
  <2>2. mapping[n] # None => mapping[n] \in DOMAIN copied
    BY <1>6 DEF Composable, Uncovered
  <2> QED
    BY <1>6, <2>1, <2>2
<1>8. mapping' \in [DOMAIN call.graph -> Nat]
  BY <1>6, <1>7 DEF Composed
<1>9. MappingSound'
  <2> SUFFICES ASSUME NEW n \in DOMAIN call.graph, mapping'[n] # None
               PROVE  /\ mapping'[n] \in DOMAIN working'
                      /\ working'[mapping'[n]].val = call.graph[n].val
                      /\ working'[mapping'[n]].type = call.graph[n].type
    BY <1>8 DEF MappingSound
  <2>1. /\ mapping[n] # None /\ mapping[n] \in DOMAIN copied
        /\ mapping'[n] = copied[mapping[n]]
    BY <1>7
  <2>2. StandsFor(copied[mapping[n]], mapping[n])
    BY <2>1 DEF IInv, RunInv, CopiesSound
  <2>3. /\ working[mapping[n]].val = call.graph[n].val
        /\ working[mapping[n]].type = call.graph[n].type
    BY <1>6, <2>1 DEF IInv, MappingSound
  <2> QED
    BY <1>1, <1>2, <2>1, <2>2, <2>3 DEF StandsFor
<1> QED
  BY <1>2, <1>3, <1>4, <1>5, <1>8, <1>9

-----------------------------------------------------------------------------
(* The engine's steps.                                                     *)
LEMMA AfterImportStep ==
  ASSUME IInv, AfterImport
  PROVE  IInv'
<1>1. /\ pc = "import" /\ RunOver /\ call' = call /\ mapping' = copied /\ working' = out
      /\ nodeRewrites' = NoRewrites(DOMAIN out) /\ pc' \in {"plans", "compact"}
      /\ status' = MergedStatus(status, ResultStatus)
      /\ UNCHANGED <<planIx, changedSequence, stop, checkpoint, adopted, iterations,
                     trace, nextSequence>>
  BY DEF AfterImport, traceVars
<1>2. PICK p \in Ascending(KeptRoots) :
        workingRoots' = [k \in DOMAIN p |-> copied[roots[p[k]]]] /\ positions' = p
  BY DEF AfterImport
<1>3. src = call.graph
  BY <1>1 DEF IInv, EngineLinks
<1>4. /\ DOMAIN nodeRewrites' = DOMAIN working'
      /\ nodeRewrites' \in [DOMAIN nodeRewrites' -> Nat]
  BY <1>1, FreshCounts
<1>5. RunTypeOK' /\ RunInv'
  BY <1>1, <1>4, RunOverSound DEF IInv, TypeOK, RunTypeOK
<1>6. /\ workingRoots' \in Seq(Nat) /\ positions' \in Seq(Nat)
      /\ DOMAIN positions' = DOMAIN workingRoots'
  BY <1>2, KeptType DEF IInv, TypeOK
<1>7. /\ working' \in Graph /\ WellFormed(working')
      /\ mapping' \in [DOMAIN call.graph -> Nat]
  BY <1>1, <1>3 DEF IInv, TypeOK, RunTypeOK, RunInv
<1>8. status' \in Statuses
  BY <1>1 DEF IInv, TypeOK, RunTypeOK, MergedStatus, ResultStatus, Statuses
<1>9. TypeOK'
  BY <1>1, <1>4, <1>5, <1>6, <1>7, <1>8 DEF IInv, TypeOK
<1>10. MappingSound'
  BY <1>1, <1>3 DEF IInv, TypeOK, RunTypeOK, RunInv, CopiesSound, StandsFor, MappingSound
<1>11. EngineLinks'
  BY <1>1, <1>7 DEF EngineLinks, RunOver
<1> QED
  BY <1>5, <1>9, <1>10, <1>11 DEF IInv

(* A run's end after which the working graph and the mapping either stay   *)
(* or are replaced by the run's, as Adopt does.                            *)
LEMMA EndOfRunStep ==
  ASSUME IInv, RunOver, pc \in {"phase", "compacting"}, call' = call,
         pc' \in {"plans", "done"}, iterations' = iterations,
         \/ UNCHANGED <<working, workingRoots, positions, nodeRewrites, mapping>>
         \/ /\ mapping' = Composed(mapping, copied)
            /\ \E p \in Ascending(KeptRoots) : Adopt(p),
         trace' \in Seq(Event), nextSequence' \in Nat,
         status' \in Statuses, planIx' \in Nat \ {0},
         changedSequence' \in BOOLEAN, stop' \in BOOLEAN, checkpoint' = checkpoint,
         adopted' \subseteq 0..iterations
  PROVE  IInv'
<1>1. /\ working' \in Graph /\ WellFormed(working') /\ MappingSound'
      /\ workingRoots' \in Seq(Nat) /\ positions' \in Seq(Nat)
      /\ DOMAIN positions' = DOMAIN workingRoots'
      /\ mapping' \in [DOMAIN call.graph -> Nat]
      /\ DOMAIN nodeRewrites' = DOMAIN working'
      /\ nodeRewrites' \in [DOMAIN nodeRewrites' -> Nat]
  <2>1. CASE UNCHANGED <<working, workingRoots, positions, nodeRewrites, mapping>>
    BY <2>1 DEF IInv, TypeOK, RunTypeOK, EngineLinks, MappingSound
  <2>2. CASE /\ mapping' = Composed(mapping, copied)
             /\ \E p \in Ascending(KeptRoots) : Adopt(p)
    BY <2>2, AlwaysComposable, AdoptSound
  <2> QED
    BY <2>1, <2>2
<1>2. RunTypeOK' /\ RunInv'
  BY <1>1, RunOverSound DEF IInv, TypeOK
<1>3. TypeOK'
  BY <1>1, <1>2 DEF IInv, TypeOK
<1>4. EngineLinks'
  BY <1>1 DEF EngineLinks, RunOver
<1> QED
  BY <1>1, <1>2, <1>3, <1>4 DEF IInv

LEMMA StatusType ==
  ASSUME TypeOK
  PROVE  MergedStatus(status, ResultStatus) \in Statuses
BY DEF TypeOK, RunTypeOK, MergedStatus, ResultStatus, Statuses

LEMMA AfterPhaseStep ==
  ASSUME IInv, AfterStoppedPhase \/ AfterStablePhase \/ AfterChangedPhase
  PROVE  IInv'
<1>1. /\ pc = "phase" /\ RunOver /\ pc' = "plans" /\ UNCHANGED <<call, checkpoint, iterations>>
      /\ changedSequence' \in BOOLEAN /\ stop' \in BOOLEAN
  BY DEF AfterStoppedPhase, AfterStablePhase, AfterChangedPhase, IInv, TypeOK
<1>2. \/ UNCHANGED <<working, workingRoots, positions, nodeRewrites, mapping>>
      \/ /\ mapping' = Composed(mapping, copied)
         /\ \E p \in Ascending(KeptRoots) : Adopt(p)
  BY <1>1, AlwaysComposable DEF AfterStoppedPhase, AfterStablePhase, AfterChangedPhase
<1>3. trace' \in Seq(Event) /\ nextSequence' \in Nat
  <2>1. Rollback \/ UNCHANGED traceVars
    BY DEF AfterStoppedPhase, AfterStablePhase, AfterChangedPhase
  <2> QED
    BY <1>1, <2>1, RollbackType DEF IInv, TypeOK, RunTypeOK, traceVars
<1>4. planIx' \in Nat \ {0}
  BY DEF AfterStoppedPhase, AfterStablePhase, AfterChangedPhase, IInv, TypeOK
<1>5. status' \in Statuses
  <2>1. status' \in {status, "internal_failure", MergedStatus(status, ResultStatus)}
    BY DEF AfterStoppedPhase, AfterStablePhase, AfterChangedPhase
  <2> QED
    BY <2>1, StatusType DEF IInv, TypeOK, Statuses
<1>6. adopted' \subseteq 0..iterations
  <2>1. adopted' \in {adopted, adopted \cup {iterations}}
    BY DEF AfterStoppedPhase, AfterStablePhase, AfterChangedPhase
  <2>2. iterations \in Nat /\ adopted \subseteq 0..iterations
    BY DEF IInv, TypeOK, RunTypeOK
  <2> QED
    BY <2>1, <2>2
<1> QED
  BY <1>1, <1>2, <1>3, <1>4, <1>5, <1>6, EndOfRunStep

LEMMA AfterCompactionStep ==
  ASSUME IInv, AfterCompaction
  PROVE  IInv'
<1>1. /\ pc = "compacting" /\ RunOver /\ pc' = "done"
      /\ UNCHANGED <<call, planIx, changedSequence, stop, checkpoint, adopted,
                     iterations, trace, nextSequence>>
  BY DEF AfterCompaction, traceVars
<1>2. \/ UNCHANGED <<working, workingRoots, positions, nodeRewrites, mapping>>
      \/ /\ mapping' = Composed(mapping, copied)
         /\ \E p \in Ascending(KeptRoots) : Adopt(p)
  BY <1>1, AlwaysComposable DEF AfterCompaction
<1>3. status' \in Statuses
  <2>1. status' \in {"internal_failure", MergedStatus(status, ResultStatus)}
    BY DEF AfterCompaction
  <2> QED
    BY <2>1, StatusType DEF IInv, Statuses
<1> QED
  BY <1>1, <1>2, <1>3, EndOfRunStep DEF IInv, TypeOK, RunTypeOK

(* The engine starts a run on a well formed graph.                         *)
LEMMA StartStep ==
  ASSUME IInv, StartImport \/ StartPhase \/ StartCompaction
  PROVE  IInv'
<1>1. /\ UNCHANGED <<call, working, workingRoots, mapping, status, planIx,
                     changedSequence, stop, positions, adopted>>
      /\ iterations' \in {iterations, iterations + 1}
  BY DEF StartImport, StartPhase, StartCompaction, ConsumeIteration
<1>2. iterations \in Nat /\ iterations' \in Nat /\ adopted \subseteq 0..iterations'
  <2>1. iterations \in Nat /\ adopted \subseteq 0..iterations
    BY DEF IInv, TypeOK, RunTypeOK
  <2>2. iterations' \in Nat /\ iterations <= iterations'
    BY <1>1, <2>1
  <2>3. 0..iterations \subseteq 0..iterations'
    BY <2>1, <2>2
  <2> QED
    BY <2>1, <2>2, <2>3
<1>3. ASSUME NEW g \in Graph, WellFormed(g), NEW rs \in Seq(Nat), NEW p \in Pass,
             StartRun(g, rs, p, nodeRewrites)
      PROVE  /\ RunTypeOK' /\ RunInv' /\ nodeRewrites' = nodeRewrites
             /\ src' = g /\ roots' = rs /\ stage' # "idle" /\ trace' = trace
  <2>1. RunTypeOK' /\ RunInv'
    BY <1>2, <1>3, StartRunSound DEF IInv, TypeOK, RunTypeOK
  <2> QED
    BY <1>3, <2>1 DEF StartRun, Stop, traceVars
<1>4. checkpoint' \in [events : Nat, sequence : Nat]
  <2>1. Len(trace) \in Nat
    BY DEF IInv, TypeOK, RunTypeOK
  <2> QED
    BY SMTT(30), <2>1 DEF StartImport, StartPhase, StartCompaction, Mark, IInv, TypeOK, RunTypeOK
<1>5. CASE StartImport
  <2>1. ImportPass \in Pass
    BY DEF ImportPass, Pass
  <2>2. StartRun(call.graph, call.roots, ImportPass, nodeRewrites) /\ pc' = "import"
    BY <1>5 DEF StartImport
  <2>3. /\ RunTypeOK' /\ RunInv' /\ nodeRewrites' = nodeRewrites
        /\ src' = call.graph /\ roots' = call.roots /\ stage' # "idle"
    BY <1>3, <2>1, <2>2, CallType DEF IInv
  <2>4. TypeOK'
    BY <1>1, <1>2, <1>4, <2>2, <2>3 DEF IInv, TypeOK
  <2> QED
    BY <1>1, <2>2, <2>3, <2>4 DEF IInv, MappingSound, EngineLinks
<1>6. CASE StartPhase \/ StartCompaction
  <2>1. PICK p \in Pass : StartRun(working, workingRoots, p, nodeRewrites)
    <3>1. CASE StartPhase
      <4>1. Plans[planIx] \in Plan
        BY <3>1, PlansAssumption DEF StartPhase, IInv, TypeOK
      <4>2. PhasePass(Plans[planIx]) \in Pass
        BY <4>1 DEF Plan, PhasePass, Pass
      <4> QED
        BY <3>1, <4>2 DEF StartPhase
    <3>2. CASE StartCompaction
      <4>1. CompactionPass \in Pass
        BY DEF CompactionPass, Pass
      <4> QED
        BY <3>2, <4>1 DEF StartCompaction
    <3> QED
      BY <1>6, <3>1, <3>2
  <2>2. pc' \in {"phase", "compacting"}
    BY <1>6 DEF StartPhase, StartCompaction
  <2>3. /\ RunTypeOK' /\ RunInv' /\ nodeRewrites' = nodeRewrites
        /\ src' = working /\ roots' = workingRoots /\ stage' # "idle"
        /\ trace' = trace
    BY <1>3, <2>1 DEF IInv, TypeOK, EngineLinks
  <2>4. TypeOK'
    BY <1>1, <1>2, <1>4, <2>2, <2>3 DEF IInv, TypeOK
  <2>5. pc' = "phase" => checkpoint'.events <= Len(trace')
    <3>1. pc' = "phase" => checkpoint' = Mark
      BY <1>6 DEF StartPhase, StartCompaction
    <3>2. Len(trace) \in Nat
      BY DEF IInv, TypeOK, RunTypeOK
    <3> QED
      BY <2>3, <3>1, <3>2 DEF Mark
  <2> QED
    BY <1>1, <2>2, <2>3, <2>4, <2>5 DEF IInv, MappingSound, EngineLinks
<1> QED
  BY <1>5, <1>6

(* The steps of the scheduling loop that touch no graph.                   *)
LEMMA SchedulingStep ==
  ASSUME IInv, \/ Reject \/ SkipPlan \/ PhaseBudgetSpent \/ EndSequence
               \/ NothingToCompact
  PROVE  IInv'
<1> USE DEF Reject, SkipPlan, PhaseBudgetSpent, EndSequence, NothingToCompact,
            runVars, jobVars, subjectVars, traceVars, budgetVars
<1>1. /\ UNCHANGED <<call, working, workingRoots, mapping, checkpoint, positions,
                     adopted, stage, src, roots, pass, reach, todo, out, copied,
                     queue, cur, subject, ruleIx, applied, final, popped, changed,
                     runStatus, trace, nextSequence, imported, steps, rewrites,
                     iterations, nodeRewrites>>
      /\ pc' \in {"plans", "compact", "done"}
      /\ pc \in {"validate", "plans", "compact"}
      /\ stop' \in BOOLEAN /\ changedSequence' \in BOOLEAN
  BY DEF IInv, TypeOK
<1>2. planIx' \in Nat \ {0} /\ status' \in Statuses
  BY DEF IInv, TypeOK, Statuses
<1> HIDE DEF Reject, SkipPlan, PhaseBudgetSpent, EndSequence, NothingToCompact,
            runVars, jobVars, subjectVars, traceVars, budgetVars
<1>3. stage' \notin {"rules", "settle"}
  BY <1>1 DEF IInv, EngineLinks
<1>4. RunTypeOK' /\ RunInv'
  BY <1>1, <1>3, QuietStep DEF IInv, TypeOK, RunTypeOK
<1>5. TypeOK'
  BY <1>1, <1>2, <1>4 DEF IInv, TypeOK
<1>6. MappingSound' /\ EngineLinks'
  BY <1>1 DEF IInv, MappingSound, EngineLinks
<1> QED
  BY <1>4, <1>5, <1>6 DEF IInv

LEMMA RunningStep ==
  ASSUME IInv, RunStep, UNCHANGED engineVars
  PROVE  IInv'
<1> USE DEF engineVars
<1>1. RunTypeOK' /\ RunInv'
  BY RunStepSound DEF IInv, TypeOK
<1>2. /\ UNCHANGED <<src, roots, iterations>>
      /\ DOMAIN nodeRewrites' = DOMAIN nodeRewrites
      /\ stage # "idle" /\ stage' # "idle" /\ Len(trace) <= Len(trace')
  BY RunStepFrame DEF IInv, TypeOK
<1>3. TypeOK'
  BY <1>1, <1>2 DEF IInv, TypeOK
<1>4. checkpoint.events \in Nat /\ Len(trace) \in Nat /\ Len(trace') \in Nat
  <2>1. trace \in Seq(Event) /\ trace' \in Seq(Event)
    BY <1>1 DEF IInv, TypeOK, RunTypeOK
  <2>2. checkpoint \in [events : Nat, sequence : Nat]
    BY DEF IInv, TypeOK
  <2> QED
    BY <2>1, <2>2
<1>5. MappingSound' /\ EngineLinks'
  BY <1>2, <1>4 DEF IInv, MappingSound, EngineLinks
<1> QED
  BY <1>1, <1>3, <1>5 DEF IInv

LEMMA StutterStep ==
  ASSUME IInv, UNCHANGED vars
  PROVE  IInv'
<1> USE DEF vars, runVars, jobVars, subjectVars, traceVars, budgetVars, engineVars
<1>1. RunTypeOK' /\ RunInv'
  BY DEF IInv, TypeOK, RunTypeOK, RunInv, CopiesSound, SubjectSound, FinalSound, StandsFor
<1>2. TypeOK'
  BY <1>1 DEF IInv, TypeOK
<1> QED
  BY <1>1, <1>2 DEF IInv, MappingSound, EngineLinks

-----------------------------------------------------------------------------
(* IInv is an invariant of every call.                                     *)
THEOREM Invariance == Spec => []IInv
<1>1. Init => IInv
  BY InitInvariant
<1>2. IInv /\ [Next]_vars => IInv'
  <2> SUFFICES ASSUME IInv, [Next]_vars PROVE IInv'
    OBVIOUS
  <2> QED
    BY SchedulingStep, StartStep, AfterImportStep, AfterPhaseStep,
       AfterCompactionStep, RunningStep, StutterStep DEF Next, EngineStep
<1> QED
  BY <1>1, <1>2, PTL DEF Spec

(* Every variable keeps its type.                                          *)
THEOREM TypeCorrect == Spec => []TypeOK
<1>1. IInv => TypeOK
  BY DEF IInv
<1> QED
  BY <1>1, Invariance, PTL

(* Whatever the rules do within their contract, and wherever a budget ends *)
(* a run, every copy denotes its source node.                              *)
THEOREM RunsSound == Spec => []RunInv
<1>1. IInv => RunInv
  BY DEF IInv
<1> QED
  BY <1>1, Invariance, PTL

(* The mapping of the result sends every input node it names to a node     *)
(* that denotes the same value and has the same type.                      *)
THEOREM MappingIsSound == Spec => []MappingSound
<1>1. IInv => MappingSound
  BY DEF IInv
<1> QED
  BY <1>1, Invariance, PTL
=============================================================================
