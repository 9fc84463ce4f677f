------------------------------- MODULE Recovery -------------------------------
(***************************************************************************)
(* recovery_engine (lib/recovery/engine.cpp): a query asks for the value   *)
(* of a register lane at a program point.  The engine finds the definition *)
(* that reaches the point in its block and lowers it, or asks every        *)
(* predecessor block and merges the answers.  It calls itself through      *)
(* recover_with_cache, which answers from a cache, refuses a query that is *)
(* already being answered, and stores what it computes.                    *)
(*                                                                         *)
(* The C++ call stack is stack: one frame per active recover_with_cache    *)
(* that waits for a result.  m_active_queries, pushed and popped with      *)
(* these calls, is the queries of the frames.  A result computed without a *)
(* nested call is pushed, popped and cached in one step.                   *)
(***************************************************************************)
EXTENDS StateIndex

CONSTANTS
  Calls,                 \* [prog, queries, maxDepth, mayBarrier]
  ScalarTypes,           \* types constant_value::scalar accepts
  UnknownType,           \* value_type::unknown()
  Lowerable,             \* lane operations with an operation in the catalogue
  Signature(_, _, _)     \* validate_application

Points == [block : Nat, pos : Nat, phase : {"before", "after"}]
Queries(prog) ==
  {q \in [loc : Slice, point : Points, type : Types] : q.point.block \in DOMAIN prog.blocks}
CallType ==
  {c \in [prog : Program, queries : Seq([loc : Slice, point : Points, type : Types]),
          maxDepth : Nat, mayBarrier : BOOLEAN] : c.queries \in Seq(Queries(c.prog))}

(* Programs are valid and queries are about points in them.                *)
ASSUME CallsAssumption == Calls \subseteq CallType
ASSUME TypesAssumption == UnknownType \in Types
(* An operation of the catalogue is no boundary and no merge.              *)
ASSUME LaneOpsAssumption == LaneOps \cap {"external", "unknown", "merge"} = {}

VARIABLES
  call,                  \* program, queries left, configuration
  mode,                  \* what happens next
  entering,              \* the recover_with_cache call: query and depth
  returned,              \* the result on its way to the caller
  stack,
  graph,                 \* *m_output_graph
  provenance,            \* *m_provenance
  cache,                 \* m_cache
  answers                \* history: what recover() returned, and for what

vars == <<call, mode, entering, returned, stack, graph, provenance, cache, answers>>

None == 0

Statuses == {"complete", "partial", "unsupported", "resource_exhausted",
             "invalid_input", "internal_failure"}

Diagnostics ==
  {"loop.cycle", "depth_exhausted", "invalid_lane", "constant", "missing_operand",
   "unsupported_operand", "store_barrier", "invalid_copy", "unsupported_lane_operation",
   "apply", "empty_predecessor", "merge_type_mismatch"}

Result(root, type, prov, status, diags) ==
  [root |-> root, type |-> type, prov |-> prov, status |-> status, diags |-> diags]

Query(loc, point, type) == [loc |-> loc, point |-> point, type |-> type]

(* Fault: incomplete inputs of a merge do not count.                       *)
CompleteWins(lhs, rhs) == IF "complete" \in {lhs, rhs} THEN "complete" ELSE "partial"

CombinedStatus(lhs, rhs) ==
  IF "resource_exhausted" \in {lhs, rhs} THEN "resource_exhausted"
  ELSE IF "internal_failure" \in {lhs, rhs} THEN "internal_failure"
  ELSE IF "invalid_input" \in {lhs, rhs} THEN "invalid_input"
  ELSE IF {lhs, rhs} = {"complete"} THEN "complete" ELSE "partial"

-----------------------------------------------------------------------------
(* The output graph.  note is an unknown's reason, or, as history, what an *)
(* external value stands for; every external value has an id of its own.   *)
Reasons ==
  {"cyclic recovery query", "recovery recursion budget exhausted",
   "requested lane is outside semantic value", "semantic source operand is missing",
   "unsupported source operand", "memory read may depend on an earlier store",
   "lane input recovery failed", "unsupported lane operation",
   "control-flow predecessor recovery failed",
   "control-flow predecessor values have incompatible types"}
Notes ==
  ({"entry"} \X Registers \X Nat) \cup ({"memory"} \X Address \X Nat)
  \cup {<<>>} \cup {<<reason>> : reason \in Reasons}
NodeOps == LaneOps \cup {"zero", "external", "unknown", "merge"}
Node == [op : NodeOps, type : Types, args : Seq(Nat), note : Notes]
Leaf(op, type, note) == [op |-> op, type |-> type, args |-> <<>>, note |-> note]
Apply(op, type, args) == [op |-> op, type |-> type, args |-> args, note |-> <<>>]
NextNode == Len(graph) + 1

(* structural_context::equal                                               *)
Equal(g, a, b) ==
  LET same[p \in (DOMAIN g) \X (DOMAIN g)] ==
        LET m == g[p[1]] n == g[p[2]]
        IN /\ m.op = n.op /\ m.type = n.type /\ Len(m.args) = Len(n.args)
           /\ m.op = "external" => p[1] = p[2]
           /\ m.op = "unknown" => m.note = n.note
           /\ \A k \in DOMAIN m.args : same[<<m.args[k], n.args[k]>>]
  IN same[<<a, b>>]

(* provenance_store::append                                                *)
Record(kind, node, inputs) == [kind |-> kind, node |-> node, inputs |-> inputs]
Boundaries == {"external_input", "memory_boundary", "unknown_boundary"}
Kinds == Boundaries \cup {"instruction_write", "control_flow_merge"}
RecordType == [kind : Kinds, node : Nat, inputs : Seq(Nat)]
(* Fault: the id of the record before.                                     *)
LastRecord == Len(provenance)
NextRecord == Len(provenance) + 1

-----------------------------------------------------------------------------
Top == stack[Len(stack)]
Below == SubSeq(stack, 1, Len(stack) - 1)
Active(q) == \E k \in DOMAIN stack : stack[k].query = q
Hits(q) == {k \in DOMAIN cache : cache[k].query = q}
(* Fault: a query that is still being answered is started again.           *)
NotCached(q) == Hits(q) = {}
Fresh(q) == Hits(q) = {} /\ ~Active(q)

Replace(frame) == stack' = [stack EXCEPT ![Len(stack)] = frame]
Enter(q, depth) == mode' = "enter" /\ entering' = [query |-> q, depth |-> depth]
Return(r) == mode' = "return" /\ returned' = r

(* Fault: only complete results are kept.                                  *)
KeepComplete(q, r) ==
  /\ Return(r)
  /\ cache' = IF r.status = "complete" THEN Append(cache, [query |-> q, result |-> r])
              ELSE cache

(* The end of recover_with_cache for a query it computed.                  *)
Finish(q, r) ==
  /\ Return(r)
  /\ cache' = Append(cache, [query |-> q, result |-> r])

(* make_unknown, with a diagnostic and no provenance.                      *)
FinishUnknown(q, type, reason, status, diags) ==
  /\ graph' = Append(graph, Leaf("unknown", type, <<reason>>))
  /\ Finish(q, Result(NextNode, type, None, status, diags))
  /\ UNCHANGED provenance

(* A failure without a root.                                               *)
FinishEmpty(q, type, diags) ==
  /\ Finish(q, Result(None, type, None, "invalid_input", diags))
  /\ UNCHANGED <<graph, provenance>>

(* A new node with its provenance record.                                  *)
FinishNode(q, node, kind, inputs, status, diags) ==
  /\ graph' = Append(graph, node)
  /\ provenance' = Append(provenance, Record(kind, NextNode, inputs))
  /\ Finish(q, Result(NextNode, node.type, NextRecord, status, diags))

FinishBoundary(q, diags) ==
  FinishNode(q, Leaf("external", q.type, <<"entry", q.loc.reg, q.loc.off>>),
             "external_input", <<>>, "partial", diags)

-----------------------------------------------------------------------------
Init ==
  /\ call \in Calls
  /\ mode = "idle" /\ stack = <<>> /\ graph = <<>> /\ provenance = <<>>
  /\ cache = <<>> /\ answers = <<>>
  /\ entering = [query |-> <<>>, depth |-> 0]
  /\ returned = Result(None, UnknownType, None, "complete", {})

(* recover                                                                 *)
Recover ==
  /\ mode = "idle" /\ call.queries # <<>>
  /\ Enter(Head(call.queries), 0)
  /\ UNCHANGED <<call, returned, stack, graph, provenance, cache, answers>>

Answer ==
  /\ mode = "return" /\ stack = <<>>
  /\ answers' = Append(answers, [query |-> Head(call.queries), result |-> returned])
  /\ call' = [call EXCEPT !.queries = Tail(@)]
  /\ mode' = "idle"
  /\ UNCHANGED <<entering, returned, stack, graph, provenance, cache>>

(* recover_with_cache: the cache, then the active queries.                 *)
CacheHit ==
  /\ mode = "enter"
  /\ \E k \in Hits(entering.query) :
       (\A j \in Hits(entering.query) : k <= j) /\ Return(cache[k].result)
  /\ UNCHANGED <<call, entering, stack, graph, provenance, cache, answers>>

Cyclic ==
  /\ mode = "enter"
  /\ Hits(entering.query) = {} /\ Active(entering.query)
  /\ graph' = Append(graph, Leaf("unknown", entering.query.type, <<"cyclic recovery query">>))
  /\ provenance' = Append(provenance, Record("unknown_boundary", NextNode, <<>>))
  /\ Return(Result(NextNode, entering.query.type, NextRecord, "partial", {"loop.cycle"}))
  /\ UNCHANGED <<call, entering, stack, cache, answers>>

(* recover_uncached                                                        *)
Asked == entering.query
Computing == mode = "enter" /\ Fresh(Asked)

DepthExhausted ==
  /\ Computing /\ entering.depth > call.maxDepth
  /\ FinishUnknown(Asked, Asked.type, "recovery recursion budget exhausted",
                   "resource_exhausted", {"depth_exhausted"})
  /\ UNCHANGED <<call, entering, stack, answers>>

Searching == Computing /\ entering.depth <= call.maxDepth

Found == Reaching(call.prog, Asked.loc, Asked.point)

ResultType(q, value) == IF q.type = UnknownType THEN value.type ELSE q.type

(* recover_definition                                                      *)
LaneExists(d) == RequestedLane(Asked.loc) < Len(Effect(call.prog, d).value.lanes)

InvalidLane ==
  /\ Searching
  /\ \E d \in Found : ~LaneExists(d)
  /\ FinishUnknown(Asked, Asked.type, "requested lane is outside semantic value",
                   "invalid_input", {"invalid_lane"})
  /\ UNCHANGED <<call, entering, stack, answers>>

LaneExpression(d, q) == Effect(call.prog, d).value.lanes[RequestedLane(q.loc) + 1]

(* lower_lane_expression, the zero lane                                    *)
LowerZero ==
  /\ Searching
  /\ \E d \in Found :
       /\ LaneExists(d) /\ LaneExpression(d, Asked).op = "zero"
       /\ LET type == ResultType(Asked, Effect(call.prog, d).value)
          IN IF type \in ScalarTypes
             THEN FinishNode(Asked, Leaf("zero", type, <<>>), "instruction_write",
                             <<>>, "complete", {})
             ELSE FinishEmpty(Asked, type, {"constant"})
  /\ UNCHANGED <<call, entering, stack, answers>>

(* lower_lane_expression, any other lane: the call waits for its inputs.   *)
StartLowering ==
  /\ Searching
  /\ \E d \in Found :
       /\ LaneExists(d) /\ LaneExpression(d, Asked).op # "zero"
       /\ stack' = Append(stack,
            [kind |-> "lower", query |-> Asked, depth |-> entering.depth, next |-> 1,
             def |-> d, type |-> ResultType(Asked, Effect(call.prog, d).value),
             status |-> "complete", diags |-> {}, roots |-> <<>>, inputs |-> <<>>])
  /\ mode' = "run"
  /\ UNCHANGED <<call, entering, returned, graph, provenance, cache, answers>>

(* recover_predecessor_merge                                               *)
EntryBoundary ==
  /\ Searching /\ Found = {}
  /\ call.prog.blocks[Asked.point.block].preds = <<>>
  /\ FinishBoundary(Asked, {})
  /\ UNCHANGED <<call, entering, stack, answers>>

StartMerge ==
  /\ Searching /\ Found = {}
  /\ call.prog.blocks[Asked.point.block].preds # <<>>
  /\ stack' = Append(stack,
       [kind |-> "merge", query |-> Asked, depth |-> entering.depth, next |-> 1,
        status |-> "complete", diags |-> {}, incoming |-> <<>>, inputs |-> <<>>])
  /\ mode' = "run"
  /\ UNCHANGED <<call, entering, returned, graph, provenance, cache, answers>>

-----------------------------------------------------------------------------
(* The inputs of a lane expression, in order (recover_input).              *)
Lowering == Len(stack) > 0 /\ Top.kind = "lower"
Write == Effect(call.prog, Top.def)
Expression == LaneExpression(Top.def, Top.query)
Input == Expression.inputs[Top.next]
MoreInputs == Top.next <= Len(Expression.inputs)
Operands == Instr(call.prog, Top.def).operands

AskInput(slice) ==
  /\ Enter(Query(LaneLocation(slice, Input.lane, Write.value.count),
                 Point(Top.def, "before"), Top.type), Top.depth + 3)
  /\ UNCHANGED <<call, returned, stack, graph, provenance, cache, answers>>

OldDestination ==
  /\ mode = "run" /\ Lowering /\ MoreInputs
  /\ Input.role = "old_destination"
  /\ AskInput(Write.dest)

RegisterOperand ==
  /\ mode = "run" /\ Lowering /\ MoreInputs
  /\ Input.role # "old_destination" /\ Input.operand \in DOMAIN Operands
  /\ Operands[Input.operand].kind = "register"
  /\ AskInput(Operands[Input.operand].slice)

(* Fault: the diagnostics of an input are dropped.                         *)
TakeQuietly(r) ==
  /\ Replace([Top EXCEPT !.next = @ + 1,
                         !.roots = Append(@, r.root),
                         !.inputs = IF r.prov = None THEN @ ELSE Append(@, r.prov),
                         !.status = IF r.status = "complete" THEN @ ELSE "partial"])
  /\ mode' = "run"

(* What the loop over expression.inputs does with an input's result.       *)
TakeInput(r) ==
  /\ Replace([Top EXCEPT !.next = @ + 1,
                         !.roots = Append(@, r.root),
                         !.inputs = IF r.prov = None THEN @ ELSE Append(@, r.prov),
                         !.diags = @ \cup r.diags,
                         !.status = IF r.status = "complete" THEN @ ELSE "partial"])
  /\ mode' = "run"

BadOperand ==
  /\ mode = "run" /\ Lowering /\ MoreInputs
  /\ Input.role # "old_destination"
  /\ \/ /\ Input.operand \notin DOMAIN Operands
        /\ graph' = Append(graph, Leaf("unknown", Top.type, <<"semantic source operand is missing">>))
        /\ TakeInput(Result(NextNode, Top.type, None, "invalid_input", {"missing_operand"}))
     \/ /\ Input.operand \in DOMAIN Operands
        /\ Operands[Input.operand].kind = "other"
        /\ graph' = Append(graph, Leaf("unknown", Top.type, <<"unsupported source operand">>))
        /\ TakeInput(Result(NextNode, Top.type, None, "unsupported", {"unsupported_operand"}))
  /\ UNCHANGED <<call, entering, returned, provenance, cache, answers>>

Barrier(address, point) ==
  \E t \in Transitions(call.prog) :
    /\ MayReach(call.prog, t, point)
    /\ \/ Alias(Effect(call.prog, t).address, address) = "must_alias"
       \/ call.mayBarrier /\ Alias(Effect(call.prog, t).address, address) = "may_alias"

MemoryOperand ==
  /\ mode = "run" /\ Lowering /\ MoreInputs
  /\ Input.role # "old_destination" /\ Input.operand \in DOMAIN Operands
  /\ Operands[Input.operand].kind = "memory"
  /\ provenance' = Append(provenance, Record("memory_boundary", NextNode, <<>>))
  /\ LET address == Operands[Input.operand].address
     IN IF Barrier(address, Point(Top.def, "before"))
        THEN /\ graph' = Append(graph, Leaf("unknown", Top.type,
                                  <<"memory read may depend on an earlier store">>))
             /\ TakeInput(Result(NextNode, Top.type, NextRecord, "partial", {"store_barrier"}))
        ELSE /\ graph' = Append(graph, Leaf("external", Top.type, <<"memory", address, Input.lane>>))
             /\ TakeInput(Result(NextNode, Top.type, NextRecord, "partial", {}))
  /\ UNCHANGED <<call, entering, returned, cache, answers>>

(* Fault: the root of an input is not looked at.                           *)
AnyInputReturned ==
  /\ mode = "return" /\ Lowering
  /\ TakeInput(returned)
  /\ UNCHANGED <<call, entering, returned, graph, provenance, cache, answers>>

InputReturned ==
  /\ mode = "return" /\ Lowering
  /\ IF returned.root = None
     THEN /\ FinishUnknown(Top.query, Top.type, "lane input recovery failed",
                           "partial", returned.diags)
          /\ stack' = Below
     ELSE TakeInput(returned) /\ UNCHANGED <<returned, graph, provenance, cache>>
  /\ UNCHANGED <<call, entering, answers>>

LowerCopy ==
  /\ mode = "run" /\ Lowering /\ ~MoreInputs
  /\ Expression.op = "copy"
  /\ stack' = Below
  /\ IF Top.roots = <<>>
     THEN FinishEmpty(Top.query, Top.type, {"invalid_copy"})
     ELSE /\ provenance' = Append(provenance, Record("instruction_write", Top.roots[1], Top.inputs))
          /\ Finish(Top.query, Result(Top.roots[1], Top.type, NextRecord,
                                      Top.status, Top.diags))
          /\ UNCHANGED graph
  /\ UNCHANGED <<call, entering, answers>>

LowerOperation ==
  /\ mode = "run" /\ Lowering /\ ~MoreInputs
  /\ Expression.op # "copy"
  /\ stack' = Below
  /\ IF Expression.op \notin Lowerable
     THEN FinishUnknown(Top.query, Top.type, "unsupported lane operation",
                        "unsupported", {"unsupported_lane_operation"})
     ELSE IF ~Signature(Expression.op, [k \in DOMAIN Top.roots |-> graph[Top.roots[k]].type], Top.type)
     THEN FinishEmpty(Top.query, Top.type, {"apply"})
     ELSE FinishNode(Top.query, Apply(Expression.op, Top.type, Top.roots),
                     "instruction_write", Top.inputs, Top.status, Top.diags)
  /\ UNCHANGED <<call, entering, answers>>

-----------------------------------------------------------------------------
(* The predecessors of a merge, in order.                                  *)
Merging == Len(stack) > 0 /\ Top.kind = "merge"
Predecessors == call.prog.blocks[Top.query.point.block].preds
MorePredecessors == Top.next <= Len(Predecessors)
Exit == ExitPoint(call.prog, Predecessors[Top.next])

(* Fault: the loop does not move on from an empty predecessor.             *)
StuckOnEmpty ==
  /\ mode = "run" /\ Merging /\ MorePredecessors /\ Exit = {}
  /\ Replace([Top EXCEPT !.diags = @ \cup {"empty_predecessor"},
                         !.status = CombinedStatus(@, "partial")])
  /\ UNCHANGED <<call, mode, entering, returned, graph, provenance, cache, answers>>

EmptyPredecessor ==
  /\ mode = "run" /\ Merging /\ MorePredecessors /\ Exit = {}
  /\ Replace([Top EXCEPT !.next = @ + 1, !.diags = @ \cup {"empty_predecessor"},
                         !.status = CombinedStatus(@, "partial")])
  /\ UNCHANGED <<call, mode, entering, returned, graph, provenance, cache, answers>>

(* Fault: the depth is handed on as it is.                                 *)
AskAtSameDepth ==
  /\ mode = "run" /\ Merging /\ MorePredecessors
  /\ \E exit \in Exit : Enter(Query(Top.query.loc, exit, Top.query.type), Top.depth)
  /\ UNCHANGED <<call, returned, stack, graph, provenance, cache, answers>>

AskPredecessor ==
  /\ mode = "run" /\ Merging /\ MorePredecessors
  /\ \E exit \in Exit : Enter(Query(Top.query.loc, exit, Top.query.type), Top.depth + 2)
  /\ UNCHANGED <<call, returned, stack, graph, provenance, cache, answers>>

PredecessorReturned ==
  /\ mode = "return" /\ Merging
  /\ Replace([Top EXCEPT !.next = @ + 1, !.diags = @ \cup returned.diags,
                         !.status = CombinedStatus(@, returned.status),
                         !.incoming = Append(@, returned),
                         !.inputs = IF returned.prov = None THEN @ ELSE Append(@, returned.prov)])
  /\ mode' = "run"
  /\ UNCHANGED <<call, entering, returned, graph, provenance, cache, answers>>

(* After the loop over the predecessors.                                   *)
Merged == mode = "run" /\ Merging /\ ~MorePredecessors
Roots == [k \in DOMAIN Top.incoming |-> Top.incoming[k].root]
MergeType == IF Top.query.type = UnknownType THEN graph[Roots[1]].type ELSE Top.query.type

AllEqual == \A k \in DOMAIN Roots : Equal(graph, Roots[1], Roots[k])

MergeNothing ==
  /\ Merged /\ Top.incoming = <<>>
  /\ FinishBoundary(Top.query, Top.diags)
  /\ stack' = Below
  /\ UNCHANGED <<call, entering, answers>>

(* One answer, or answers that are all structurally equal: the first one.  *)
MergeSame ==
  /\ Merged /\ Len(Top.incoming) > 0
  /\ \/ Len(Top.incoming) = 1
     \/ /\ \A k \in DOMAIN Roots : Roots[k] # None
        /\ \A k \in DOMAIN Roots : graph[Roots[k]].type = MergeType
        /\ AllEqual
  /\ Finish(Top.query,
       [Top.incoming[1] EXCEPT !.status = CombinedStatus(@, Top.status), !.diags = Top.diags])
  /\ stack' = Below
  /\ UNCHANGED <<call, entering, graph, provenance, answers>>

MergeWithoutRoot ==
  /\ Merged /\ Len(Top.incoming) > 1
  /\ \E k \in DOMAIN Roots : Roots[k] = None
  /\ FinishUnknown(Top.query, Top.query.type, "control-flow predecessor recovery failed",
                   "partial", Top.diags)
  /\ stack' = Below
  /\ UNCHANGED <<call, entering, answers>>

MergeTypeMismatch ==
  /\ Merged /\ Len(Top.incoming) > 1
  /\ \A k \in DOMAIN Roots : Roots[k] # None
  /\ \E k \in DOMAIN Roots : graph[Roots[k]].type # MergeType
  /\ FinishUnknown(Top.query, MergeType, "control-flow predecessor values have incompatible types",
                   "partial", Top.diags \cup {"merge_type_mismatch"})
  /\ stack' = Below
  /\ UNCHANGED <<call, entering, answers>>

MergeDifferent ==
  /\ Merged /\ Len(Top.incoming) > 1
  /\ \A k \in DOMAIN Roots : Roots[k] # None
  /\ \A k \in DOMAIN Roots : graph[Roots[k]].type = MergeType
  /\ ~AllEqual
  /\ FinishNode(Top.query, Apply("merge", MergeType, Roots),
                "control_flow_merge", Top.inputs, Top.status, Top.diags)
  /\ stack' = Below
  /\ UNCHANGED <<call, entering, answers>>

-----------------------------------------------------------------------------
Compute ==
  \/ DepthExhausted \/ InvalidLane \/ LowerZero \/ StartLowering
  \/ EntryBoundary \/ StartMerge

Lower ==
  \/ OldDestination \/ RegisterOperand \/ BadOperand \/ MemoryOperand
  \/ InputReturned \/ LowerCopy \/ LowerOperation

Merge ==
  \/ EmptyPredecessor \/ AskPredecessor \/ PredecessorReturned
  \/ MergeNothing \/ MergeSame \/ MergeWithoutRoot \/ MergeTypeMismatch
  \/ MergeDifferent

Next == Recover \/ Answer \/ CacheHit \/ Cyclic \/ Compute \/ Lower \/ Merge

Spec == Init /\ [][Next]_vars
(* One thread that runs until every query is answered.                     *)
FairSpec == Spec /\ WF_vars(Next)

-----------------------------------------------------------------------------
(* Roots and provenance of results, cached, returned or held by a frame,   *)
(* lie in the graph and in the store; only a lowering's inputs surely have *)
(* a root.                                                                 *)
Results(g, records) ==
  [root : 0..Len(g), type : Types, prov : 0..Len(records), status : Statuses,
   diags : SUBSET Diagnostics]
LowerFrame(prog, g, records) ==
  {f \in [kind : {"lower"}, query : Queries(prog), depth : Nat, next : Nat \ {0},
          def : Definitions(prog), type : Types, status : Statuses, diags : SUBSET Diagnostics,
          roots : Seq(1..Len(g)), inputs : Seq(1..Len(records))] :
     RequestedLane(f.query.loc) < Len(Effect(prog, f.def).value.lanes)}
MergeFrame(prog, g, records) ==
  [kind : {"merge"}, query : Queries(prog), depth : Nat, next : Nat \ {0},
   status : Statuses, diags : SUBSET Diagnostics, incoming : Seq(Results(g, records)),
   inputs : Seq(1..Len(records))]
Frame(prog, g, records) == LowerFrame(prog, g, records) \cup MergeFrame(prog, g, records)
CacheEntry(prog, g, records) == [query : Queries(prog), result : Results(g, records)]

TypeOK ==
  /\ call \in CallType
  /\ mode \in {"idle", "enter", "run", "return"}
  /\ mode = "enter" => entering \in [query : Queries(call.prog), depth : Nat]
  /\ returned \in Results(graph, provenance)
  /\ stack \in Seq(Frame(call.prog, graph, provenance))
  /\ graph \in Seq(Node) /\ provenance \in Seq(RecordType)
  /\ cache \in Seq(CacheEntry(call.prog, graph, provenance))
  /\ answers \in Seq(CacheEntry(call.prog, graph, provenance))

(* A query is answered at most once: it is never on the stack twice, never *)
(* recomputed while it is cached, and no nested call stores an answer for  *)
(* a query that is still being answered.                                   *)
NoQueryTwice ==
  /\ \A j, k \in DOMAIN stack : stack[j].query = stack[k].query => j = k
  /\ \A j, k \in DOMAIN cache : cache[j].query = cache[k].query => j = k
  /\ \A j \in DOMAIN stack : Hits(stack[j].query) = {}

(* "recovery memoizes repeated queries": every answer given is the one the *)
(* cache holds, so asking again, at any later time, gives the same root.   *)
Memoized ==
  \A k \in DOMAIN answers : \E c \in DOMAIN cache :
    cache[c] = [query |-> answers[k].query, result |-> answers[k].result]

(* The C++ stack is bounded by the configuration, however deep definitions *)
(* and predecessors nest: every nested call is at least two deeper.        *)
RecursionBounded == 2 * Len(stack) <= call.maxDepth + 2

(* A result's provenance is the record of its root, even when the root was *)
(* taken over from an input or from one of several equal predecessors.     *)
RecordOf(records, r) ==
  r.prov # None => r.prov \in DOMAIN records /\ records[r.prov].node = r.root
ProvenanceMatches ==
  /\ \A c \in DOMAIN cache : RecordOf(provenance, cache[c].result)
  /\ mode = "return" => RecordOf(provenance, returned)

(* What lies below a node, below a record.                                 *)
FreeOf(g, ops) ==
  LET free[n \in DOMAIN g] ==
        g[n].op \notin ops /\ \A k \in DOMAIN g[n].args : free[g[n].args[k]]
  IN free
Resolved(records) ==
  LET resolved[p \in DOMAIN records] ==
        /\ records[p].kind \notin Boundaries
        /\ \A k \in DOMAIN records[p].inputs : resolved[records[p].inputs[k]]
  IN resolved

(* Complete means resolved: neither the expression nor its provenance      *)
(* rests anywhere on a boundary, a barrier, a cut cycle or a cut depth.    *)
CompleteIsResolved ==
  \A c \in DOMAIN cache : cache[c].result.status = "complete" =>
    /\ cache[c].result.root # None /\ cache[c].result.prov # None
    /\ FreeOf(graph, {"unknown", "external"})[cache[c].result.root]
    /\ Resolved(provenance)[cache[c].result.prov]

(* An answer that hides something says so: where an unknown is part of the *)
(* expression, or there is none, the diagnostics name a reason.            *)
UnknownsExplained ==
  \A c \in DOMAIN cache : cache[c].result.diags = {} =>
    /\ cache[c].result.root # None
    /\ FreeOf(graph, {"unknown"})[cache[c].result.root]

(* Status and diagnostics tell what an answer rests on.                    *)
StatusHonest == CompleteIsResolved /\ UnknownsExplained

(* Every query is answered, also around loops.                             *)
Termination == <>(mode = "idle" /\ call.queries = <<>>)
=============================================================================
