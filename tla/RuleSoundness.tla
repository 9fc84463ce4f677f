---------------------------- MODULE RuleSoundness ----------------------------
(***************************************************************************)
(* Every built-in rule tried on every expression of a graph that grows by  *)
(* one application at a time.                                              *)
(***************************************************************************)
EXTENDS Rules

CONSTANTS
  StartGraphs,       \* graphs of leaves, all of one type
  MaxNodes,          \* bound: nodes of a graph
  MaxOperands(_),    \* bound: operands of the application at a position
  Defined(_),        \* the values an equation is asked for
  Families           \* bound: sets of operations the instance combines

VARIABLE graph

TypeOf(g) == g[1].type

KeysUsed == {KeyOf(graph[n]) : n \in {m \in DOMAIN graph : IsApplication(graph, m)}}

(* The new application uses the one before it, so that rules see nesting.  *)
Next ==
  /\ Len(graph) < MaxNodes
  /\ \E key \in UNION {f \in Families : KeysUsed \subseteq f} :
     \E n \in 1..MaxOperands(Len(graph) + 1) : \E args \in [1..n -> DOMAIN graph] :
       LET x == Application(key, TypeOf(graph), args)
       IN /\ IsApplication(graph, Len(graph)) => \E k \in 1..n : args[k] = Len(graph)
          /\ Buildable(graph, x)
          /\ graph' = Build(graph, x)

Init == graph \in StartGraphs

Spec == Init /\ [][Next]_graph

-----------------------------------------------------------------------------
RuleNames == {"copy_elimination", "identity_elimination", "annihilator_collapse",
  "bitwise_simplification", "same_operand_simplification", "constant_folding",
  "mixed_constant_aggregation", "subtraction_normalization", "associative_flattening",
  "commutative_ordering", "idempotent_deduplication", "coefficient_collection",
  "division_reciprocal_simplification", "square_simplification"}

Newest == ExprOf(graph[Len(graph)])
HasSubject == Newest.op[1] = "operation"
Outcome(rule) == ApplyRule(rule, Newest, graph)
Matched(o) == o.kind \in {"replace", "rebuild"}
After(o) == IF o.kind = "replace" THEN ExprOf(o.graph[o.node]) ELSE o.to

(* What the engine relies on: the rule appended well-formed nodes, and     *)
(* what it returns has the type of the subject and denotes the same.       *)
Value == graph[Len(graph)].val
Keeps(o) ==
  /\ ExtendsGraph(o.graph, graph)
  /\ \A n \in (DOMAIN o.graph) \ (DOMAIN graph) :
       ValidNode(o.graph, n) /\ o.graph[n].val = Denotes(o.graph, o.graph[n])
  /\ Matched(o) =>
       /\ Buildable(o.graph, After(o)) /\ After(o).type = Newest.type
       /\ Defined(Value) => Denotes(o.graph, After(o)) = Value
  /\ o.kind = "rebuild" => o.to # Newest

(* A rule gives up with an error only where no constant of the type can be *)
(* made; elsewhere it would end the whole canonicalization.                *)
FailureExplained(o) == o.kind = "invalid" => Newest.type.category = "other"

RulesSound ==
  HasSubject => \A rule \in RuleNames :
    LET o == Outcome(rule) IN Keeps(o) /\ FailureExplained(o)

(* "bitwise and copy evaluators preserve exact stored bits": so must what  *)
(* the rules do to bitwise operations, whatever the type of the operands.  *)
BitwiseExact ==
  HasSubject /\ KeyOf(Newest) \in BitOperations =>
    \A rule \in RuleNames : Keeps(Outcome(rule))

(* The records of an expression: its own, then those of its operands.      *)
OperandRecords(g, e) ==
  FlattenSeq([k \in DOMAIN e.args |-> Descriptions(g)[e.args[k]]])
TreeSize(g, e) == 1 + Len(OperandRecords(g, e))

IsOperationRecord(r) == r[1] = PositionIn(KindOrder, "operation")
OfKey(r, key) == IsOperationRecord(r) /\ r[4] = PositionIn(OperationKeys, key)
ThisIs(e, key) == IF e.op[1] = "operation" /\ e.op[2] = key THEN 1 ELSE 0

OperationCount(g, e) ==
  LET records == OperandRecords(g, e)
  IN (IF e.op[1] = "operation" THEN 1 ELSE 0)
       + Cardinality({k \in DOMAIN records : IsOperationRecord(records[k])})
KeyCount(g, e, key) ==
  LET records == OperandRecords(g, e)
  IN ThisIs(e, key) + Cardinality({k \in DOMAIN records : OfKey(records[k], key)})
ConstantOperands(g, e) == Cardinality({k \in DOMAIN e.args : IsConstant(g, e.args[k])})
Inversions(g, e) ==
  Cardinality({p \in PairsOf(e.args) :
    DescriptionLess(Descriptions(g)[e.args[p[2]]], Descriptions(g)[e.args[p[1]]])})
RepeatedBases(g, e) ==
  IF ThisIs(e, "add") = 0 THEN 0
  ELSE Cardinality({p \in PairsOf(e.args) :
         \E s \in CoefficientTerm(g, e.args[p[1]], e.type), t \in CoefficientTerm(g, e.args[p[2]], e.type) :
           StructurallyEqual(g, s.basis, t.basis)})
RepeatedFactors(g, e) ==
  IF ThisIs(e, "multiply") = 0 THEN 0
  ELSE Cardinality({p \in PairsOf(e.args) : StructurallyEqual(g, e.args[p[1]], e.args[p[2]])})

(* decreasing_measure of each rule's metadata.                             *)
Measure(rule, g, e) ==
  CASE rule \in {"copy_elimination", "annihilator_collapse", "same_operand_simplification",
                 "constant_folding"} -> OperationCount(g, e)
    [] rule \in {"identity_elimination", "bitwise_simplification",
                 "idempotent_deduplication"} -> TreeSize(g, e)
    [] rule = "mixed_constant_aggregation" -> ConstantOperands(g, e)
    [] rule = "subtraction_normalization"  -> KeyCount(g, e, "subtract")
    [] rule = "associative_flattening"     -> KeyCount(g, e, Newest.op[2])
    [] rule = "commutative_ordering"       -> Inversions(g, e)
    [] rule = "coefficient_collection"     -> RepeatedBases(g, e)
    [] rule = "division_reciprocal_simplification" ->
         IF KeyOf(Newest) = "divide" THEN KeyCount(g, e, "divide") ELSE KeyCount(g, e, "reciprocal")
    [] rule = "square_simplification"      -> RepeatedFactors(g, e)

(* Operand counts are taken over the whole expression.                     *)
Decreases(rule, o) ==
  \/ After(o).op[1] # "operation"
  \/ Measure(rule, o.graph, After(o)) < Measure(rule, graph, Newest)

(* may_grow: the other rules never return a larger expression.             *)
(* Fault: collecting coefficients is not declared.                         *)
GrowsLess == {"subtraction_normalization", "associative_flattening",
              "division_reciprocal_simplification"}
MayGrow == {"subtraction_normalization", "associative_flattening",
            "coefficient_collection", "division_reciprocal_simplification"}
GrowsAsDeclared(rule, o) ==
  rule \in MayGrow \/ TreeSize(o.graph, After(o)) <= TreeSize(graph, Newest)

(* Rules declare what they decrease and whether they may grow; that the    *)
(* loop over them ends rests on it.                                        *)
MeasuresHold ==
  HasSubject => \A rule \in RuleNames :
    LET o == Outcome(rule)
    IN Matched(o) => Decreases(rule, o) /\ GrowsAsDeclared(rule, o)
=============================================================================
