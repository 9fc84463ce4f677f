-------------------------------- MODULE Rules --------------------------------
(***************************************************************************)
(* The built-in rewrite rules (lib/canonicalizer/rules), over the graph of *)
(* ExprGraph.  A rule gets the subject e, which need not be a node, and    *)
(* the output graph g; it answers with an outcome of Worklist, whose graph *)
(* has the nodes it built on the way, also where it then declines.         *)
(***************************************************************************)
EXTENDS Structural, Builtins

CONSTANTS
  Catalogue,         \* operation_catalogue: a sequence, by operation_id
  EnabledTraits,     \* configuration::m_enabled_traits
  MaxFlattened       \* maximum_flattened_operands

Answer(kind, g, node, to) == [kind |-> kind, graph |-> g, node |-> node, to |-> to]
Declines(g, e) == Answer("no_match", g, None, e)
Fails(g, e) == Answer("invalid", g, None, e)
ReplacesWith(g, e, n) == Answer("replace", g, n, e)
RebuildsAs(g, e, to) == Answer("rebuild", g, None, to)

KeyOf(e) == e.op[2]
Plain(e) == e.op[3] = {}                       \* attributes.empty()
Knows(key) == \E i \in DOMAIN Catalogue : Catalogue[i].key = key
Entry(key) == Catalogue[CHOOSE i \in DOMAIN Catalogue : Catalogue[i].key = key]
Claims(e, trait) == trait \in Entry(KeyOf(e)).traits
Application(key, type, args) == [op |-> <<"operation", key, {}>>, type |-> type, args |-> args]

IsConstant(g, n) == g[n].op[1] = "constant"
IsApplication(g, n) == g[n].op[1] = "operation"
ConstantAt(g, n) == Constant(g[n].type, g[n].op[2], g[n].op[3])
ConstantExpr(c) == [op |-> <<"constant", c.splat, c.elements>>, type |-> c.type, args |-> <<>>]

(* rewrite_context::make_constant and ::rebuild, one after the other: each *)
(* builds a node or ends the rule.  First and Second are these nodes.      *)
First(g) == Len(g) + 1
Second(g) == Len(g) + 2
Appended(g, x) == IF Buildable(g, x) THEN Build(g, x) ELSE g
Concluded(h, e, size, answer) ==
  IF Len(h) = size THEN [answer EXCEPT !.graph = h] ELSE Fails(h, e)
Building(g, e, x, answer) == Concluded(Appended(g, x), e, First(g), answer)
(* y has the node of x for an operand, so it fails where x does.           *)
BuildingBoth(g, e, x, y, answer) ==
  Concluded(Appended(Appended(g, x), y), e, Second(g), answer)

(* The arguments at a set of positions, in their order.                    *)
ArgsAt(args, S) ==
  [k \in 1..Cardinality(S) |->
     args[CHOOSE i \in S : Cardinality({j \in S : j <= i}) = k]]

(* How the rules end that drop operands: one that is left stands alone.    *)
Shrunk(g, e, args) ==
  IF Len(args) = 1 THEN ReplacesWith(g, e, args[1])
  ELSE RebuildsAs(g, e, [e EXCEPT !.args = args])

FirstPair(pairs) ==
  CHOOSE p \in pairs : \A q \in pairs : p[1] < q[1] \/ (p[1] = q[1] /\ p[2] <= q[2])
PairsOf(args) == {p \in (DOMAIN args) \X (DOMAIN args) : p[1] < p[2]}

-----------------------------------------------------------------------------
(* lib/canonicalizer/detail/match.cpp.  value() == 0 holds of both zeros.  *)
MatchesWellKnown(word, category, name) ==
  CASE name = "zero" -> word = 0 \/ (category = "f32" /\ word = SignBit)
    [] name = "one"  -> word = (IF category = "f32" THEN One ELSE 1)
    [] name = "all_bits_set" -> word = AllBits

MatchesElement(word, category, expected) ==
  IF expected[1] = "well_known" THEN MatchesWellKnown(word, category, expected[2])
  ELSE category = expected[2] /\ word = expected[3]

ConstantMatches(g, e, n, expected) ==
  /\ IsConstant(g, n) /\ g[n].type = e.type
  /\ LET elements == g[n].op[3]
     IN \A k \in DOMAIN elements : MatchesElement(elements[k], e.type.category, expected)

OperandMatches(g, e, k, slot) ==
  LET constants == Entry(KeyOf(e)).constants
  IN slot \in DOMAIN constants /\ ConstantMatches(g, e, e.args[k], constants[slot])

(* integer_constant has a result for 32-bit floats and integers only.      *)
(* Fault: for floats only.                                                 *)
HasFloats(type) == type.category = "f32"
HasIntegers(type) == type.category # "other"
IntegerWord(category, n) ==
  IF category = "f32" THEN (IF n < 0 THEN SignBit + One ELSE n * One) ELSE Wrapped(n)
IntegerConstant(type, n) ==
  Constant(type, type.lanes > 0, [k \in 1..ElementCount(type) |-> IntegerWord(type.category, n)])

IntegerExpr(e, n) == ConstantExpr(IntegerConstant(e.type, n))

MakesZero(g, e) ==
  IF HasIntegers(e.type)
  THEN Building(g, e, IntegerExpr(e, 0), ReplacesWith(g, e, First(g))) ELSE Fails(g, e)

(* rewrite_context::evaluate_constants.                                    *)
EvaluateConstants(e, constants) ==
  IF Entry(KeyOf(e)).evaluator = {} THEN NoEvaluation
  ELSE Evaluate(CHOOSE k \in Entry(KeyOf(e)).evaluator : TRUE, constants, e.op[3], e.type)

(* The two endings of an evaluation without a constant.                    *)
Unevaluated(g, e, evaluation) ==
  IF evaluation[1] = "no_evaluation" THEN Declines(g, e) ELSE Fails(g, e)

-----------------------------------------------------------------------------
(* rules/algebraic.cpp                                                     *)
CopyElimination(g, e) ==
  IF KeyOf(e) = "copy" /\ Plain(e) /\ Len(e.args) = 1 THEN ReplacesWith(g, e, e.args[1])
  ELSE Declines(g, e)

(* Fault: a one-sided constant counts on either side.                      *)
OnAnySide(g, e, k, either, left, right) ==
  OperandMatches(g, e, k, either) \/ OperandMatches(g, e, k, left) \/ OperandMatches(g, e, k, right)
OnItsSide(g, e, k, either, left, right) ==
  \/ OperandMatches(g, e, k, either)
  \/ k = 1 /\ OperandMatches(g, e, k, left)
  \/ k = Len(e.args) /\ OperandMatches(g, e, k, right)

IdentityElimination(g, e) ==
  LET identities == {k \in DOMAIN e.args :
                       OnItsSide(g, e, k, "identity", "left_identity", "right_identity")}
      remaining == ArgsAt(e.args, (DOMAIN e.args) \ identities)
  IN IF identities = {} THEN Declines(g, e)
     ELSE IF remaining = <<>> THEN ReplacesWith(g, e, ArgsAt(e.args, identities)[1])
     ELSE Shrunk(g, e, remaining)

AnnihilatorCollapse(g, e) ==
  LET annihilators == {k \in DOMAIN e.args :
                         OnItsSide(g, e, k, "annihilator", "left_annihilator", "right_annihilator")}
  IN IF annihilators = {} THEN Declines(g, e)
     ELSE ReplacesWith(g, e, ArgsAt(e.args, annihilators)[1])

SameOperandSimplification(g, e) ==
  IF /\ Len(e.args) = 2 /\ KeyOf(e) \in {"subtract", "bit_xor", "bit_and_not"}
     /\ StructurallyEqual(g, e.args[1], e.args[2])
  THEN MakesZero(g, e) ELSE Declines(g, e)

SubtractionNormalization(g, e) ==
  IF /\ KeyOf(e) = "subtract" /\ Plain(e) /\ Len(e.args) = 2
     /\ Knows("add") /\ Knows("multiply")
  THEN IF ~HasIntegers(e.type) THEN Fails(g, e)
       ELSE BuildingBoth(g, e, IntegerExpr(e, -1),
              Application("multiply", e.type, <<First(g), e.args[2]>>),
              RebuildsAs(g, e, Application("add", e.type, <<e.args[1], Second(g)>>)))
  ELSE Declines(g, e)

(* extract_coefficient_term, an optional.                                  *)
CoefficientTerm(g, n, type) ==
  IF IsConstant(g, n) THEN {}
  ELSE IF /\ IsApplication(g, n) /\ KeyOf(g[n]) = "multiply" /\ Plain(g[n])
          /\ g[n].type = type /\ Len(g[n].args) = 2
  THEN LET constant == {k \in 1..2 : IsConstant(g, g[n].args[k])}
       IN {[coefficient |-> ConstantAt(g, g[n].args[k]), basis |-> g[n].args[3 - k]] :
             k \in IF Cardinality(constant) = 1 THEN constant ELSE {}}
  ELSE IF HasIntegers(type) THEN {[coefficient |-> IntegerConstant(type, 1), basis |-> n]}
  ELSE {}

Collected(g, e, evaluation, basis, others) ==
  IF evaluation[1] # "constant" THEN Unevaluated(g, e, evaluation)
  ELSE BuildingBoth(g, e, ConstantExpr(evaluation[2]),
         Application("multiply", e.type, <<First(g), basis>>),
         Shrunk(g, e, Append(others, Second(g))))
CollectedPair(g, e, terms, alike) ==
  LET pair == FirstPair(alike)
      lhs == CHOOSE s \in terms[pair[1]] : TRUE
      rhs == CHOOSE t \in terms[pair[2]] : TRUE
  IN Collected(g, e, EvaluateConstants(e, <<lhs.coefficient, rhs.coefficient>>), lhs.basis,
               ArgsAt(e.args, (DOMAIN e.args) \ {pair[1], pair[2]}))
AlikeTerms(g, e, terms, description) ==
  {p \in PairsOf(e.args) : \E s \in terms[p[1]], t \in terms[p[2]] :
     description[s.basis] = description[t.basis]}
TermsOf(g, e) == [k \in DOMAIN e.args |-> CoefficientTerm(g, e.args[k], e.type)]

CoefficientCollection(g, e) ==
  LET terms == TermsOf(g, e)
      alike == AlikeTerms(g, e, terms, Descriptions(g))
  IN IF /\ KeyOf(e) = "add" /\ Plain(e) /\ Len(e.args) >= 2
        /\ Knows("multiply") /\ alike # {}
     THEN CollectedPair(g, e, terms, alike)
     ELSE Declines(g, e)

-----------------------------------------------------------------------------
(* rules/bitwise.cpp                                                       *)
BitwiseSimplification(g, e) ==
  LET description == Descriptions(g)
      alike == {p \in PairsOf(e.args) : description[e.args[p[1]]] = description[e.args[p[2]]]}
      pair == FirstPair(alike)
      remaining == ArgsAt(e.args, (DOMAIN e.args) \ {pair[1], pair[2]})
  IN IF /\ Plain(e) /\ KeyOf(e) = "bit_and_not" /\ Len(e.args) = 2
        /\ ConstantMatches(g, e, e.args[1], AllBitsSet)
     THEN MakesZero(g, e)
     ELSE IF ~Plain(e) \/ KeyOf(e) # "bit_xor" \/ Len(e.args) < 2 \/ alike = {}
     THEN Declines(g, e)
     ELSE IF remaining = <<>> THEN MakesZero(g, e)
     ELSE Shrunk(g, e, remaining)

-----------------------------------------------------------------------------
(* rules/structural.cpp                                                    *)
(* Fault: pairs are left alone.                                            *)
LongRearrangeable(e, trait) ==
  trait \in EnabledTraits /\ Claims(e, trait) /\ Len(e.args) > 2
Rearrangeable(e, trait) ==
  trait \in EnabledTraits /\ Claims(e, trait) /\ Len(e.args) >= 2

(* Fault: a nested operation of another key is opened as well.             *)
OpensAnyKey(g, e, n) ==
  IsApplication(g, n) /\ g[n].type = e.type /\ Len(g[n].args) >= 2
Opens(g, e, n) ==
  IsApplication(g, n) /\ g[n].op = e.op /\ g[n].type = e.type /\ Len(g[n].args) >= 2

AssociativeFlattening(g, e) ==
  LET flattened ==
        FoldLeft(LAMBDA flat, n :
                   IF Opens(g, e, n) /\ Len(flat) + Len(g[n].args) <= MaxFlattened
                   THEN flat \o g[n].args ELSE Append(flat, n),
                 <<>>, e.args)
  IN IF Rearrangeable(e, "associative") /\ flattened # e.args
     THEN RebuildsAs(g, e, [e EXCEPT !.args = flattened]) ELSE Declines(g, e)

CommutativeOrdering(g, e) ==
  LET description == Descriptions(g)
      less == {p \in (DOMAIN e.args) \X (DOMAIN e.args) :
                 DescriptionLess(description[e.args[p[1]]], description[e.args[p[2]]])}
      ordered == StableSorted(e.args, less)
  IN IF Rearrangeable(e, "commutative") /\ ordered # e.args
     THEN RebuildsAs(g, e, [e EXCEPT !.args = ordered]) ELSE Declines(g, e)

IdempotentDeduplication(g, e) ==
  LET description == Descriptions(g)
      first == {k \in DOMAIN e.args :
                  \A j \in 1..(k - 1) : description[e.args[j]] # description[e.args[k]]}
  IN IF Rearrangeable(e, "idempotent") /\ first # DOMAIN e.args
     THEN Shrunk(g, e, ArgsAt(e.args, first)) ELSE Declines(g, e)

-----------------------------------------------------------------------------
(* rules/numeric.cpp                                                       *)
DivisionReciprocalSimplification(g, e) ==
  LET isInverse(n) == IsApplication(g, n) /\ KeyOf(g[n]) = "reciprocal" /\ Plain(g[n])
                        /\ Len(g[n].args) = 1
  IN IF ~Plain(e) THEN Declines(g, e)
     ELSE IF KeyOf(e) = "reciprocal" /\ Len(e.args) = 1
     THEN IF isInverse(e.args[1]) THEN ReplacesWith(g, e, g[e.args[1]].args[1]) ELSE Declines(g, e)
     ELSE IF /\ KeyOf(e) = "divide" /\ Len(e.args) = 2 /\ Knows("multiply") /\ Knows("reciprocal")
             /\ IsConstant(g, e.args[2]) /\ ~ConstantMatches(g, e, e.args[2], ZeroConstant)
     THEN Building(g, e, Application("reciprocal", e.type, <<e.args[2]>>),
            RebuildsAs(g, e, Application("multiply", e.type, <<e.args[1], First(g)>>)))
     ELSE Declines(g, e)

SquareSimplification(g, e) ==
  IF /\ Plain(e) /\ KeyOf(e) = "multiply" /\ Len(e.args) = 2 /\ Knows("square")
     /\ StructurallyEqual(g, e.args[1], e.args[2])
  THEN RebuildsAs(g, e, Application("square", e.type, <<e.args[1]>>)) ELSE Declines(g, e)

-----------------------------------------------------------------------------
(* rules/constants.cpp                                                     *)
ConstantsAt(g, args) == [k \in DOMAIN args |-> ConstantAt(g, args[k])]
Folded(g, e, evaluation) ==
  IF evaluation[1] # "constant" THEN Unevaluated(g, e, evaluation)
  ELSE Building(g, e, ConstantExpr(evaluation[2]), ReplacesWith(g, e, First(g)))
ConstantFolding(g, e) ==
  IF \A k \in DOMAIN e.args : IsConstant(g, e.args[k])
  THEN Folded(g, e, EvaluateConstants(e, ConstantsAt(g, e.args)))
  ELSE Declines(g, e)

Aggregated(g, e, evaluation, remaining) ==
  IF evaluation[1] # "constant" THEN Unevaluated(g, e, evaluation)
  ELSE Building(g, e, ConstantExpr(evaluation[2]),
         RebuildsAs(g, e, [e EXCEPT !.args = Append(remaining, First(g))]))
MixedConstantAggregation(g, e) ==
  LET constant == {k \in DOMAIN e.args : IsConstant(g, e.args[k])}
      constants == ArgsAt(e.args, constant)
      remaining == ArgsAt(e.args, (DOMAIN e.args) \ constant)
  IN IF /\ Claims(e, "associative") /\ Len(e.args) >= 3 /\ Plain(e)
        /\ Len(constants) >= 2 /\ remaining # <<>>
     THEN Aggregated(g, e, EvaluateConstants(e, ConstantsAt(g, constants)), remaining)
     ELSE Declines(g, e)

-----------------------------------------------------------------------------
ApplyRule(rule, e, g) ==
  CASE rule = "copy_elimination"           -> CopyElimination(g, e)
    [] rule = "identity_elimination"       -> IdentityElimination(g, e)
    [] rule = "annihilator_collapse"       -> AnnihilatorCollapse(g, e)
    [] rule = "bitwise_simplification"     -> BitwiseSimplification(g, e)
    [] rule = "same_operand_simplification" -> SameOperandSimplification(g, e)
    [] rule = "constant_folding"           -> ConstantFolding(g, e)
    [] rule = "mixed_constant_aggregation" -> MixedConstantAggregation(g, e)
    [] rule = "subtraction_normalization"  -> SubtractionNormalization(g, e)
    [] rule = "associative_flattening"     -> AssociativeFlattening(g, e)
    [] rule = "commutative_ordering"       -> CommutativeOrdering(g, e)
    [] rule = "idempotent_deduplication"   -> IdempotentDeduplication(g, e)
    [] rule = "coefficient_collection"     -> CoefficientCollection(g, e)
    [] rule = "division_reciprocal_simplification" -> DivisionReciprocalSimplification(g, e)
    [] rule = "square_simplification"      -> SquareSimplification(g, e)

OutcomesOf(rule, e, g) == {ApplyRule(rule, e, g)}
=============================================================================
