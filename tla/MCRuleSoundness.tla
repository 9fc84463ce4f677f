--------------------------- MODULE MCRuleSoundness ---------------------------
(***************************************************************************)
(* The rules on scalars of 3 bits, in two arithmetics side by side: the    *)
(* words move only while the numbers are at their start, and conversely.   *)
(*                                                                         *)
(* Words: i32, in the arithmetic of the evaluators.                        *)
(*                                                                         *)
(* Numbers: f32 of magnitudes 0, 1, 2 and infinity, and an expression      *)
(* denotes a number modulo 5 (written -2..2), an infinity, or nothing      *)
(* (Undefined).  Exact arithmetic in a field is what the algebraic         *)
(* contract compares by; what is undefined is not compared.                *)
(***************************************************************************)
EXTENDS RuleSoundness, MCWords

McLimit(position) == IF position = 4 THEN 2 ELSE 3
Always(v) == TRUE

VARIABLE numbers     \* the graph over f32; graph is the one over i32

WordGraphs ==
  {McLeafGraph(Type("i32", 0), 4, 7, w) : w \in {0, 7}}
    \cup {McLeafGraph(Type("i32", 0), 1, 4, w) : w \in {1}}
    \cup {McLeafGraph(Type("other", 0), 1, 4, 0)}

-----------------------------------------------------------------------------
Undefined == 4
FieldValues == -3..4
Finite(v) == v \in -2..2
Residue(n) == ((n + 2) % 5) - 2
Inverted(n) == CHOOSE m \in -2..2 : Residue(n * m) = 1
Word(v) == IF v < 0 THEN SignBit - v ELSE v
FieldOp(a, b, value) == IF Finite(a) /\ Finite(b) THEN Word(value) ELSE Infinity
FieldAdd(a, b) == LET n == FloatOrder(a) m == FloatOrder(b) IN FieldOp(n, m, Residue(n + m))
FieldMultiply(a, b) == LET n == FloatOrder(a) m == FloatOrder(b) IN FieldOp(n, m, Residue(n * m))
FieldDivide(a, b) ==
  LET n == FloatOrder(a) m == FloatOrder(b)
  IN IF Finite(n) /\ Finite(m) /\ m # 0 THEN Word(Residue(n * Inverted(m))) ELSE Infinity

FieldFamilies == {{"add", "multiply", "subtract", "divide", "reciprocal", "square"},
                  {"maximum", "minimum", "multiply"}}
FieldMeaning(op, vals) ==
  LET bits == [k \in DOMAIN vals |-> Word(vals[k])]
      result == FloatOrder(EvaluateFloat(op[2], bits))
  IN CASE op[1] = "constant" -> FloatOrder(op[3][1])
       [] op[1] = "symbol"   -> IF Finite(op[3]) THEN op[3] ELSE Undefined
       [] op[1] = "operation" /\ op[2] \in UNION FieldFamilies /\ AcceptsOperandCount(op[2], Len(vals)) ->
            IF \E k \in DOMAIN vals : vals[k] = Undefined THEN Undefined
            ELSE IF op[2] \in {"maximum", "minimum"} THEN result
            ELSE IF \A k \in DOMAIN vals : Finite(vals[k]) THEN (IF Finite(result) THEN result ELSE Undefined)
            ELSE Undefined
       [] OTHER -> Undefined
FieldTerms == INSTANCE ExprGraph WITH Values <- FieldValues, Meaning <- FieldMeaning
FieldLeafGraph(w) == FoldLeft(FieldTerms!Build, <<>>, McLeafExprs(Type("f32", 0), 2, -1, w))
FieldGraphs == {FieldLeafGraph(w) : w \in {0, SignBit, 1, 6, Infinity}}
NumberRules ==
  INSTANCE RuleSoundness WITH
    Values <- FieldValues, Meaning <- FieldMeaning, StartGraphs <- FieldGraphs,
    Defined <- Finite, Families <- FieldFamilies, graph <- numbers

-----------------------------------------------------------------------------
AnyOf(graphs) == CHOOSE g \in graphs : TRUE
McInit ==
  \/ graph \in StartGraphs /\ numbers = AnyOf(FieldGraphs)
  \/ graph = AnyOf(StartGraphs) /\ numbers \in FieldGraphs
WordsMove == numbers = AnyOf(FieldGraphs) /\ Next /\ UNCHANGED numbers
NumbersMove == graph = AnyOf(StartGraphs) /\ NumberRules!Next /\ UNCHANGED graph
McNext == WordsMove \/ NumbersMove
McSpec == McInit /\ [][McNext]_<<graph, numbers>>

(* What the rules do keeps the meaning, and they fail for a cause only     *)
(* (RuleSoundness).                                                        *)
AnswersSound == RulesSound /\ NumberRules!RulesSound

-----------------------------------------------------------------------------
(* Floats taken as bits.                                                   *)
BitFamilies == {{"bit_and", "bit_and_not", "bit_or", "bit_xor"}}
BitMeaning(op, vals) ==
  CASE op[1] = "constant" -> op[3][1]
    [] op[1] = "symbol"   -> Wrapped(op[3])
    [] op[1] = "operation" /\ op[2] \in BitOperations /\ AcceptsOperandCount(op[2], Len(vals)) ->
         EvaluateFloat(op[2], vals)
    [] OTHER -> 0
BitGraphs == {McLeafGraph(Type("f32", 0), 1, 6, w) : w \in Words}
BitSpec == Init /\ numbers = <<>> /\ [][Next /\ UNCHANGED numbers]_<<graph, numbers>>
=============================================================================
