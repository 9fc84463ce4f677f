------------------------------- MODULE Folding -------------------------------
(***************************************************************************)
(* Constant folding seen by a rule that gathers operands one after the     *)
(* other and in any order: the operands grow or two neighbours change      *)
(* places, and the evaluator is asked again.                               *)
(***************************************************************************)
EXTENDS Evaluator

CONSTANTS
  Samples(_),        \* bound: the constants of a type the instance tries
  SampleTypes,       \* bound: result types
  MaxOperands        \* bound: operands of one evaluation

VARIABLES key, type, operands, answer

vars == <<key, type, operands, answer>>

Init ==
  /\ key \in Evaluators /\ type \in SampleTypes
  /\ operands \in {<<c>> : c \in UNION {Samples(t) : t \in SampleTypes}}
  /\ answer = Evaluate(key, operands, {}, type)

Ask(list) ==
  /\ operands' = list /\ answer' = Evaluate(key, list, {}, type)
  /\ UNCHANGED <<key, type>>

AddOperand ==
  /\ operands[1].type = type /\ Len(operands) < MaxOperands
  /\ \E c \in Samples(operands[1].type) : Ask(Append(operands, c))

SwapNeighbours ==
  \E i \in 1..(Len(operands) - 1) :
    Ask([operands EXCEPT ![i] = operands[i + 1], ![i + 1] = operands[i]])

Next == AddOperand \/ SwapNeighbours

Spec == Init /\ [][Next]_vars

-----------------------------------------------------------------------------
Answered == answer[1] = "constant"
Result == answer[2].elements

TypeOK ==
  answer = NoEvaluation
    \/ /\ Answered /\ answer[2].type = type
       /\ Result \in [1..ElementCount(type) -> Words]

(* "commutative floating folds are deterministic across operand            *)
(* permutations": rounding makes float addition depend on the order, the   *)
(* evaluator does not.                                                     *)
OrderIrrelevant ==
  [][Len(operands') = Len(operands) /\ IsCommutative(key) => answer' = answer]_vars

(* i32 folds wrap at the width of a word and compare as signed numbers:    *)
(* each lane is what exact integers give, brought back into range.         *)
Numbers(k) == [i \in DOMAIN operands |-> Signed(operands[i].elements[k])]
Total(s) == FoldLeft(LAMBDA a, b : a + b, 0, s)
Product(s) == FoldLeft(LAMBDA a, b : a * b, 1, s)
ExactInteger(s, n) ==
  CASE key = "add"      -> Signed(Wrapped(Total(s))) = n
    [] key = "multiply" -> Signed(Wrapped(Product(s))) = n
    [] key = "subtract" -> Signed(Wrapped(s[1] - s[2])) = n
    [] key = "square"   -> Signed(Wrapped(s[1] * s[1])) = n
    [] key = "copy"     -> s[1] = n
    [] key = "maximum"  -> n \in ToSet(s) /\ \A x \in ToSet(s) : x <= n
    [] key = "minimum"  -> n \in ToSet(s) /\ \A x \in ToSet(s) : n <= x
    [] OTHER            -> TRUE
IntegersExact ==
  Answered /\ type.category = "i32" =>
    \A k \in DOMAIN Result : ExactInteger(Numbers(k), Signed(Result[k]))

(* "bitwise and copy evaluators preserve exact stored bits": on the same   *)
(* words they answer the same whether these are floats or integers, signed *)
(* zeros and NaN payloads included.                                        *)
AsIntegers(c) == [c EXCEPT !.type.category = "i32"]
BitsExact ==
  Answered /\ key \in BitOperations \cup {"copy"} =>
    Result = Evaluate(key, [i \in DOMAIN operands |-> AsIntegers(operands[i])],
                      {}, [type EXCEPT !.category = "i32"])[2].elements

(* Float arithmetic yields no negative zero and one NaN only, so that two  *)
(* equal results are one constant.                                         *)
FloatsCanonical ==
  Answered /\ type.category = "f32" /\ key \notin BitOperations \cup {"copy"} =>
    \A k \in DOMAIN Result :
      /\ Result[k] # SignBit
      /\ IsNaN(Result[k]) => Result[k] = QuietNaN

(* Lanes do not disturb each other.  (Float addition of whole vectors      *)
(* takes its order from all lanes, so only exact operations qualify.)      *)
LaneOf(c, k) == Constant(ScalarOf(c.type), FALSE, <<c.elements[k]>>)
LanesIndependent ==
  Answered /\ type.lanes > 0 /\ (type.category = "i32" \/ key \notin {"add", "multiply"}) =>
    \A k \in DOMAIN Result :
      <<Result[k]>> = Evaluate(key, [i \in DOMAIN operands |-> LaneOf(operands[i], k)],
                               {}, ScalarOf(type))[2].elements
=============================================================================
