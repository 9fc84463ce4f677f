------------------------------ MODULE Evaluator ------------------------------
(***************************************************************************)
(* Constants and the built-in evaluators of the canonicalizer              *)
(* (lib/ir/constant.cpp, lib/canonicalizer/evaluator_catalogue.cpp).  An   *)
(* element is a word of W bits in place of 32.  Read as a float, its top   *)
(* bit is the sign and the rest a magnitude: up to Infinity the larger     *)
(* number has the larger magnitude, above it are the NaNs.  Rounding       *)
(* arithmetic on such words is the hardware's and a parameter.             *)
(***************************************************************************)
EXTENDS Sorting, SequencesExt, Bitwise

CONSTANTS
  W,                 \* bits of an element
  Infinity,          \* magnitude of the infinities
  One,               \* magnitude of 1.0F
  FAdd(_, _), FMultiply(_, _), FDivide(_, _), FSqrt(_)

ASSUME WordAssumption == W \in Nat \ {0, 1} /\ Infinity \in 1..(2^(W - 1) - 1) /\ One \in 1..Infinity

Words == 0..(2^W - 1)
SignBit == 2^(W - 1)
AllBits == 2^W - 1

Magnitude(b) == b % SignBit
Negative(b) == b >= SignBit
Signed(b) == IF Negative(b) THEN b - 2^W ELSE b          \* bit_cast<int32_t>
(* Fault: overflow is kept.                                                *)
Widened(n) == n
Wrapped(n) == n % 2^W
Complement(b) == AllBits - b

IsNaN(b) == Magnitude(b) > Infinity
Negated(b) == (b + SignBit) % 2^W
FloatOrder(b) == IF Negative(b) THEN -Magnitude(b) ELSE Magnitude(b)
QuietNaN == Infinity + 1

(* value_type: lanes is 0 for a scalar; "other" stands for every category  *)
(* and width but the two of 32 bits, the unknown type included.            *)
Categories == {"f32", "i32", "other"}
Type(category, lanes) == [category |-> category, lanes |-> lanes]
ScalarOf(type) == Type(type.category, 0)

(* constant_value.  A splat repeats one element; element(i) does not tell. *)
Constant(type, splat, elements) == [type |-> type, splat |-> splat, elements |-> elements]
ElementCount(type) == IF type.lanes = 0 THEN 1 ELSE type.lanes

(* constant_value::scalar, ::splat and ::aggregate: the elements given are *)
(* of the category given.                                                  *)
ConstantError(form, type, category, count) ==
  IF (form = "scalar") # (type.lanes = 0) THEN "invalid_shape"
  ELSE IF form = "aggregate" /\ count # type.lanes THEN "invalid_shape"
  ELSE IF type.category = "other" \/ category # type.category THEN "type_mismatch"
  ELSE "ok"

-----------------------------------------------------------------------------
Variadic == {"add", "multiply", "maximum", "minimum", "bit_and", "bit_or", "bit_xor"}
Binary == {"subtract", "divide", "bit_and_not"}
Unary == {"sqrt", "reciprocal", "reciprocal_sqrt", "square", "copy"}
BitOperations == {"bit_and", "bit_and_not", "bit_or", "bit_xor"}

(* builtin_evaluator_catalogue.                                            *)
Evaluators == Variadic \cup Binary \cup Unary

IsCommutative(key) == key \in Variadic

AcceptsOperandCount(key, n) ==
  CASE key \in Unary -> n = 1 [] key \in Binary -> n = 2 [] OTHER -> n >= 2

SupportsResultType(key, type) ==
  \/ type.category = "f32"
  \/ type.category = "i32" /\ key \notin {"divide", "sqrt", "reciprocal", "reciprocal_sqrt"}

(* Fault: a zero keeps its sign.                                           *)
NaNsOnly(b) == IF IsNaN(b) THEN QuietNaN ELSE b
CanonicalBits(b) ==
  IF Magnitude(b) = 0 THEN 0 ELSE IF IsNaN(b) THEN QuietNaN ELSE b

SortableBits(b, type) == IF type.category = "f32" THEN CanonicalBits(b) ELSE b

ConstantLess(c, d) ==
  LET key(e) == [k \in DOMAIN e.elements |-> SortableBits(e.elements[k], e.type)]
      differ == {k \in DOMAIN c.elements : key(c)[k] # key(d)[k]}
  IN IF differ = {} THEN ~c.splat /\ d.splat
     ELSE \E k \in differ : (\A j \in differ : k <= j) /\ key(c)[k] < key(d)[k]

(* One turn of the loops over the operands after the first.                *)
BitStep(key, a, b) ==
  CASE key = "bit_and"     -> a & b
    [] key = "bit_and_not" -> Complement(a) & b
    [] key = "bit_or"      -> a | b
    [] key = "bit_xor"     -> a ^^ b

FloatMaximum(a, b) ==
  IF IsNaN(a) \/ (~IsNaN(b) /\ FloatOrder(b) > FloatOrder(a)) THEN b ELSE a
FloatMinimum(a, b) ==
  IF IsNaN(a) \/ (~IsNaN(b) /\ FloatOrder(b) < FloatOrder(a)) THEN b ELSE a

FloatStep(key, a, b) ==
  CASE key = "add"      -> FAdd(a, b)
    [] key = "multiply" -> FMultiply(a, b)
    [] key = "subtract" -> FAdd(a, Negated(b))
    [] key = "divide"   -> FDivide(a, b)
    [] key = "maximum"  -> FloatMaximum(a, b)
    [] key = "minimum"  -> FloatMinimum(a, b)

FloatUnary(key, a) ==
  CASE key = "sqrt"            -> FSqrt(a)
    [] key = "reciprocal"      -> FDivide(One, a)
    [] key = "reciprocal_sqrt" -> FDivide(One, FSqrt(a))
    [] key = "square"          -> FMultiply(a, a)

(* Fault: the words are compared as if they had no sign.                   *)
UnsignedStep(key, a, b) ==
  CASE key = "add"      -> Wrapped(a + b)
    [] key = "multiply" -> Wrapped(a * b)
    [] key = "subtract" -> Wrapped(a - b)
    [] key = "maximum"  -> IF b > a THEN b ELSE a
    [] key = "minimum"  -> IF b < a THEN b ELSE a
    [] OTHER            -> BitStep(key, a, b)
IntegerStep(key, a, b) ==
  CASE key = "add"      -> Wrapped(a + b)
    [] key = "multiply" -> Wrapped(a * b)
    [] key = "subtract" -> Wrapped(a - b)
    [] key = "maximum"  -> IF Signed(b) > Signed(a) THEN b ELSE a
    [] key = "minimum"  -> IF Signed(b) < Signed(a) THEN b ELSE a
    [] OTHER            -> BitStep(key, a, b)

(* evaluate_scalar, on the words one lane of the operands holds.           *)
(* Fault: stored bits are normalised like numbers.                         *)
EvaluateNumbers(key, words) ==
  CanonicalBits(
    IF key = "copy" THEN words[1]
    ELSE IF key \in Unary THEN FloatUnary(key, words[1])
    ELSE FoldLeft(LAMBDA a, b : IF key \in BitOperations THEN BitStep(key, a, b)
                                ELSE FloatStep(key, a, b), words[1], Tail(words)))
EvaluateFloat(key, words) ==
  IF key = "copy" THEN words[1]
  ELSE IF key \in BitOperations
  THEN FoldLeft(LAMBDA a, b : BitStep(key, a, b), words[1], Tail(words))
  ELSE IF key \in Unary THEN CanonicalBits(FloatUnary(key, words[1]))
  ELSE CanonicalBits(FoldLeft(LAMBDA a, b : FloatStep(key, a, b), words[1], Tail(words)))

EvaluateInteger(key, words) ==
  IF key = "copy" THEN words[1]
  ELSE IF key = "square" THEN Wrapped(words[1] * words[1])
  ELSE FoldLeft(LAMBDA a, b : IntegerStep(key, a, b), words[1], Tail(words))

(* Fault: every lane is computed from the first.                           *)
FirstLane(operands, k) == [i \in DOMAIN operands |-> operands[i].elements[1]]
LaneWords(operands, k) == [i \in DOMAIN operands |-> operands[i].elements[k]]

EvaluateLane(key, operands, k, type) ==
  IF type.category = "f32" THEN EvaluateFloat(key, LaneWords(operands, k))
  ELSE EvaluateInteger(key, LaneWords(operands, k))

(* Fault: in the order given.                                              *)
AsGiven(key, operands) == operands
Ordered(key, operands) ==
  LET less == {p \in (DOMAIN operands) \X (DOMAIN operands) :
                 ConstantLess(operands[p[1]], operands[p[2]])}
  IN IF IsCommutative(key) THEN StableSorted(operands, less) ELSE operands

NoEvaluation == <<"no_evaluation">>

(* evaluate_builtin.                                                       *)
EvaluateBuiltin(key, operands, attributes, type) ==
  IF \/ ~AcceptsOperandCount(key, Len(operands)) \/ attributes # {}
     \/ ~SupportsResultType(key, type)
     \/ \E i \in DOMAIN operands : operands[i].type # type
  THEN NoEvaluation
  ELSE LET form == IF type.lanes = 0 THEN "scalar" ELSE "aggregate"
           error == ConstantError(form, type, type.category, ElementCount(type))
       IN IF error # "ok" THEN <<"invalid_evaluation", error>>
          ELSE <<"constant",
                 Constant(type, FALSE, [k \in 1..ElementCount(type) |->
                   EvaluateLane(key, Ordered(key, operands), k, type)])>>

(* evaluator_catalogue::create and ::find, on the keys of the evaluators.  *)
CatalogueError(keys) ==
  LET bad(i) == keys[i] = "none" \/ \E j \in 1..(i - 1) : keys[j] = keys[i]
      first == {i \in DOMAIN keys : bad(i) /\ \A j \in 1..(i - 1) : ~bad(j)}
  IN {IF keys[i] = "none" THEN "invalid_evaluator" ELSE "duplicate_evaluator" : i \in first}

Evaluate(key, operands, attributes, type) ==
  IF key \in Evaluators THEN EvaluateBuiltin(key, operands, attributes, type) ELSE NoEvaluation
=============================================================================
