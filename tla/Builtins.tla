------------------------------- MODULE Builtins -------------------------------
(***************************************************************************)
(* The operations every catalogue starts with                              *)
(* (register_builtin_operations, lib/ir/builtins/operations.cpp), in the   *)
(* order of their identifiers, and the signature check of an application   *)
(* (lib/ir/operation_signature.cpp).                                       *)
(***************************************************************************)
EXTENDS Evaluator

WellKnown(name) == <<"well_known", name>>
Explicit(category, word) == <<"explicit", category, word>>

ZeroConstant == WellKnown("zero")
OneConstant == WellKnown("one")
AllBitsSet == WellKnown("all_bits_set")
PositiveInfinity == Explicit("f32", Infinity)
NegativeInfinity == Explicit("f32", SignBit + Infinity)

(* operation_semantics: constants has the slots that are given.            *)
Operation(key, minimum, maximum, traits, constants) ==
  [key |-> key, minimum |-> minimum, maximum |-> maximum, traits |-> traits,
   evaluator |-> {key}, constants |-> constants]
UnarySameType(key) == Operation(key, 1, {1}, {}, <<>>)
BinarySameType(key, constants) == Operation(key, 2, {2}, {}, constants)
VariadicSameType(key, traits, constants) == Operation(key, 2, {}, traits, constants)

Reorders == {"associative", "commutative"}
Lattice == Reorders \cup {"idempotent"}

ArithmeticOperations == <<
  VariadicSameType("add", Reorders, [identity |-> ZeroConstant]),
  VariadicSameType("multiply", Reorders, [identity |-> OneConstant, annihilator |-> ZeroConstant]),
  BinarySameType("subtract", [right_identity |-> ZeroConstant]),
  BinarySameType("divide", [right_identity |-> OneConstant]),
  VariadicSameType("maximum", Lattice, [identity |-> NegativeInfinity, annihilator |-> PositiveInfinity]),
  VariadicSameType("minimum", Lattice, [identity |-> PositiveInfinity, annihilator |-> NegativeInfinity]),
  UnarySameType("sqrt"), UnarySameType("reciprocal"),
  UnarySameType("reciprocal_sqrt"), UnarySameType("square") >>

BitwiseOperations == <<
  VariadicSameType("bit_and", Lattice, [identity |-> AllBitsSet, annihilator |-> ZeroConstant]),
  BinarySameType("bit_and_not", [left_identity |-> ZeroConstant, right_annihilator |-> ZeroConstant]),
  VariadicSameType("bit_or", Lattice, [identity |-> ZeroConstant, annihilator |-> AllBitsSet]),
  VariadicSameType("bit_xor", Reorders, [identity |-> ZeroConstant]),
  UnarySameType("copy") >>

BuiltinOperations == ArithmeticOperations \o BitwiseOperations

(* operation_signature::validate_application, for operations whose         *)
(* operands have the type of the result.                                   *)
Accepts(operation, count) ==
  count >= operation.minimum /\ \A m \in operation.maximum : count <= m
ValidApplication(operation, types, type) ==
  /\ Accepts(operation, Len(types))
  /\ \A k \in DOMAIN types : types[k] = type
=============================================================================
