------------------------------ MODULE Structural ------------------------------
(***************************************************************************)
(* structural_context (lib/ir/structural.cpp): a node is described by what *)
(* its record encodes and by its operands, and two nodes are compared by   *)
(* description, record first, then operand by operand.  The bytes of a     *)
(* record are a sequence of numbers here; texts are numbers already.       *)
(*                                                                         *)
(* The symbols of ExprGraph are payloads:                                  *)
(*   <<"constant", splat, elements>>   <<"symbol", name, meaning>>         *)
(*   <<"external", owner, index, meaning>>                                 *)
(*   <<"unknown", reason, meaning>>                                        *)
(*   <<"operation", key, attributes>>  <<"merge">>                         *)
(* where meaning is what the leaf stands for, which no code reads.         *)
(***************************************************************************)
EXTENDS ExprGraph, Integers, SequencesExt

CONSTANTS
  OperationKeys,     \* the keys of the catalogue, in the order of identifiers
  AttributeCode(_)   \* append_attributes: a number that tells attributes apart

KindOrder == <<"constant", "symbol", "external", "unknown", "operation", "merge">>
CategoryOrder == <<"f32", "i32", "other">>
PositionIn(order, x) == CHOOSE i \in DOMAIN order : order[i] = x

(* append_u8 of the kind, append_type.                                     *)
RecordHeader(node) ==
  <<PositionIn(KindOrder, node.op[1]), PositionIn(CategoryOrder, node.type.category), node.type.lanes>>

PayloadData(node) ==
  LET op == node.op
  IN CASE op[1] = "constant"  -> <<IF op[2] THEN 1 ELSE 0, Len(op[3])>> \o op[3]
       [] op[1] = "symbol"    -> <<op[2]>>
       [] op[1] = "external"  -> <<op[2], op[3]>>
       [] op[1] = "unknown"   -> <<op[2]>>
       [] op[1] = "operation" -> <<PositionIn(OperationKeys, op[2]), AttributeCode(op[3]), Len(node.args)>>
       [] op[1] = "merge"     -> <<Len(node.args)>>

RecordData(node) == RecordHeader(node) \o PayloadData(node)

(* The records of a node and of everything below it, in the order in which *)
(* compare_records reaches them.                                           *)
Descriptions(g) ==
  LET d[n \in DOMAIN g] ==
        <<RecordData(g[n])>> \o FlattenSeq([k \in DOMAIN g[n].args |-> d[g[n].args[k]]])
  IN d

(* The first difference decides; a sequence that ends there is less.       *)
AgreeBefore(k, a, b) == \A i \in 1..(k - 1) : i \in DOMAIN a /\ a[i] = b[i]
RecordLess(r, s) ==
  \E k \in DOMAIN s : AgreeBefore(k, r, s) /\ (k \in DOMAIN r => r[k] < s[k])
DescriptionLess(d, e) ==
  \E k \in DOMAIN e : AgreeBefore(k, d, e) /\ (k \in DOMAIN d => RecordLess(d[k], e[k]))

StructurallyEqual(g, a, b) == Descriptions(g)[a] = Descriptions(g)[b]
=============================================================================
