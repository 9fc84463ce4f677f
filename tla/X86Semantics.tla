----------------------------- MODULE X86Semantics -----------------------------
(***************************************************************************)
(* form_resolver (lib/x86/form_resolver.cpp), which makes decoded          *)
(* instructions of parsed ones, and semantic_provider                      *)
(* (lib/x86/semantic_provider.cpp), which says what a decoded instruction  *)
(* does: effects whose values are lane expressions over the old            *)
(* destination and the source operand.                                     *)
(***************************************************************************)
EXTENDS X86Catalogue

(* unresolved_operand                                                      *)
NamedOperand(name) == [kind |-> "register", name |-> name]
AddressOperand(base, displacement) ==
  [kind |-> "memory", base |-> base, displacement |-> displacement]
ValueOperand(value) == [kind |-> "immediate", value |-> value]
Unresolved(mnemonic, operands) == [mnemonic |-> mnemonic, operands |-> operands]

FormMatches(form, u) ==
  /\ form.mnemonic = u.mnemonic /\ Len(form.operands) = Len(u.operands)
  /\ \A k \in DOMAIN u.operands : u.operands[k].kind \in form.operands[k].kinds

(* Of several candidates, those whose first operand is memory exactly when *)
(* the instruction's is, if there are any; of these the first.             *)
Fitting(u, candidates) ==
  {f \in candidates :
     Cardinality(candidates) > 1 =>
       (Forms[f].operands[1].kinds = {"memory"}) = (u.operands[1].kind = "memory")}
Preferred(candidates, fitting) == IF fitting = {} THEN candidates ELSE fitting
FirstForm(pool) == {f \in pool : \A g \in pool : f <= g}
SelectedOf(u, candidates) == FirstForm(Preferred(candidates, Fitting(u, candidates)))
Selected(u) == SelectedOf(u, {f \in DOMAIN Forms : FormMatches(Forms[f], u)})

(* Fault: any register serves as an operand.                               *)
AnyRegisterError(name) == IF RegisterNamed(name) = {} THEN "unknown_register" ELSE "ok"
RegisterError(name) ==
  IF RegisterNamed(name) = {} THEN "unknown_register"
  ELSE IF ~InBank(name, "simd") THEN "invalid_register_class" ELSE "ok"

(* resolve_operand: its error, and what it makes.                          *)
ResolveError(o) ==
  CASE o.kind = "register"  -> RegisterError(o.name)
    [] o.kind = "immediate" -> "ok"
    [] o.kind = "memory"    -> IF InBank(o.base, "gpr") THEN "ok" ELSE "invalid_memory_base"
Resolved(o, constraint) ==
  CASE o.kind = "register"  -> RegisterOperand(o.name, 0, constraint.width)
    [] o.kind = "immediate" -> ImmediateOperand(o.value, constraint.width)
    [] o.kind = "memory"    -> MemoryOperand(o.base, o.displacement, constraint.width)

(* resolve, for one instruction: of the form selected, if there is one.    *)
Unresolvable(error) == [error |-> error, form |-> 0, operands |-> <<>>]
ResolvedTo(f, operands, constraints, error) ==
  IF error # "ok" THEN Unresolvable(error)
  ELSE [error |-> "ok", form |-> f,
        operands |-> [k \in DOMAIN operands |-> Resolved(operands[k], constraints[k])]]
ResolvedBy(forms, operands) ==
  IF forms = {} THEN Unresolvable("unsupported_form")
  ELSE LET f == CHOOSE s \in forms : TRUE
       IN ResolvedTo(f, operands, Forms[f].operands,
                     FirstError([k \in DOMAIN operands |-> ResolveError(operands[k])]))
Resolve(u) == ResolvedBy(Selected(u), u.operands)

-----------------------------------------------------------------------------
Lanes == 0..3
OldLane(l) == <<"old", l>>
SourceLane(l) == <<"source", l>>                \* of operand 1, the second one
Lane(operation, inputs) == [operation |-> operation, inputs |-> inputs]
CopyLane(input) == Lane("copy", <<input>>)
ZeroLane == Lane("zero", <<>>)
UnaryLane(operation, l) == Lane(operation, <<SourceLane(l)>>)
BinaryLane(operation, l) == Lane(operation, <<OldLane(l), SourceLane(l)>>)

PackedUnary(operation) == [k \in 1..4 |-> UnaryLane(operation, k - 1)]
PackedBinary(operation) == [k \in 1..4 |-> BinaryLane(operation, k - 1)]
OnlyFirst(lane) == <<lane, CopyLane(OldLane(1)), CopyLane(OldLane(2)), CopyLane(OldLane(3))>>
FullCopy == [k \in 1..4 |-> CopyLane(SourceLane(k - 1))]
ScalarStoreCopy == <<CopyLane(SourceLane(0))>>
(* Fault: four lanes are loaded.                                           *)
LoadOfFour(fromMemory) == FullCopy
MovssLoad(fromMemory) ==
  IF fromMemory THEN <<CopyLane(SourceLane(0)), ZeroLane, ZeroLane, ZeroLane>>
  ELSE OnlyFirst(CopyLane(SourceLane(0)))
(* The uint8_t of the immediate, two bits for each lane.                   *)
Selector(bits, k) == ((bits % 256) \div <<1, 4, 16, 64>>[k + 1]) % 4
Shufps(bits) ==
  <<CopyLane(OldLane(Selector(bits, 0))), CopyLane(OldLane(Selector(bits, 1))),
    CopyLane(SourceLane(Selector(bits, 2))), CopyLane(SourceLane(Selector(bits, 3)))>>
(* Fault: the halves are not interleaved.                                  *)
Concatenated(first) ==
  <<CopyLane(OldLane(first)), CopyLane(OldLane(first + 1)),
    CopyLane(SourceLane(first)), CopyLane(SourceLane(first + 1))>>
Unpacked(first) ==
  <<CopyLane(OldLane(first)), CopyLane(SourceLane(first)),
    CopyLane(OldLane(first + 1)), CopyLane(SourceLane(first + 1))>>

BinaryOperation ==
  [add |-> {"addps", "addss"}, subtract |-> {"subps", "subss"}, multiply |-> {"mulps", "mulss"},
   divide |-> {"divps", "divss"}, minimum |-> {"minps", "minss"}, maximum |-> {"maxps", "maxss"},
   bit_and |-> {"andps"}, bit_and_not |-> {"andnps"}, bit_or |-> {"orps"}, bit_xor |-> {"xorps"}]
UnaryOperation ==
  [sqrt |-> {"sqrtps", "sqrtss"}, approximate_reciprocal |-> {"rcpps", "rcpss"},
   approximate_reciprocal_sqrt |-> {"rsqrtps", "rsqrtss"}]
OperationIn(table, mnemonic) == CHOOSE op \in DOMAIN table : mnemonic \in table[op]
AllIn(table) == UNION {table[op] : op \in DOMAIN table}
ScalarMnemonics ==
  {"addss", "subss", "mulss", "divss", "minss", "maxss", "sqrtss", "rcpss", "rsqrtss"}

(* The lanes written, per form.                                            *)
ItsLanes(mnemonic, packed) ==
  IF mnemonic \in ScalarMnemonics THEN OnlyFirst(packed[1]) ELSE packed

Value(form, operands) ==
  LET m == form.mnemonic
  IN CASE m \in AllIn(BinaryOperation) ->
            ItsLanes(m, PackedBinary(OperationIn(BinaryOperation, m)))
       [] m \in AllIn(UnaryOperation) ->
            ItsLanes(m, PackedUnary(OperationIn(UnaryOperation, m)))
       [] m \in {"movaps", "movups"} -> FullCopy
       [] m = "movss" /\ form.variant = "load" -> MovssLoad(operands[2].kind = "memory")
       [] m = "movss" /\ form.variant = "store" -> ScalarStoreCopy
       [] m = "shufps" -> Shufps(operands[3].bits)
       [] m = "unpcklps" -> Unpacked(0)
       [] m = "unpckhps" -> Unpacked(2)

MergesOld(form, operands) ==
  form.mnemonic \in ScalarMnemonics
    \/ (form.mnemonic = "movss" /\ form.variant = "load" /\ operands[2].kind # "memory")

MemoryRead(operand) ==
  [kind |-> "memory_read", operand |-> operand, value |-> <<>>, merges |-> FALSE]
RegisterWrite(operand, value, merges) ==
  [kind |-> "register_write", operand |-> operand, value |-> value, merges |-> merges]
MemoryWrite(operand, value) ==
  [kind |-> "memory_write", operand |-> operand, value |-> value, merges |-> FALSE]

Effects(form, operands) ==
  IF form.variant = "store" THEN <<MemoryWrite(operands[1], Value(form, operands))>>
  ELSE (IF operands[2].kind = "memory" THEN <<MemoryRead(operands[2])>> ELSE <<>>)
         \o <<RegisterWrite(operands[1], Value(form, operands), MergesOld(form, operands))>>

(* validate_x86_operands; an address without base is accepted.             *)
X86OperandError(operand) ==
  CASE operand.kind = "register" ->
         IF RegisterNamed(operand.reg) = {} THEN "foreign_register"
         ELSE IF ~InBank(operand.reg, "simd") THEN "invalid_register_class" ELSE "ok"
    [] operand.kind = "memory" ->
         IF operand.base = <<>> THEN "ok"
         ELSE IF RegisterNamed(operand.base) = {} THEN "foreign_register"
         ELSE IF ~InBank(operand.base, "gpr") THEN "invalid_register_class" ELSE "ok"
    [] operand.kind = "unsupported" -> "unsupported_operand"
    [] operand.kind = "immediate" -> "ok"

(* semantics: form 0 is a form of another catalogue.                       *)
SemanticsError(f, operands) ==
  IF f = 0 THEN "foreign_form" ELSE IF f > Len(Forms) THEN "invalid_form"
  ELSE FirstError(<<OperandsError(Forms[f], operands)>>
                    \o [k \in DOMAIN operands |-> X86OperandError(operands[k])])
EffectsUnless(error, f, operands) ==
  [error |-> error, effects |-> IF error = "ok" THEN Effects(Forms[f], operands) ELSE <<>>]
Semantics(f, operands) == EffectsUnless(SemanticsError(f, operands), f, operands)
=============================================================================
