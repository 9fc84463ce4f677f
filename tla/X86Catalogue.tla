----------------------------- MODULE X86Catalogue -----------------------------
(***************************************************************************)
(* The registers (lib/x86/register_catalogue.cpp) and the instruction      *)
(* forms of SSE1 (lib/x86/instruction_catalogue.cpp), and what a form      *)
(* demands of operands (lib/program/instruction_form.cpp).  A register is  *)
(* named by its family and number: <<"r", 0>> is rax, <<"e", 8>> is r8d.   *)
(***************************************************************************)
EXTENDS BitRanges, SequencesExt

(* An XMM register has 128 bits.                                           *)
ASSUME WidthsAssumption == RangeLimit > 128

RegisterInfo(name, width, bank, parent) ==
  [name |-> name, width |-> width, bank |-> bank, parent |-> parent]
Full64(k) == RegisterInfo(<<"r", k>>, 64, "gpr", {})
Low32(k) == RegisterInfo(<<"e", k>>, 32, "gpr", {[reg |-> <<"r", k>>, offset |-> 0, width |-> 32]})

Registers ==
  [k \in 1..16 |-> RegisterInfo(<<"xmm", k - 1>>, 128, "simd", {})]
    \o [k \in 1..8 |-> Low32(k - 1)] \o [k \in 1..8 |-> Full64(k - 1)]
    \o [k \in 1..16 |-> LET n == 8 + (k - 1) \div 2 IN IF k % 2 = 1 THEN Full64(n) ELSE Low32(n)]
    \o <<RegisterInfo(<<"mxcsr", 0>>, 32, "mxcsr", {})>>

RegisterNamed(name) == {r \in ToSet(Registers) : r.name = name}
InBank(name, bank) == \E r \in RegisterNamed(name) : r.bank = bank

-----------------------------------------------------------------------------
(* operand_constraint: the kinds of operands it takes, and what the        *)
(* instruction does with them.                                             *)
Constraint(kinds, access, width, classes) ==
  [kinds |-> kinds, access |-> access, width |-> width, classes |-> classes]
Xmm(access) == Constraint({"register"}, access, 128, {"x86.xmm"})
XmmOrMemory(width) == Constraint({"register", "memory"}, "read", width, {"x86.xmm"})
Memory(width) == Constraint({"memory"}, "write", width, {})
Imm8 == Constraint({"immediate"}, "read", 8, {})

Form(mnemonic, variant, operands) ==
  [mnemonic |-> mnemonic, variant |-> variant, operands |-> operands]
PackedForm(m) == Form(m, "any", <<Xmm("read_write"), XmmOrMemory(128)>>)
ScalarForm(m) == Form(m, "any", <<Xmm("read_write"), XmmOrMemory(32)>>)
(* Fault: overwriting is declared as updating.                             *)
UpdatingForm(m, variant) == Form(m, variant, <<Xmm("read_write"), XmmOrMemory(128)>>)
OverwritingForm(m, variant) == Form(m, variant, <<Xmm("write"), XmmOrMemory(128)>>)
StoreForm(m, width) == Form(m, "store", <<Memory(width), Xmm("read")>>)

Forms == <<
  PackedForm("addps"), ScalarForm("addss"), PackedForm("subps"), ScalarForm("subss"),
  PackedForm("mulps"), ScalarForm("mulss"), PackedForm("divps"), ScalarForm("divss"),
  PackedForm("minps"), ScalarForm("minss"), PackedForm("maxps"), ScalarForm("maxss"),
  OverwritingForm("sqrtps", "any"), ScalarForm("sqrtss"),
  OverwritingForm("rcpps", "any"), ScalarForm("rcpss"),
  OverwritingForm("rsqrtps", "any"), ScalarForm("rsqrtss"),
  PackedForm("andps"), PackedForm("andnps"), PackedForm("orps"), PackedForm("xorps"),
  OverwritingForm("movaps", "load"), StoreForm("movaps", 128),
  OverwritingForm("movups", "load"), StoreForm("movups", 128),
  Form("movss", "load", <<Xmm("read_write"), XmmOrMemory(32)>>), StoreForm("movss", 32),
  Form("shufps", "any", <<Xmm("read_write"), XmmOrMemory(128), Imm8>>),
  PackedForm("unpcklps"), PackedForm("unpckhps") >>

-----------------------------------------------------------------------------
(* program::operand: a kind, a width and what it names; a register operand *)
(* has the first bit of its slice as well.                                 *)
RegisterOperand(reg, offset, width) ==
  [kind |-> "register", reg |-> reg, offset |-> offset, width |-> width]
MemoryOperand(base, displacement, width) ==
  [kind |-> "memory", base |-> base, displacement |-> displacement, width |-> width]
ImmediateOperand(bits, width) == [kind |-> "immediate", bits |-> bits, width |-> width]
UnsupportedOperand == [kind |-> "unsupported", width |-> 0]

(* Fault: the width is not compared.                                       *)
OperandKindError(constraint, operand) ==
  IF operand.kind \in constraint.kinds THEN "ok" ELSE "invalid_operand"
(* validate_operand; a range of bits is not empty and does not wrap.       *)
OperandError(constraint, operand) ==
  IF operand.kind \notin constraint.kinds THEN "invalid_operand"
  ELSE IF operand.kind = "register" /\ ~Valid(operand) THEN "invalid_range"
  ELSE IF operand.width # constraint.width THEN "invalid_operand_width"
  ELSE "ok"

FirstError(errors) ==
  LET bad == {k \in DOMAIN errors : errors[k] # "ok"}
  IN IF bad = {} THEN "ok" ELSE errors[CHOOSE k \in bad : \A j \in bad : k <= j]

(* validate_instruction_operands                                           *)
OperandsError(form, operands) ==
  IF Len(form.operands) # Len(operands) THEN "invalid_operand_count"
  ELSE FirstError([k \in DOMAIN operands |-> OperandError(form.operands[k], operands[k])])
=============================================================================
