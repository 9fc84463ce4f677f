------------------------------ MODULE X86Machine ------------------------------
(***************************************************************************)
(* x86 instructions on their way from the parser to their meaning.  A step *)
(* resolves one instruction and executes the effects semantic_provider     *)
(* gives it, on registers and memory whose 32-bit lanes hold symbolic      *)
(* terms; a second machine, an abstract specification, executes the same   *)
(* instruction as the architecture defines it.  Instructions a client      *)
(* builds by hand go to the semantic provider without a resolver.          *)
(***************************************************************************)
EXTENDS X86Semantics

CONSTANTS Xmms,              \* numbers of the XMM registers in play
          Bases,             \* the registers addresses start from
          CellOffsets,       \* displacements of the 32-bit cells in memory
          Instructions,      \* unresolved instructions that may come
          Built,             \* instructions built by hand: form and operands
          MaxEncoded,        \* the largest displacement an encoding holds, 2^31 - 1
          MaxInstructions    \* bound: instructions executed

VARIABLES machine,           \* what the effects make of registers and memory
          architecture,      \* what the instructions make of them
          executed,          \* instructions executed
          last               \* the instruction last looked at and its verdict
machineVars == <<machine, architecture, executed, last>>

Cells == Bases \X CellOffsets
XmmNames == {<<"xmm", k>> : k \in Xmms}
Cell(address, l) == <<address.base, address.displacement + 4 * l>>

(* Operands as the parser leaves them and as a client may build them; what *)
(* an instruction names of the machine is in play.                         *)
RegisterName == STRING \X Nat
IsXmm(o) == o.kind = "register" /\ o.name[1] = "xmm" /\ o.name[2] < 16
IsAddress(o) == o.kind = "memory" /\ o.base[1] \in {"r", "e"} /\ o.base[2] < 16
ParsedOperand ==
  [kind : {"register"}, name : RegisterName]
    \cup [kind : {"memory"}, base : RegisterName, displacement : Int]
    \cup [kind : {"immediate"}, value : Nat]
BuiltOperand ==
  [kind : {"register"}, reg : RegisterName, offset : Range32, width : Range32]
    \cup [kind : {"memory"}, base : RegisterName \cup {<<>>}, displacement : Int, width : Range32]
    \cup [kind : {"immediate"}, bits : Nat, width : Range32]
    \cup [kind : {"unsupported"}, width : Range32]
InPlay(o) ==
  /\ IsXmm(o) => o.name \in XmmNames
  /\ IsAddress(o) => \A l \in Lanes : Cell(o, l) \in Cells
ASSUME InstructionsAssumption ==
  /\ Instructions \subseteq [mnemonic : STRING, operands : Seq(ParsedOperand)]
  /\ \A u \in Instructions : \A k \in DOMAIN u.operands : InPlay(u.operands[k])
ASSUME BuiltAssumption == Built \subseteq [form : Nat, operands : Seq(BuiltOperand)]
ASSUME MachineAssumption ==
  CellOffsets \subseteq Int /\ MaxEncoded \in Nat /\ MaxInstructions \in Nat

-----------------------------------------------------------------------------
(* Execution of the effects, at once: all inputs are read before anything  *)
(* is written.                                                             *)
ReadLane(m, operand, l) ==
  IF operand.kind = "register" THEN m.xmm[operand.reg][l + 1] ELSE m.mem[Cell(operand, l)]
InputTerm(m, operands, input) ==
  ReadLane(m, IF input[1] = "old" THEN operands[1] ELSE operands[2], input[2])
Term(m, operands, lane) ==
  CASE lane.operation = "copy" -> InputTerm(m, operands, lane.inputs[1])
    [] lane.operation = "zero" -> <<"zero">>
    [] OTHER -> <<lane.operation>>
                  \o [k \in DOMAIN lane.inputs |-> InputTerm(m, operands, lane.inputs[k])]

(* What is written, to a register or to a cell.                            *)
RegisterWrites(effects, name) ==
  {e \in ToSet(effects) : e.kind = "register_write" /\ e.operand.reg = name}
LaneWrites(effects, cell) ==
  {p \in {e \in ToSet(effects) : e.kind = "memory_write"} \X (1..4) :
     p[2] \in DOMAIN p[1].value /\ Cell(p[1].operand, p[2] - 1) = cell}
Execute(m, operands, effects) ==
  [xmm |-> [x \in XmmNames |->
     IF RegisterWrites(effects, x) = {} THEN m.xmm[x]
     ELSE LET value == (CHOOSE e \in RegisterWrites(effects, x) : TRUE).value
          IN [k \in DOMAIN value |-> Term(m, operands, value[k])]],
   mem |-> [c \in Cells |->
     IF LaneWrites(effects, c) = {} THEN m.mem[c]
     ELSE LET p == CHOOSE q \in LaneWrites(effects, c) : TRUE
          IN Term(m, operands, p[1].value[p[2]])]]

-----------------------------------------------------------------------------
(* The architecture, over whole operands: d is the destination, s the      *)
(* source, both of four lanes (of a 32-bit source only the first counts).  *)
Arithmetic ==
  {<<"add", "addps", "addss">>, <<"subtract", "subps", "subss">>,
   <<"multiply", "mulps", "mulss">>, <<"divide", "divps", "divss">>,
   <<"minimum", "minps", "minss">>, <<"maximum", "maxps", "maxss">>,
   <<"bit_and", "andps", "">>, <<"bit_and_not", "andnps", "">>,
   <<"bit_or", "orps", "">>, <<"bit_xor", "xorps", "">>,
   <<"sqrt", "sqrtps", "sqrtss">>, <<"approximate_reciprocal", "rcpps", "rcpss">>,
   <<"approximate_reciprocal_sqrt", "rsqrtps", "rsqrtss">>}
ArithmeticOf(m) == {p \in Arithmetic : m \in {p[2], p[3]} \ {""}}
OneSource == {"sqrt", "approximate_reciprocal", "approximate_reciprocal_sqrt"}
Compute(op, x, y) == IF op \in OneSource THEN <<op, y>> ELSE <<op, x, y>>

Loaded(mnemonic, d, s, immediate, fromMemory) ==
  CASE \E p \in ArithmeticOf(mnemonic) : p[2] = mnemonic ->
         LET p == CHOOSE q \in ArithmeticOf(mnemonic) : TRUE
         IN [l \in 1..4 |-> Compute(p[1], d[l], s[l])]
    [] \E p \in ArithmeticOf(mnemonic) : p[3] = mnemonic ->
         LET p == CHOOSE q \in ArithmeticOf(mnemonic) : TRUE
         IN [d EXCEPT ![1] = Compute(p[1], d[1], s[1])]
    [] mnemonic \in {"movaps", "movups"} -> s
    [] mnemonic = "movss" ->
         IF fromMemory THEN <<s[1], <<"zero">>, <<"zero">>, <<"zero">> >> ELSE [d EXCEPT ![1] = s[1]]
    [] mnemonic = "shufps" ->
         [l \in 1..4 |-> (IF l <= 2 THEN d ELSE s)[1 + ((immediate \div <<1, 4, 16, 64>>[l]) % 4)]]
    [] mnemonic = "unpcklps" -> <<d[1], s[1], d[2], s[2]>>
    [] mnemonic = "unpckhps" -> <<d[3], s[3], d[4], s[4]>>

ScalarSource(mnemonic) ==
  mnemonic = "movss" \/ \E p \in ArithmeticOf(mnemonic) : p[3] = mnemonic
Contents(m, o, mnemonic) ==
  IF o.kind = "register" THEN m.xmm[o.name]
  ELSE [l \in 1..4 |-> IF ScalarSource(mnemonic) /\ l > 1 THEN <<"none">> ELSE m.mem[Cell(o, l - 1)]]

(* A store of movss writes one lane, of the others four.                   *)
Instructed(m, u) ==
  LET target == u.operands[1]  source == u.operands[2]
      s == Contents(m, source, u.mnemonic)
      cells == {Cell(target, l) : l \in IF u.mnemonic = "movss" THEN {0} ELSE Lanes}
  IN IF target.kind = "memory"
     THEN [m EXCEPT !.mem = [c \in Cells |->
             IF c \in cells THEN s[1 + (c[2] - target.displacement) \div 4] ELSE m.mem[c]]]
     ELSE [m EXCEPT !.xmm[target.name] =
             Loaded(u.mnemonic, m.xmm[target.name], s,
                    IF Len(u.operands) = 3 THEN u.operands[3].value ELSE 0, source.kind = "memory")]

(* The instructions of the architecture, whatever values they hold; an     *)
(* encoding has eight bits for an immediate, 32 for a displacement.        *)
HasInstruction(u) ==
  LET n == Len(u.operands)  m == u.mnemonic
      moves == {"movaps", "movups", "movss"}
  IN /\ m \in moves \cup {"shufps", "unpcklps", "unpckhps"} \/ ArithmeticOf(m) # {}
     /\ n = IF m = "shufps" THEN 3 ELSE 2
     /\ \/ IsXmm(u.operands[1]) /\ (IsXmm(u.operands[2]) \/ IsAddress(u.operands[2]))
        \/ m \in moves /\ IsAddress(u.operands[1]) /\ IsXmm(u.operands[2])
     /\ m = "shufps" => u.operands[3].kind = "immediate"
ValuesFit(u) ==
  \A k \in DOMAIN u.operands :
    LET o == u.operands[k]
    IN /\ o.kind = "immediate" => o.value < 256
       /\ o.kind = "memory" => o.displacement \in -(MaxEncoded + 1)..MaxEncoded
Encodable(u) == HasInstruction(u) /\ ValuesFit(u)
OutOfRange(u) == HasInstruction(u) /\ ~ValuesFit(u)

-----------------------------------------------------------------------------
Looked(how, u, f, operands, error, effects) ==
  [how |-> how, instruction |-> u, form |-> f, operands |-> operands,
   error |-> error, effects |-> effects]

MachineInit ==
  /\ machine = [xmm |-> [x \in XmmNames |-> [l \in 1..4 |-> <<x[1], x[2], l>>]],
                mem |-> [c \in Cells |-> <<"cell", c>>]]
  /\ architecture = machine
  /\ executed = 0
  /\ last = Looked("none", Unresolved("none", <<>>), 0, <<>>, "ok", <<>>)

(* resolve, then semantics; the effects take place.  Out of range, the     *)
(* architecture is taken to add the displacement as it is, and to look at  *)
(* the low eight bits of the immediate.                                    *)
Step(u) ==
  \E r \in {Resolve(u)} : \E s \in {Semantics(r.form, r.operands)} :
     /\ r.error = "ok"
     /\ last' = Looked("resolved", u, r.form, r.operands, s.error, s.effects)
     /\ machine' = Execute(machine, r.operands, s.effects)
     /\ architecture' = IF HasInstruction(u) THEN Instructed(architecture, u) ELSE architecture
     /\ executed' = executed + 1
(* The resolver gives up; nothing is executed any more.                    *)
Refuse(u) ==
  \E r \in {Resolve(u)} :
     /\ r.error # "ok"
     /\ last' = Looked("refused", u, 0, <<>>, r.error, <<>>)
     /\ executed' = MaxInstructions
     /\ UNCHANGED <<machine, architecture>>
(* semantics of an instruction built by hand, which executes nothing, so   *)
(* once, at the start, is as good as at any time.                          *)
Examine(b) ==
  \E s \in {Semantics(b.form, b.operands)} :
     /\ executed = 0
     /\ last' = Looked("built", Unresolved("none", <<>>), b.form, b.operands, s.error, s.effects)
     /\ executed' = MaxInstructions
     /\ UNCHANGED <<machine, architecture>>

MachineNext ==
  /\ executed < MaxInstructions
  /\ \/ \E u \in Instructions : Step(u) \/ Refuse(u)
     \/ \E b \in Built : Examine(b)
MachineSpec == MachineInit /\ [][MachineNext]_machineVars

-----------------------------------------------------------------------------
AcceptedForm == last.error = "ok" /\ last.form # 0
Written == last.effects[Len(last.effects)]
Inputs(effect) == UNION {ToSet(effect.value[k].inputs) : k \in DOMAIN effect.value}
ReadsOld == \E input \in Inputs(Written) : input[1] = "old"
KeepsUpperLanes ==
  Len(Written.value) = 4 /\ \A l \in 1..3 : Written.value[l + 1] = CopyLane(OldLane(l))

(* Whatever is accepted ends in one write, of the first operand, of as     *)
(* many lanes as the destination has (validate_vector_value).              *)
MachineTypeOK ==
  /\ executed \in 0..MaxInstructions
  /\ DOMAIN machine.xmm = XmmNames /\ DOMAIN machine.mem = Cells
  /\ AcceptedForm =>
       /\ Written.kind \in {"register_write", "memory_write"}
       /\ Written.operand = last.operands[1]
       /\ 32 * Len(Written.value) = last.operands[1].width

(* Registers and memory are at every moment what the architecture says,    *)
(* for every lane of every form, whatever earlier instructions wrote and   *)
(* wherever memory operands overlap what they wrote (x86_tests.cpp, "match *)
(* native packed and scalar intrinsics").                                  *)
MatchesArchitecture == MachineTypeOK /\ machine = architecture

(* The resolver accepts every instruction there is an encoding for, and    *)
(* of the others exactly those that only lack room for a value, which it   *)
(* does not look at.  An accepted instruction matches one form only, so    *)
(* the order of the forms and the preference among them never decide, and  *)
(* the semantic provider refuses none.                                     *)
ResolvesTheEncodable ==
  LET u == last.instruction
  IN /\ last.how = "resolved" =>
          /\ Encodable(u) \/ OutOfRange(u)
          /\ {f \in DOMAIN Forms : FormMatches(Forms[f], u)} = {last.form}
          /\ last.error = "ok"
     /\ last.how = "refused" => ~Encodable(u) /\ ~OutOfRange(u)

(* A form's access to its destination is what its effects do, and a write  *)
(* that merges is one that keeps the upper lanes (x86_tests.cpp, "marks    *)
(* overwritten destinations as write-only"); movss is declared for both of *)
(* its sources at once.                                                    *)
AccessDeclared ==
  AcceptedForm =>
    LET form == Forms[last.form]
        loadsMemory == form.mnemonic = "movss" /\ last.operands[2].kind = "memory"
    IN /\ ReadsOld => form.operands[1].access = "read_write"
       /\ ~ReadsOld /\ ~loadsMemory => form.operands[1].access = "write"
       /\ Written.merges = KeepsUpperLanes

(* An instruction reads no lane its source operand does not have, and      *)
(* announces a read of memory exactly when a lane comes from there; this   *)
(* also of instructions built by hand, whatever their operands.            *)
LanesWithinSource ==
  AcceptedForm =>
    /\ \A input \in Inputs(Written) :
         input[1] = "source" => 32 * (input[2] + 1) <= last.operands[2].width
    /\ (last.operands[2].kind = "memory") = (\E k \in DOMAIN last.effects :
          last.effects[k].kind = "memory_read" /\ last.effects[k].operand = last.operands[2])

(* Effects read and write what the form declares, and lanes the operands   *)
(* have.                                                                   *)
EffectsDeclared == AccessDeclared /\ LanesWithinSource
=============================================================================
