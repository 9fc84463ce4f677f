-------------------------------- MODULE MCX86 --------------------------------
(***************************************************************************)
(* The parts of the x86 library side by side.  They share no state, so a   *)
(* part moves only while the others are in an initial state, and what is   *)
(* explored is the sum of their states.                                    *)
(***************************************************************************)
EXTENDS X86Machine, X86Registers, X86Tokenizer, X86Parser

-----------------------------------------------------------------------------
(* Two XMM registers and five cells behind rax; every form in every shape  *)
(* of operands, near misses of all kinds, and instructions built by hand.  *)
(* An encoding holds displacements up to 3, so that 4 has none.            *)
McXmms == 0..1
McBases == {<<"r", 0>>}
McCellOffsets == {0, 4, 8, 12, 16}

X(k) == NamedOperand(<<"xmm", k>>)
At(d) == AddressOperand(<<"r", 0>>, d)
TwoSourced == {Forms[f].mnemonic : f \in DOMAIN Forms} \ {"shufps"}
Moves == {"movaps", "movups", "movss"}

Good ==
  {Unresolved(m, <<d, s>>) : m \in TwoSourced, d \in {X(0)}, s \in {X(0), X(1), At(0), At(4)}}
    \cup {Unresolved(m, <<X(1), s>>) : m \in Moves \cup {"mulss", "unpckhps"}, s \in {X(0), At(4)}}
    \cup {Unresolved("shufps", <<X(0), s, ValueOperand(v)>>) :
            s \in {X(0), X(1), At(0)}, v \in {0, 27, 78, 228, 255, 283}}
    \cup {Unresolved(m, <<At(d), X(k)>>) : m \in Moves, d \in {0, 4}, k \in McXmms}
NearMisses ==
  {Unresolved(m, <<At(0), X(0)>>) : m \in {"addps", "addss", "sqrtps", "unpcklps"}}
    \cup {Unresolved(m, <<d, s>>) : m \in {"addps", "movss", "movaps"},
            d \in {X(0), NamedOperand(<<"e", 0>>), NamedOperand(<<"xmm", 99>>), At(0)},
            s \in {NamedOperand(<<"r", 0>>), NamedOperand(<<"mxcsr", 0>>), ValueOperand(1), At(0),
                   AddressOperand(<<"xmm", 0>>, 0), AddressOperand(<<"r", 99>>, 0)}}
    \cup {Unresolved("shufps", <<X(0), X(1)>>), Unresolved("shufps", <<X(0), X(1), X(0)>>),
          Unresolved("addps", <<X(0)>>), Unresolved("addps", <<>>), Unresolved("nop", <<>>),
          Unresolved("shufps", <<At(0), X(1), ValueOperand(0)>>)}
McInstructions == Good \cup NearMisses

BuiltOperands ==
  {RegisterOperand(<<"xmm", 0>>, 0, w) : w \in {0, 32, 128}}
    \cup {RegisterOperand(<<"xmm", 0>>, o, 128) : o \in {64, 200}}
    \cup {RegisterOperand(<<"r", 0>>, 0, 128), RegisterOperand(<<"none", 0>>, 0, 128),
          MemoryOperand(<<>>, 0, 128), MemoryOperand(<<"r", 0>>, 0, 32),
          MemoryOperand(<<"e", 0>>, 0, 32), MemoryOperand(<<"xmm", 0>>, 0, 128),
          ImmediateOperand(300, 8), UnsupportedOperand}
McBuilt ==
  [form : 0..(Len(Forms) + 1), operands : BuiltOperands \X BuiltOperands]
    \cup [form : {30}, operands : BuiltOperands \X BuiltOperands \X {ImmediateOperand(300, 8)}]

-----------------------------------------------------------------------------
(* Aliases of two general-purpose registers, an XMM register, a register   *)
(* of no catalogue; ranges at and past the ends of registers and integers. *)
McLocations ==
  {[kind |-> "register", reg |-> reg, bits |-> [offset |-> o, width |-> w]] :
     reg \in {<<"xmm", 0>>, <<"e", 0>>, <<"r", 0>>, <<"e", 8>>, <<"r", 8>>, <<"none", 0>>},
     o \in {0, 16, 31, 32, 128, 255}, w \in {0, 1, 16, 32, 64, 128, 240}}
    \cup {[kind |-> "memory", name |-> "stack"], [kind |-> "memory", name |-> "heap"]}
Anywhere == [kind |-> "memory", name |-> "stack"]

(* All texts of up to five characters: 0xa0, 00x, a newline between words. *)
McCharacters == {"0", "a", "x", "space", "newline", ",", "hash"}

(* Two identifiers; integers malformed, small, past the largest signed and *)
(* past the largest unsigned; up to eight tokens, so that a line has three *)
(* operands, or one of memory with a displacement and another one.         *)
McNames == {"addps", "rax"}
McValues == {-1, 3, 6, 9}

-----------------------------------------------------------------------------
mcVars == <<machineVars, relateVars, vars, parseVars>>

McInit ==
  /\ MachineInit /\ ParseInit
  /\ \/ lhs = Anywhere /\ RelateInit /\ Init
     \/ text = <<>> /\ RelateInit /\ Init

MachineRests == executed = 0
LocationsRest == lhs = Anywhere /\ relation = "unasked"
TokenizerRests == text = <<>>
ParserRests == parsed = <<>>

MachineMoves ==
  /\ LocationsRest /\ TokenizerRests /\ ParserRests
  /\ MachineNext /\ UNCHANGED <<relateVars, vars, parseVars>>
LocationsMove ==
  /\ MachineRests /\ TokenizerRests /\ ParserRests
  /\ RelateNext /\ UNCHANGED <<machineVars, vars, parseVars>>
TokenizerMoves ==
  /\ MachineRests /\ LocationsRest /\ ParserRests
  /\ Next /\ UNCHANGED <<machineVars, relateVars, parseVars>>
ParserMoves ==
  /\ MachineRests /\ LocationsRest /\ TokenizerRests
  /\ ParseNext /\ UNCHANGED <<machineVars, relateVars, vars>>

McNext == MachineMoves \/ LocationsMove \/ TokenizerMoves \/ ParserMoves

McSpec == McInit /\ [][McNext]_mcVars /\ WF_mcVars(TokenizerMoves)
=============================================================================
