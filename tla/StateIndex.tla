------------------------------ MODULE StateIndex ------------------------------
(***************************************************************************)
(* The decoded program as the recovery engine reads it: blocks with their  *)
(* edges, the definitions and stores that state_index_builder::build       *)
(* collects (lib/recovery/state_index.cpp), where a definition or a store  *)
(* reaches (the helpers of lib/recovery/engine.cpp), and the alias test of *)
(* lib/recovery/memory.cpp.                                                *)
(*                                                                         *)
(* A program is [entry, blocks]; a block is [instrs, preds, succs]; an     *)
(* instruction is [operands, effects].  Register slices are measured in    *)
(* lanes of 32 bits: [reg, off, width, lane], lane being <<>> or the       *)
(* descriptor <<index, count>>.                                            *)
(***************************************************************************)
EXTENDS Integers, Sequences, FiniteSets

CONSTANTS
  Registers,
  Types,                 \* value types
  LaneOps                \* operations that lane expressions name

(* What state_index_builder and the engine read of a program.              *)
Slice == [reg : Registers, off : Nat, width : Nat, lane : {<<>>} \cup (Nat \X Nat)]
Address == [base : Nat, disp : Int, width : Nat]
Operand ==
  [kind : {"register"}, slice : Slice] \cup [kind : {"memory"}, address : Address]
  \cup [kind : {"other"}]
LaneInput == [role : {"old_destination", "source"}, operand : Nat, lane : Nat]
LaneExpr == [op : LaneOps, inputs : Seq(LaneInput)]
VectorValue == [type : Types, count : Nat, lanes : Seq(LaneExpr)]
WriteEffect == [kind : {"write"}, dest : Slice, value : VectorValue]
StoreEffect == [kind : {"store"}, address : Address]
Instruction == [operands : Seq(Operand), effects : Seq(WriteEffect \cup StoreEffect)]
Block == [instrs : Seq(Instruction), preds : Seq(Nat), succs : Seq(Nat)]

(* Edges lead to blocks of the program.                                    *)
Program ==
  {p \in [entry : Nat, blocks : Seq(Block)] :
     \A b \in DOMAIN p.blocks :
       /\ \A k \in DOMAIN p.blocks[b].preds : p.blocks[b].preds[k] \in DOMAIN p.blocks
       /\ \A k \in DOMAIN p.blocks[b].succs : p.blocks[b].succs[k] \in DOMAIN p.blocks}

Instr(prog, at)  == prog.blocks[at.block].instrs[at.pos]
Effect(prog, d)  == Instr(prog, d).effects[d.effect]

(* Where effects of a kind stand: instruction and effect_index.            *)
EffectsOf(prog, kind) ==
  UNION {UNION {{[block |-> b, pos |-> i, effect |-> e] :
                   e \in {f \in DOMAIN prog.blocks[b].instrs[i].effects :
                            prog.blocks[b].instrs[i].effects[f].kind = kind}} :
                i \in DOMAIN prog.blocks[b].instrs} : b \in DOMAIN prog.blocks}

Definitions(prog) == EffectsOf(prog, "write")
Transitions(prog) == EffectsOf(prog, "store")

Point(at, phase) == [block |-> at.block, pos |-> at.pos, phase |-> phase]

(* definition_reaches_point, memory_transition_reaches_point               *)
ReachesPoint(d, point) ==
  /\ d.block = point.block
  /\ d.pos < point.pos \/ (d.pos = point.pos /\ point.phase = "after")

(* Of two effects in one block the later one.                              *)
NotAfter(d, e) == d.pos < e.pos \/ (d.pos = e.pos /\ d.effect <= e.effect)

(* semantic_provider::relate is equal or contains.                         *)
Contains(def, loc) ==
  /\ def.reg = loc.reg
  /\ def.off <= loc.off /\ loc.off + loc.width <= def.off + def.width

(* The definition that recover_uncached settles on, as a set of at most    *)
(* one: the last in the block before the point that contains the location. *)
Reaching(prog, loc, point) ==
  LET matching == {d \in Definitions(prog) :
                     ReachesPoint(d, point) /\ Contains(Effect(prog, d).dest, loc)}
  IN {d \in matching : \A e \in matching : NotAfter(e, d)}

BlockCanReach(prog, from, to) ==
  \A S \in SUBSET DOMAIN prog.blocks :
    /\ from \in S
    /\ \A b \in S : \A k \in DOMAIN prog.blocks[b].succs : prog.blocks[b].succs[k] \in S
    => to \in S

(* Fault: only the stores of the block itself are looked at.               *)
SameBlockOnly(prog, t, point) == ReachesPoint(t, point)

(* memory_transition_may_reach_point                                       *)
MayReach(prog, t, point) ==
  IF t.block = point.block THEN ReachesPoint(t, point)
  ELSE BlockCanReach(prog, t.block, point.block)

(* conservative_memory_alias_analysis::relate.  An address is              *)
(* [base, disp, width]: base 0 is none, width is in bits.                  *)
Alias(a, b) ==
  IF a = b THEN "must_alias"
  ELSE IF /\ a.base = b.base /\ a.base # 0 /\ a.width # 0 /\ b.width # 0
          /\ \/ a.disp + a.width \div 8 <= b.disp
             \/ b.disp + b.width \div 8 <= a.disp
       THEN "no_alias"
  ELSE "may_alias"

(* block_exit_point, as a set of at most one.                              *)
ExitPoint(prog, b) ==
  {[block |-> b, pos |-> i, phase |-> "after"] :
     i \in {n \in DOMAIN prog.blocks[b].instrs : n = Len(prog.blocks[b].instrs)}}

(* requested_lane                                                          *)
RequestedLane(loc) ==
  IF loc.lane # <<>> THEN loc.lane[1] ELSE IF loc.width = 1 THEN loc.off ELSE 0

(* lane_location                                                           *)
LaneLocation(base, lane, count) ==
  [reg |-> base.reg, off |-> base.off + lane, width |-> 1, lane |-> <<lane, count>>]
=============================================================================
