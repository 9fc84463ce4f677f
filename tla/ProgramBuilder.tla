---------------------------- MODULE ProgramBuilder ----------------------------
(***************************************************************************)
(* decoded_program_builder and decoded_program::validate                   *)
(* (lib/program/decoded_program.cpp).  An id is a position, 0 stands for   *)
(* an id of another program.  What an instruction does, names and          *)
(* addresses are left out.                                                 *)
(***************************************************************************)
EXTENDS Integers, Sequences, FiniteSets, Functions, FiniteSetsExt

CONSTANTS
  MaxFunctions, MaxBlocks, MaxInstructions, MaxEdges   \* bounds for TLC

ASSUME BoundsAssumption ==
  {MaxFunctions, MaxBlocks, MaxInstructions, MaxEdges} \subseteq Nat

VARIABLES
  architecture,          \* m_architecture is not empty
  functions,             \* m_functions: [entry, blocks]
  blocks,                \* m_blocks: [instrs, succs, preds]
  instructions,          \* how many m_instructions there are
  outcome,               \* of the last call: "ok" or a diagnostic code
  state                  \* "building", or what freeze made of it

vars == <<architecture, functions, blocks, instructions, outcome, state>>

Refuse(code) ==
  /\ outcome' = code
  /\ UNCHANGED <<architecture, functions, blocks, instructions, state>>

Init ==
  /\ architecture \in BOOLEAN
  /\ functions = <<>> /\ blocks = <<>> /\ instructions = 0
  /\ outcome = "ok" /\ state = "building"

-----------------------------------------------------------------------------
(* Until a function has a block, its entry is the program's first block.   *)
AddFunction(named) ==
  IF ~named THEN Refuse("invalid_function")
  ELSE /\ Len(functions) < MaxFunctions
       /\ functions' = Append(functions, [entry |-> 1, blocks |-> <<>>])
       /\ outcome' = "ok"
       /\ UNCHANGED <<architecture, blocks, instructions, state>>

NewBlock == [instrs |-> <<>>, succs |-> <<>>, preds |-> <<>>]

(* Fault: the entry is set only while it names no block at all.            *)
WithBlockLate(function, id) ==
  [entry |-> IF function.entry \in DOMAIN blocks THEN function.entry ELSE id,
   blocks |-> Append(function.blocks, id)]
WithBlock(function, id) ==
  [entry |-> IF function.blocks = <<>> THEN id ELSE function.entry,
   blocks |-> Append(function.blocks, id)]

AddBlock(f) ==
  IF f \notin DOMAIN functions THEN Refuse("invalid_function")
  ELSE /\ Len(blocks) < MaxBlocks
       /\ blocks' = Append(blocks, NewBlock)
       /\ functions' = [functions EXCEPT ![f] = WithBlock(@, Len(blocks) + 1)]
       /\ outcome' = "ok"
       /\ UNCHANGED <<architecture, instructions, state>>

Known(b) == b \in DOMAIN blocks

(* Fault: the id of the instruction before.                                *)
LastInstruction == instructions
NewInstruction == instructions + 1

Listed(block, i) ==
  [instrs |-> Append(block.instrs, i), succs |-> block.succs, preds |-> block.preds]

AddInstruction(b) ==
  IF ~Known(b) THEN Refuse("invalid_block")
  ELSE /\ instructions < MaxInstructions
       /\ instructions' = instructions + 1
       /\ blocks' = [blocks EXCEPT ![b] = Listed(@, NewInstruction)]
       /\ outcome' = "ok"
       /\ UNCHANGED <<architecture, functions, state>>

Edges == {e \in (DOMAIN blocks) \X (DOMAIN blocks) : e[2] \in Range(blocks[e[1]].succs)}

Already(a, b) == b \in Range(blocks[a].succs)

(* Fault: an edge from a block to itself is recorded on one side.          *)
LinkedOnce(a, b) ==
  [c \in DOMAIN blocks |->
     [instrs |-> blocks[c].instrs,
      succs |-> IF c = a THEN Append(blocks[c].succs, b) ELSE blocks[c].succs,
      preds |-> IF c = b /\ c # a THEN Append(blocks[c].preds, a) ELSE blocks[c].preds]]
Linked(a, b) ==
  [c \in DOMAIN blocks |->
     [instrs |-> blocks[c].instrs,
      succs |-> IF c = a THEN Append(blocks[c].succs, b) ELSE blocks[c].succs,
      preds |-> IF c = b THEN Append(blocks[c].preds, a) ELSE blocks[c].preds]]

AddEdge(a, b) ==
  IF ~Known(a) \/ ~Known(b) THEN Refuse("invalid_block")
  ELSE IF Already(a, b) THEN Refuse("duplicate_cfg_edge")
  ELSE /\ Cardinality(Edges) < MaxEdges
       /\ blocks' = Linked(a, b)
       /\ outcome' = "ok"
       /\ UNCHANGED <<architecture, functions, instructions, state>>

-----------------------------------------------------------------------------
(* decoded_program::validate, check by check: the code of the first one     *)
(* that fails.                                                             *)
First(codes) ==
  LET bad == {k \in DOMAIN codes : codes[k] # "ok"}
  IN IF bad = {} THEN "ok" ELSE codes[Min(bad)]

FunctionOf(b) == {f \in DOMAIN functions : b \in Range(functions[f].blocks)}

FunctionError(f) ==
  IF functions[f].blocks = <<>> \/ functions[f].entry \notin DOMAIN blocks
     \/ functions[f].entry \notin Range(functions[f].blocks)
  THEN "invalid_function"
  ELSE IF Range(functions[f].blocks) \subseteq DOMAIN blocks THEN "ok"
  ELSE "invalid_block_ref"

(* block_function: a block is listed twice, in one function or in two.     *)
OwnerError ==
  IF /\ \A f \in DOMAIN functions : IsInjective(functions[f].blocks)
     /\ \A b \in DOMAIN blocks : \A f, g \in FunctionOf(b) : f = g
  THEN "ok" ELSE "duplicate_block_ref"

(* Instructions that blocks before b, or b before position k, refer to.    *)
Referenced(b, k) ==
  (UNION {Range(blocks[c].instrs) : c \in 1..(b - 1)})
  \cup {blocks[b].instrs[j] : j \in 1..(k - 1)}

InstructionError(b, k) ==
  IF blocks[b].instrs[k] \notin 1..instructions THEN "invalid_instruction_ref"
  ELSE IF blocks[b].instrs[k] \in Referenced(b, k) THEN "duplicate_instruction_ref"
  ELSE "ok"

(* Fault: edges may lead into another function.                            *)
AnyFunction(b, c, back) ==
  IF c \notin DOMAIN blocks THEN "invalid_block_ref"
  ELSE IF b \notin Range(back) THEN "invalid_cfg_edge"
  ELSE "ok"

EdgeError(b, c, back) ==
  IF c \notin DOMAIN blocks THEN "invalid_block_ref"
  ELSE IF FunctionOf(b) # FunctionOf(c) \/ b \notin Range(back) THEN "invalid_cfg_edge"
  ELSE "ok"

BlockError(b) ==
  LET block == blocks[b]
  IN First(<<
       First([k \in DOMAIN block.instrs |-> InstructionError(b, k)]),
       First([k \in DOMAIN block.succs |->
                EdgeError(b, block.succs[k], blocks[block.succs[k]].preds)]),
       First([k \in DOMAIN block.preds |->
                EdgeError(b, block.preds[k], blocks[block.preds[k]].succs)]),
       IF IsInjective(block.succs) /\ IsInjective(block.preds) THEN "ok" ELSE "duplicate_cfg_edge">>)

Validate ==
  First(<<
    IF architecture THEN "ok" ELSE "invalid_architecture",
    First([f \in DOMAIN functions |-> FunctionError(f)]),
    OwnerError,
    First([b \in DOMAIN blocks |-> BlockError(b)]),
    IF \A i \in 1..instructions : \E b \in DOMAIN blocks : i \in Range(blocks[b].instrs)
    THEN "ok" ELSE "missing_instruction_ref">>)

Freeze ==
  /\ outcome' = Validate
  /\ state' = IF Validate = "ok" THEN "frozen" ELSE "rejected"
  /\ UNCHANGED <<architecture, functions, blocks, instructions>>

-----------------------------------------------------------------------------
Next ==
  /\ state = "building"
  /\ \/ \E named \in BOOLEAN : AddFunction(named)
     \/ \E f \in 0..MaxFunctions : AddBlock(f)
     \/ \E b \in 0..MaxBlocks : AddInstruction(b)
     \/ \E a, b \in 0..MaxBlocks : AddEdge(a, b)
     \/ Freeze

Spec == Init /\ [][Next]_vars

-----------------------------------------------------------------------------
Function == [entry : Nat \ {0}, blocks : Seq(1..Len(blocks))]
Block ==
  [instrs : Seq(1..instructions), succs : Seq(1..Len(blocks)), preds : Seq(1..Len(blocks))]
Outcomes ==
  {"ok", "invalid_architecture", "invalid_function", "invalid_block", "duplicate_cfg_edge",
   "invalid_block_ref", "duplicate_block_ref", "invalid_instruction_ref",
   "duplicate_instruction_ref", "invalid_cfg_edge", "missing_instruction_ref"}

TypeOK ==
  /\ architecture \in BOOLEAN /\ instructions \in Nat
  /\ functions \in Seq(Function) /\ blocks \in Seq(Block)
  /\ outcome \in Outcomes /\ state \in {"building", "frozen", "rejected"}

(* An edge is known at both of its ends or at neither, and once: stores    *)
(* are traced along successors and definitions along predecessors          *)
(* (lib/recovery/engine.cpp:221, 488), and the two must agree.             *)
Reciprocal ==
  \A a, b \in DOMAIN blocks :
    /\ b \in Range(blocks[a].succs) <=> a \in Range(blocks[b].preds)
    /\ IsInjective(blocks[a].succs) /\ IsInjective(blocks[a].preds)

(* A function that has blocks is entered at the first one it was given,    *)
(* however many blocks other functions were given before and since.        *)
EntryIsFirst ==
  \A f \in DOMAIN functions :
    functions[f].blocks # <<>> => functions[f].entry = functions[f].blocks[1]

(* No block and no instruction is listed twice, and lists are in the order *)
(* in which ids were given.                                                *)
BlockOf(i) == {b \in DOMAIN blocks : i \in Range(blocks[b].instrs)}
Ascends(s) == \A j, k \in DOMAIN s : j < k => s[j] < s[k]
ListedOnce ==
  /\ \A f \in DOMAIN functions : Ascends(functions[f].blocks)
  /\ \A b \in DOMAIN blocks : Ascends(blocks[b].instrs)
  /\ \A b \in DOMAIN blocks : \E f \in DOMAIN functions : FunctionOf(b) = {f}
  /\ \A i \in 1..instructions : \E b \in DOMAIN blocks : BlockOf(i) = {b}

(* Lists and entries are what the order of the calls makes them.           *)
ListsExact == EntryIsFirst /\ ListedOnce

(* The builder implements the control-flow graph; validate, with all its   *)
(* checks, accepts a built program exactly when every function has a block *)
(* and no edge leaves its function.                                        *)
Graph ==
  INSTANCE ControlFlowGraph WITH
    named <- architecture, functions <- Len(functions),
    parent <- [b \in DOMAIN blocks |-> CHOOSE f \in FunctionOf(b) : TRUE],
    home <- [i \in 1..instructions |-> CHOOSE b \in BlockOf(i) : TRUE],
    edges <- Edges
BuildsGraph == Graph!Spec
=============================================================================
