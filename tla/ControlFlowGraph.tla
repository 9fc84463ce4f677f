--------------------------- MODULE ControlFlowGraph ---------------------------
(***************************************************************************)
(* What decoded_program_builder promises: each block belongs to one        *)
(* function, each instruction to one block, and two blocks are joined by   *)
(* at most one edge each way.  The graph becomes a program when every      *)
(* function has a block and no edge leaves its function.                   *)
(***************************************************************************)
EXTENDS Naturals, Sequences

VARIABLES
  named,                 \* the architecture has a name
  functions,             \* how many
  parent,                \* the function of each block
  home,                  \* the block of each instruction
  edges,
  state                  \* "building", "frozen" or "rejected"

vars == <<named, functions, parent, home, edges, state>>

Init ==
  /\ named \in BOOLEAN /\ functions = 0 /\ parent = <<>> /\ home = <<>>
  /\ edges = {} /\ state = "building"

AddFunction ==
  /\ functions' = functions + 1
  /\ UNCHANGED <<named, parent, home, edges, state>>

AddBlock ==
  /\ \E f \in 1..functions : parent' = Append(parent, f)
  /\ UNCHANGED <<named, functions, home, edges, state>>

AddInstruction ==
  /\ \E b \in DOMAIN parent : home' = Append(home, b)
  /\ UNCHANGED <<named, functions, parent, edges, state>>

AddEdge ==
  /\ \E a, b \in DOMAIN parent : <<a, b>> \notin edges /\ edges' = edges \cup {<<a, b>>}
  /\ UNCHANGED <<named, functions, parent, home, state>>

IsProgram ==
  /\ named
  /\ \A f \in 1..functions : \E b \in DOMAIN parent : parent[b] = f
  /\ \A e \in edges : parent[e[1]] = parent[e[2]]

Freeze ==
  /\ state' = IF IsProgram THEN "frozen" ELSE "rejected"
  /\ UNCHANGED <<named, functions, parent, home, edges>>

Next ==
  /\ state = "building"
  /\ AddFunction \/ AddBlock \/ AddInstruction \/ AddEdge \/ Freeze

Spec == Init /\ [][Next]_vars
=============================================================================
