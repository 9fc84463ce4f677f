--------------------------- MODULE MCProgramBuilder ---------------------------
(* Two functions, three blocks, two instructions, two edges.             *)
EXTENDS ProgramBuilder
=============================================================================
