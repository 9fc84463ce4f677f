--------------------------- MODULE RecoverySemantics ---------------------------
(***************************************************************************)
(* What a recovered expression has to cover: the program is executed       *)
(* symbolically along every path from the entry block, and the term a lane *)
(* holds when the path arrives at the query's point must be one that the   *)
(* expression stands for.  Reference definitions, for TLC only.            *)
(***************************************************************************)
EXTENDS Recovery

CONSTANTS
  Cells,                 \* <<register, lane>>
  MaxPath                \* bound: blocks on a path

(* Paths from the entry to block b.                                        *)
Paths(prog, b) ==
  {p \in UNION {[1..n -> DOMAIN prog.blocks] : n \in 1..MaxPath} :
     /\ p[1] = prog.entry /\ p[Len(p)] = b
     /\ \A k \in 1..(Len(p) - 1) :
          \E s \in DOMAIN prog.blocks[p[k]].succs : prog.blocks[p[k]].succs[s] = p[k + 1]}

Undefined == <<"undefined">>
Cell(s, reg, lane) == IF <<reg, lane>> \in Cells THEN s.env[<<reg, lane>>] ELSE Undefined

(* The term of an operand, in the state before the instruction.  A store   *)
(* that only may alias counts unless the configuration says otherwise.     *)
InputTerm(s, instr, write, input) ==
  IF input.role = "old_destination" THEN Cell(s, write.dest.reg, write.dest.off + input.lane)
  ELSE IF input.operand \notin DOMAIN instr.operands THEN Undefined
  ELSE LET o == instr.operands[input.operand]
       IN CASE o.kind = "register" -> Cell(s, o.slice.reg, o.slice.off + input.lane)
            [] o.kind = "memory" ->
                 IF \E a \in s.stored : \/ Alias(a, o.address) = "must_alias"
                                         \/ /\ Alias(a, o.address) = "may_alias"
                                            /\ call.mayBarrier
                 THEN <<"stored">> ELSE <<"memory", o.address, input.lane>>
            [] OTHER -> Undefined

LaneTerm(s, instr, write, lane) ==
  IF lane \notin DOMAIN write.value.lanes THEN Undefined
  ELSE LET e == write.value.lanes[lane]
           inputs == [k \in DOMAIN e.inputs |-> InputTerm(s, instr, write, e.inputs[k])]
       IN CASE e.op = "zero" -> <<"zero">>
            [] e.op = "copy" -> IF inputs = <<>> THEN Undefined ELSE inputs[1]
            [] OTHER -> <<e.op, inputs>>

(* All effects of an instruction read the state before it.                 *)
Execute(s, instr) ==
  LET writes(c) == {e \in DOMAIN instr.effects :
                      /\ instr.effects[e].kind = "write"
                      /\ instr.effects[e].dest.reg = c[1]
                      /\ c[2] \in instr.effects[e].dest.off ..
                           (instr.effects[e].dest.off + instr.effects[e].dest.width - 1)}
      last(c) == CHOOSE e \in writes(c) : \A f \in writes(c) : f <= e
      write(c) == instr.effects[last(c)]
  IN [env |-> [c \in Cells |->
                 IF writes(c) = {} THEN s.env[c]
                 ELSE LaneTerm(s, instr, write(c), c[2] - write(c).dest.off + 1)],
      stored |-> s.stored \cup
                   {instr.effects[e].address :
                      e \in {f \in DOMAIN instr.effects : instr.effects[f].kind = "store"}}]

RECURSIVE Run(_, _, _)
(* The state after the first n instructions of a block.                    *)
Run(s, instrs, n) == IF n = 0 THEN s ELSE Execute(Run(s, instrs, n - 1), instrs[n])

RECURSIVE Arrive(_, _, _)
(* The state on entry to the k-th block of a path.                         *)
Arrive(prog, path, k) ==
  IF k = 1 THEN [env |-> [c \in Cells |-> <<"entry", c[1], c[2]>>], stored |-> {}]
  ELSE LET instrs == prog.blocks[path[k - 1]].instrs
       IN Run(Arrive(prog, path, k - 1), instrs, Len(instrs))

TermAt(prog, path, q) ==
  LET executed == IF q.point.phase = "after" THEN q.point.pos ELSE q.point.pos - 1
      s == Run(Arrive(prog, path, Len(path)), prog.blocks[q.point.block].instrs, executed)
  IN s.env[<<q.loc.reg, q.loc.off>>]

RECURSIVE StandsFor(_, _, _)
(* Whether the term is one that node n of g stands for.                    *)
StandsFor(g, n, term) ==
  CASE g[n].op = "unknown"  -> TRUE
    [] g[n].op = "external" -> term = g[n].note
    [] g[n].op = "zero"     -> term = <<"zero">>
    [] g[n].op = "merge"    -> \E k \in DOMAIN g[n].args : StandsFor(g, g[n].args[k], term)
    [] OTHER -> /\ term[1] = g[n].op /\ Len(term) = 2
                /\ \A k \in DOMAIN g[n].args : StandsFor(g, g[n].args[k], term[2][k])

(* A recovered value covers every path: whichever way the program comes to *)
(* the point, the lane holds a term that the expression stands for.  Every *)
(* cached answer is checked in the state that stores it; the graph under   *)
(* it never changes afterwards.  An answer that says it skipped a          *)
(* predecessor without instructions is exempt.                             *)
AnswersCover ==
  mode = "return" /\ cache # <<>> =>
    LET answer == cache[Len(cache)]
    IN answer.result.root # None /\ "empty_predecessor" \notin answer.result.diags =>
         \A path \in Paths(call.prog, answer.query.point.block) :
           StandsFor(graph, answer.result.root, TermAt(call.prog, path, answer.query))
=============================================================================
