------------------------------- MODULE MCRules -------------------------------
(***************************************************************************)
(* A small term language for the runs of Worklist and Canonicalizer, and   *)
(* two rule sets for it.  A value is the pair of booleans a term has under *)
(* x = FALSE and x = TRUE.                                                 *)
(***************************************************************************)
EXTENDS Naturals, Sequences, FiniteSets

McOperations == {"not", "xor"}
McMerges == {"phi"}
McLeaves == {"x", "zero", "flag"}
McTypes  == {"i", "b"}
McValues == BOOLEAN \X BOOLEAN

McMeaning(op, vals) ==
  CASE op = "not" /\ Len(vals) = 1 -> [i \in 1..2 |-> ~vals[1][i]]
    [] op = "xor" /\ Len(vals) = 2 -> [i \in 1..2 |-> vals[1][i] # vals[2][i]]
    [] op = "phi" /\ Len(vals) = 2 -> <<vals[1][1], vals[2][2]>>
    [] op \in {"x", "flag"} -> <<FALSE, TRUE>>
    [] OTHER -> <<FALSE, FALSE>>

McSignature(op, types, type) ==
  CASE op = "flag" -> types = <<>> /\ type = "b"
    [] op \in McLeaves -> types = <<>> /\ type = "i"
    [] op = "not" -> types = <<type>>
    [] OTHER -> types = <<type, type>>

G == INSTANCE ExprGraph WITH
       Operations <- McOperations, Merges <- McMerges, Leaves <- McLeaves,
       Types <- McTypes, Values <- McValues, Meaning <- McMeaning,
       Signature <- McSignature, MaxArity <- 2

E(op, args) == [op |-> op, type |-> IF op = "flag" THEN "b" ELSE "i",
                args |-> args]
X == E("x", <<>>)
Zero == E("zero", <<>>)

MkGraph(exprs) ==
  LET g[n \in 0..Len(exprs)] ==
        IF n = 0 THEN <<>> ELSE G!Build(g[n - 1], exprs[n])
  IN g[Len(exprs)]

(* Structural equality of nodes (ir::structural_context::equal).           *)
SameTerm(g, a, b) ==
  LET same[p \in (DOMAIN g) \X (DOMAIN g)] ==
        LET n == g[p[1]] m == g[p[2]]
        IN n.op = m.op /\ Len(n.args) = Len(m.args)
             /\ \A k \in DOMAIN n.args : same[<<n.args[k], m.args[k]>>]
  IN same[<<a, b>>]

Result(kind, g, node, to) == [kind |-> kind, graph |-> g, node |-> node, to |-> to]
Decline(e, g) == Result("no_match", g, 0, e)

Rank(op) == CASE op = "x" -> 1 [] op = "not" -> 2 [] op = "xor" -> 3
              [] op = "phi" -> 4 [] OTHER -> 5

(* Rules shaped as the built-in ones: identity_elimination, same_operand,  *)
(* commutative_ordering, an involution, and the two faulty rules of        *)
(* tests/unit/canonicalizer/worklist_tests.cpp.                            *)
RuleResult(r, e, g) ==
  LET Op(n) == g[e.args[n]].op
      fits == e.op = "xor" /\ Len(e.args) = 2
  IN CASE r = "identity" /\ fits /\ Op(2) = "zero" -> Result("replace", g, e.args[1], e)
       [] r = "identity" /\ fits /\ Op(1) = "zero" -> Result("replace", g, e.args[2], e)
       [] r = "same" /\ fits /\ SameTerm(g, e.args[1], e.args[2]) ->
            Result("replace", G!Build(g, Zero), Len(g) + 1, e)
       [] r = "order" /\ fits /\ Rank(Op(2)) < Rank(Op(1)) ->
            Result("rebuild", g, 0, E("xor", <<e.args[2], e.args[1]>>))
       [] r = "involution" /\ e.op = "not" /\ Op(1) = "not" ->
            Result("replace", g, g[e.args[1]].args[1], e)
       [] r = "oscillate" /\ fits -> Result("rebuild", g, 0, E("xor", <<e.args[2], e.args[1]>>))
       [] r = "grow" /\ e.op = "not" ->
            LET h == G!Build(g, e)
            IN Result("rebuild", G!Build(h, E("not", <<Len(h)>>)), 0, E("not", <<Len(h) + 1>>))
       [] OTHER -> Decline(e, g)

McOutcomes(r, e, g) == {RuleResult(r, e, g)}

(* A rule bound by its contract only.                                      *)
AnyOutcomes(r, e, g) ==
  (* operand 0 is a foreign node_id; node Len + 1 does not exist           *)
  LET graphs == {g, G!Build(g, Zero)} \cup {G!Build(g, E("not", <<n>>)) : n \in {1, Len(g)}}
      exprs(h) == {E("not", <<n>>) : n \in 0..Len(h)}
                   \cup {E("xor", <<n, m>>) : n \in 1..2, m \in {1, Len(h)}}
      all == UNION {
        {Result("no_match", h, 0, e), Result("invalid", h, 0, e)}
          \cup {Result("replace", h, n, e) : n \in 0..(Len(h) + 1)}
          \cup {Result("rebuild", h, 0, t) : t \in exprs(h)} : h \in graphs}
      kept(o) == /\ ~G!Buildable(g, e) => o.kind \in {"no_match", "invalid"}
  IN {o \in all : kept(o)}
=============================================================================
