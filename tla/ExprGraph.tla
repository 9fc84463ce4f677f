------------------------------ MODULE ExprGraph ------------------------------
(***************************************************************************)
(* The IR's expression graph and its builder (lib/ir/expression_graph.cpp, *)
(* lib/ir/graph_builder.cpp, lib/ir/validation.cpp).  A graph is the       *)
(* append-only sequence of its nodes: node_id::index() is the position,    *)
(* and 0 stands for an absent node_id (std::nullopt).  The builder does    *)
(* not intern: every call that succeeds appends a new node.                *)
(*                                                                         *)
(* A node keeps, next to what the code stores, the value it denotes: val   *)
(* is Meaning of its operation on the values of its operands when it was   *)
(* built.  No behaviour reads val; the properties do.                      *)
(***************************************************************************)
EXTENDS Naturals, Sequences, FiniteSets

CONSTANTS
  Operations,        \* operation symbols, attributes included
  Merges,            \* the payload kind merge_node
  Leaves,            \* constants, symbols, external values, unknowns
  Types,             \* value_type
  Values,            \* what a node can denote
  Meaning(_, _),     \* Meaning(op, vals): the value op yields on vals
  Signature(_, _, _),\* Signature(op, types, type): validate_application
  MaxArity           \* bound: no node has more operands

Symbols == Operations \cup Merges \cup Leaves

ValueSeqs == UNION {[1..n -> Values] : n \in 0..MaxArity}

ASSUME ArityAssumption == MaxArity \in Nat
ASSUME KindsDisjoint ==
  /\ Operations \cap Merges = {}
  /\ Operations \cap Leaves = {}
  /\ Merges \cap Leaves = {}
ASSUME MeaningAssumption ==
  \A op \in Symbols : \A vals \in ValueSeqs : Meaning(op, vals) \in Values

None == 0                                    \* an absent node_id

(* rewrite_subject, and the arguments of graph_builder::apply.             *)
Expr == [op : Symbols, type : Types, args : Seq(Nat)]

Node == [op : Symbols, type : Types, args : Seq(Nat), val : Values]

Graph == Seq(Node)

ExprOf(node) == [op |-> node.op, type |-> node.type, args |-> node.args]

ArgTypes(g, args) == [k \in DOMAIN args |-> g[args[k]].type]
ArgVals(g, args)  == [k \in DOMAIN args |-> g[args[k]].val]

Denotes(g, e) == Meaning(e.op, ArgVals(g, e.args))

(* What graph_builder checks before it appends.                            *)
Buildable(g, e) ==
  /\ Len(e.args) <= MaxArity
  /\ \A k \in DOMAIN e.args : e.args[k] \in DOMAIN g
  /\ Signature(e.op, ArgTypes(g, e.args), e.type)

(* graph_builder::make_constant ... apply, when the checks succeed.        *)
Build(g, e) ==
  Append(g, [op |-> e.op, type |-> e.type, args |-> e.args,
             val |-> Denotes(g, e)])

(* validate_graph: operands are earlier nodes of the same graph.           *)
ValidNode(g, n) ==
  /\ \A k \in DOMAIN g[n].args : g[n].args[k] \in 1..(n - 1)
  /\ Buildable(g, g[n])

Validates(g) == \A n \in DOMAIN g : ValidNode(g, n)

(* Every node denotes what its operation yields on its operands.           *)
WellFormed(g) ==
  \A n \in DOMAIN g : ValidNode(g, n) /\ g[n].val = Denotes(g, g[n])

(* h is g with nodes appended: what any sequence of builder calls yields.  *)
ExtendsGraph(h, g) ==
  /\ Len(g) <= Len(h)
  /\ \A n \in DOMAIN g : h[n] = g[n]

Elements(q) == {q[i] : i \in DOMAIN q}

(* The nodes the depth-first search of worklist_engine::run marks: those   *)
(* it starts from and the operands of marked ones, which are earlier nodes.*)
Reachable(g, from) ==
  LET marked[n \in DOMAIN g] ==
        \/ n \in from
        \/ \E m \in (n + 1)..Len(g) : n \in Elements(g[m].args) /\ marked[m]
  IN {n \in DOMAIN g : marked[n]}

(* The elements of a finite set of numbers in ascending order, as the one  *)
(* element of a set: each stands at its rank, so that they ascend and none *)
(* is left out.                                                            *)
Ranked(S) ==
  [i \in 1..Cardinality(S) |-> CHOOSE s \in S : Cardinality({t \in S : t <= s}) = i]
Ascending(S) ==
  {q \in {Ranked(S)} :
     /\ q \in [1..Cardinality(S) -> S]
     /\ \A i, j \in DOMAIN q : i < j => q[i] < q[j]
     /\ \A s \in S : \E i \in DOMAIN q : q[i] = s}
=============================================================================
