---------------------------- MODULE MCBuiltinCanon ----------------------------
(***************************************************************************)
(* The canonicalizer with its own rules and plans, on pairs of expressions *)
(* over i32 that differ in the order of commutative operands.              *)
(***************************************************************************)
EXTENDS Canonicalizer, MCWords, RuleCatalogue

McType == Type("i32", 0)
McApply(key, args) == Application(key, McType, args)
McRuleNames == ToSet(Ids(BuiltinRules))
McRuleKeys == Ids(BuiltinRules)
McPhasePlans == PassPlans(Sorted(BuiltinRules))
McBuiltinPlans ==
  [p \in DOMAIN McPhasePlans |->
     [rules |-> McPhasePlans[p].rules, enabled |-> TRUE, once |-> McPhasePlans[p].once]]

(* Node 4 is inner(a, b), node 5 its mirror image; node 6 is outer of node *)
(* 4 and c, node 7 its mirror image.  Operations that are not commutative  *)
(* stand as they are.                                                      *)
Mirror(key, args) == IF "commutative" \in Entry(key).traits THEN Reverse(args) ELSE args
McGraph(w, inner, a, b, outer, c) ==
  FoldLeft(Build, <<>>, <<McLeaf(<<"symbol", 1, 2>>, McType), McLeaf(<<"symbol", 2, 3>>, McType),
    McLeaf(<<"constant", FALSE, <<w>>>>, McType),
    McApply(inner, <<a, b>>), McApply(inner, Mirror(inner, <<a, b>>)),
    McApply(outer, <<4, c>>), McApply(outer, Mirror(outer, <<5, c>>))>>)

McFamilies == {{"add", "multiply", "subtract"}, {"bit_and", "bit_xor"},
               {"bit_and_not", "bit_or"}, {"minimum", "maximum"}, {"divide", "multiply"}}
McInputs ==
  UNION {{[graph |-> McGraph(w, inner, a, b, outer, c), roots |-> <<6, 7>>, accepted |-> TRUE] :
            w \in {0, 2}, a \in {2}, b \in 1..3, c \in 1..3, inner \in f, outer \in f} :
         f \in McFamilies}

-----------------------------------------------------------------------------
(* "canonicalization is structurally deterministic": expressions that      *)
(* differ in the order of commutative operands only both become stable,    *)
(* and have the same result.                                               *)
SameForm ==
  /\ ReachesStability
  /\ pc = "done" => StructurallyEqual(working, workingRoots[1], workingRoots[2])

(* What lies below the subject, alone and under other numbers.             *)
Below == Reachable(out, Elements(subject.args))
Renumbered == [n \in Below |-> Cardinality({j \in Below : j <= n})]
Alone ==
  [k \in 1..Cardinality(Below) |->
     LET node == out[CHOOSE n \in Below : Renumbered[n] = k]
     IN [node EXCEPT !.args = [j \in DOMAIN node.args |-> Renumbered[node.args[j]]]]]

(* What Worklist trusts a rule with is what the built-in rules do, on      *)
(* every subject that the engine brings them to; and they look at nothing  *)
(* but what is below the subject.                                          *)
RulesKeepContract ==
  stage = "rules" /\ ruleIx <= Len(pass.rules) =>
    /\ \A o \in OutcomesOf(Rule, subject, out) : Contract(subject, out, o)
    /\ LooksBelow(Rule, subject, out, Below)
    /\ Mirrors(out, Below, Alone, Renumbered)
    /\ SameElsewhere(Rule, subject, out, Below, Alone, Renumbered)
=============================================================================
