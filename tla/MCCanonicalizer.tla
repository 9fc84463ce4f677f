--------------------------- MODULE MCCanonicalizer ---------------------------
(* Canonicalizer over the term language of MCRules.                        *)
EXTENDS Canonicalizer, MCRules

McRules == {"identity", "same", "order", "involution", "oscillate", "grow"}
SoundRules == {"identity", "same", "order", "involution"}

McPlans == <<[rules |-> <<"identity", "involution", "oscillate">>, enabled |-> TRUE, once |-> FALSE],
             [rules |-> <<>>, enabled |-> TRUE, once |-> FALSE],
             [rules |-> <<"order", "same">>, enabled |-> TRUE, once |-> TRUE]>>

Call(exprs, rs) == [graph |-> MkGraph(exprs), roots |-> rs, accepted |-> TRUE]

Xor(a, b) == E("xor", <<a, b>>)
Not(a) == E("not", <<a>>)

(* Merges above something the rules reduce.                                *)
Phi(a, b) == E("phi", <<a, b>>)
MergeInputs == {Call(<<X, Zero, Xor(1, 2), Phi(3, 1)>>, <<4>>),
                Call(<<X, Zero, Phi(1, 2), Xor(2, 3)>>, <<4>>)}

(* Rules bound by their contract only, on calls that include a foreign     *)
(* root, a duplicate root, an unreachable node, a merge and a rejected     *)
(* configuration.                                                          *)
Flag == E("flag", <<>>)
AnyPlans == <<[rules |-> <<"identity", "grow", "same">>, enabled |-> TRUE, once |-> FALSE],
              [rules |-> <<"order">>, enabled |-> FALSE, once |-> FALSE],
              [rules |-> <<"involution">>, enabled |-> TRUE, once |-> TRUE]>>
AnyEnabled == {"identity", "same", "order", "involution"}
AnyInputs ==
  {Call(<<X, Zero, Xor(1, 2)>>, <<3>>),
   Call(<<X, Not(1), Flag, Phi(1, 2), Not(2)>>, <<3, 5, 4, 5>>),
   Call(<<X, Zero, Not(1), Xor(1, 3), Not(4)>>, <<3, 5, 1>>),
   Call(<<X, Flag, Not(1)>>, <<2, 3>>),
   Call(<<X, Not(1)>>, <<2, 3>>),
   [Call(<<X>>, <<1>>) EXCEPT !.accepted = FALSE]}
=============================================================================
