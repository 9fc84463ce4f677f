---------------------------- MODULE RuleCatalogue ----------------------------
(***************************************************************************)
(* rule_catalogue::create (lib/canonicalizer/rule_catalogue.cpp) and the   *)
(* plans that pass_scheduler (scheduler.cpp) makes of a catalogue.         *)
(***************************************************************************)
EXTENDS Sorting, SequencesExt

CONSTANTS
  RuleKeys,          \* keys of rule_id, in their order
  EmptyKey           \* the key without a character
ASSUME RuleKeysAssumption == RuleKeys \in Seq(STRING) /\ IsInjective(RuleKeys)

PassPhases == <<"validation", "local_simplification", "shape_normalization",
  "algebraic_collection", "domain_normalization", "cleanup", "verification">>
IsKnownPhase(phase) == phase \in ToSet(PassPhases)
PhaseIndex(phase) == CHOOSE i \in DOMAIN PassPhases : PassPhases[i] = phase
Once(phase) == phase \in {"validation", "verification"}

(* rewrite_rule: usable stands for a name and a function.                  *)
RuleEntry(id, phase, priority, usable) ==
  [id |-> id, phase |-> phase, priority |-> priority, usable |-> usable]
Ids(rules) == [k \in DOMAIN rules |-> rules[k].id]

(* Fault: the identifier is not looked at.                                 *)
AnyId(id) == TRUE
ValidId(id) == id # EmptyKey

BuiltinPhase(phase, names, priorities) ==
  [k \in DOMAIN names |-> RuleEntry(names[k], phase, priorities[k], TRUE)]
BuiltinRules ==
  BuiltinPhase("local_simplification",
    <<"copy_elimination", "identity_elimination", "annihilator_collapse",
      "bitwise_simplification", "same_operand_simplification", "constant_folding",
      "mixed_constant_aggregation">>, <<50, 100, 200, 225, 250, 300, 350>>) \o
  BuiltinPhase("shape_normalization",
    <<"subtraction_normalization", "associative_flattening", "commutative_ordering",
      "idempotent_deduplication">>, <<50, 100, 200, 300>>) \o
  BuiltinPhase("algebraic_collection",
    <<"coefficient_collection", "division_reciprocal_simplification",
      "square_simplification">>, <<100, 200, 300>>)

-----------------------------------------------------------------------------
(* create: the checks of one rule, then of its identifier among those      *)
(* before it.                                                              *)
RuleError(rules, k) ==
  CASE ~ValidId(rules[k].id) \/ ~rules[k].usable -> "invalid_rule"
    [] ValidId(rules[k].id) /\ rules[k].usable /\ ~IsKnownPhase(rules[k].phase) -> "invalid_phase"
    [] OTHER -> IF \E j \in 1..(k - 1) : rules[j].id = rules[k].id THEN "duplicate_rule" ELSE "ok"

CreateError(rules) ==
  LET bad == {k \in DOMAIN rules : RuleError(rules, k) # "ok"}
  IN IF bad = {} THEN "ok" ELSE RuleError(rules, CHOOSE k \in bad : \A j \in bad : k <= j)

IdBefore(a, b) ==
  \E i, j \in DOMAIN RuleKeys : RuleKeys[i] = a /\ RuleKeys[j] = b /\ i < j
(* Fault: what remains equal is left in the order of the offers.           *)
RunsBeforeByPriority(r, s) ==
  \/ PhaseIndex(r.phase) < PhaseIndex(s.phase)
  \/ r.phase = s.phase /\ r.priority < s.priority
RunsBefore(r, s) ==
  \/ PhaseIndex(r.phase) < PhaseIndex(s.phase)
  \/ /\ r.phase = s.phase
     /\ r.priority < s.priority \/ (r.priority = s.priority /\ IdBefore(r.id, s.id))

Sorted(rules) ==
  StableSorted(rules, {p \in (DOMAIN rules) \X (DOMAIN rules) : RunsBefore(rules[p[1]], rules[p[2]])})

Find(catalogue, id) == {r \in ToSet(catalogue) : r.id = id}

-----------------------------------------------------------------------------
(* pass_scheduler::pass_scheduler                                          *)
(* Fault: a plan also takes the rules of the phases before it.             *)
RulesUpTo(catalogue, phase) ==
  Picked(Ids(catalogue), {k \in DOMAIN catalogue : PhaseIndex(catalogue[k].phase) <= PhaseIndex(phase)})
RulesOf(catalogue, phase) ==
  Picked(Ids(catalogue), {k \in DOMAIN catalogue : catalogue[k].phase = phase})

PassPlans(catalogue) ==
  [p \in DOMAIN PassPhases |->
     [phase |-> PassPhases[p], once |-> Once(PassPhases[p]),
      rules |-> RulesOf(catalogue, PassPhases[p])]]

(* pass_scheduler::validate                                                *)
InvalidPlan(plans, catalogue) ==
  \E p \in DOMAIN plans : \E id \in ToSet(plans[p].rules) :
    \A r \in Find(catalogue, id) : r.phase # plans[p].phase
=============================================================================
