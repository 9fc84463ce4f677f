------------------------------ MODULE Scheduling ------------------------------
(***************************************************************************)
(* What an engine runs: rules are offered to rule_catalogue::create in any *)
(* order, a configuration (lib/canonicalizer/configuration.cpp) is changed *)
(* by its calls, and engine::canonicalize accepts or refuses the pair.     *)
(***************************************************************************)
EXTENDS RuleCatalogue

CONSTANTS
  OfferedRules,      \* bound: the rules a caller may offer
  MaxOffers,         \* bound: how many it offers
  DefaultRules,      \* available_rules() with enabled_by_default
  AllTraits,         \* operation_trait
  DefaultTraits,     \* those a configuration starts with
  Touched,           \* bound: the phases a caller enables and disables
  UnknownPhase       \* a pass_phase made from another number

VARIABLES
  offered,           \* the argument of create
  enabledRules,      \* m_enabled_rules
  enabledPhases,     \* m_enabled_phases
  enabledTraits      \* m_enabled_traits

scheduleVars == <<offered, enabledRules, enabledPhases, enabledTraits>>
configuration == <<enabledRules, enabledPhases, enabledTraits>>

AnyPhase == ToSet(PassPhases) \cup {UnknownPhase}

ASSUME OfferedRulesAssumption ==
  /\ OfferedRules \subseteq [id : ToSet(RuleKeys), phase : AnyPhase, priority : Int, usable : BOOLEAN]
  /\ UnknownPhase \notin ToSet(PassPhases) /\ Touched \subseteq AnyPhase
  /\ DefaultRules \subseteq ToSet(RuleKeys) \ {EmptyKey} /\ DefaultTraits \subseteq AllTraits

ScheduleInit ==
  /\ offered = <<>> /\ enabledRules = DefaultRules
  /\ enabledPhases = ToSet(PassPhases) /\ enabledTraits = DefaultTraits

Offer(rule) ==
  /\ Len(offered) < MaxOffers
  /\ offered' = Append(offered, rule)
  /\ UNCHANGED configuration

(* The setters of rules refuse an empty identifier and change nothing.     *)
EnableRule(id) ==
  /\ enabledRules' = IF ValidId(id) THEN enabledRules \cup {id} ELSE enabledRules
  /\ UNCHANGED <<offered, enabledPhases, enabledTraits>>
DisableRule(id) ==
  /\ enabledRules' = IF ValidId(id) THEN enabledRules \ {id} ELSE enabledRules
  /\ UNCHANGED <<offered, enabledPhases, enabledTraits>>

EnablePhase(phase) ==
  /\ enabledPhases' = enabledPhases \cup {phase}
  /\ UNCHANGED <<offered, enabledRules, enabledTraits>>
DisablePhase(phase) ==
  /\ enabledPhases' = enabledPhases \ {phase}
  /\ UNCHANGED <<offered, enabledRules, enabledTraits>>

(* The argument is a mask.                                                 *)
EnableTrait(mask) ==
  /\ enabledTraits' = enabledTraits \cup mask
  /\ UNCHANGED <<offered, enabledRules, enabledPhases>>
DisableTrait(mask) ==
  /\ enabledTraits' = enabledTraits \ mask
  /\ UNCHANGED <<offered, enabledRules, enabledPhases>>

ScheduleNext ==
  \/ \E rule \in OfferedRules : Offer(rule)
  \/ \E id \in ToSet(RuleKeys) : EnableRule(id) \/ DisableRule(id)
  \/ \E phase \in Touched : EnablePhase(phase) \/ DisablePhase(phase)
  \/ \E mask \in SUBSET AllTraits : EnableTrait(mask) \/ DisableTrait(mask)

ScheduleSpec == ScheduleInit /\ [][ScheduleNext]_scheduleVars

-----------------------------------------------------------------------------
(* configuration::validate                                                 *)
ConfigurationError ==
  IF \E phase \in enabledPhases : ~IsKnownPhase(phase) THEN "invalid_phase"
  ELSE IF \E id \in enabledRules : id = EmptyKey THEN "invalid_rule" ELSE "ok"

(* The validations with which engine::canonicalize starts.                 *)
Refusal(catalogue) ==
  IF ConfigurationError # "ok" THEN ConfigurationError
  ELSE IF InvalidPlan(PassPlans(catalogue), catalogue) THEN "invalid_plan"
  ELSE IF \E id \in enabledRules : Find(catalogue, id) = {} THEN "unknown_rule"
  ELSE "ok"

(* What the phase loop and the worklist take from plans and configuration: *)
(* the rules that run, phase by phase.                                     *)
RunList(catalogue) ==
  [p \in DOMAIN PassPhases |->
     LET rules == PassPlans(catalogue)[p].rules
     IN IF PassPhases[p] \in enabledPhases
        THEN Picked(rules, {k \in DOMAIN rules : rules[k] \in enabledRules})
        ELSE <<>>]

-----------------------------------------------------------------------------
Catalogue == Sorted(offered)
Created == CreateError(offered) = "ok"

(* No empty identifier gets into a configuration.                          *)
ScheduleTypeOK ==
  /\ offered \in Seq(OfferedRules) /\ enabledRules \subseteq ToSet(RuleKeys) \ {EmptyKey}
  /\ enabledPhases \subseteq AnyPhase /\ enabledTraits \subseteq AllTraits

(* "canonicalizer scheduler exposes deterministic typed phase plans": what *)
(* an engine runs does not depend on the order in which rules were         *)
(* offered, nor does whether the catalogue can be made at all.             *)
OffersCommute ==
  \A other \in Rearrangements(offered) :
    /\ (CreateError(other) = "ok") = Created
    /\ Created => PassPlans(Sorted(other)) = PassPlans(Catalogue)

(* Every rule has one turn in a sequence of phases with all enabled, and   *)
(* comes after every rule of an earlier phase, or of its own phase and a   *)
(* smaller priority.                                                       *)
RunPosition(id) ==
  {turn \in (DOMAIN PassPhases) \X (1..Len(offered)) :
     LET rules == PassPlans(Catalogue)[turn[1]].rules
     IN turn[2] \in DOMAIN rules /\ rules[turn[2]] = id}
Earlier(a, b) == a[1] < b[1] \/ (a[1] = b[1] /\ a[2] < b[2])
OneTurnEach ==
  Created =>
    /\ \A r \in ToSet(offered) : Cardinality(RunPosition(r.id)) = 1
    /\ \A r, s \in ToSet(offered) :
         (PhaseIndex(r.phase) < PhaseIndex(s.phase) \/ (r.phase = s.phase /\ r.priority < s.priority))
           => \A a \in RunPosition(r.id), b \in RunPosition(s.id) : Earlier(a, b)

(* An engine refuses a created catalogue only for a phase no one knows or  *)
(* for an enabled rule that it does not have; the rules it then runs are   *)
(* the enabled ones of enabled phases, none missing.                       *)
RefusedForCause ==
  Created =>
    /\ (Refusal(Catalogue) = "ok") =
         (UnknownPhase \notin enabledPhases /\ enabledRules \subseteq {r.id : r \in ToSet(offered)})
    /\ UNION {ToSet(RunList(Catalogue)[p]) : p \in DOMAIN PassPhases} =
         {r.id : r \in {s \in ToSet(offered) : s.id \in enabledRules /\ s.phase \in enabledPhases}}

(* Rules run in one order, each once, and those enabled.                   *)
RulesScheduled == ScheduleTypeOK /\ OffersCommute /\ OneTurnEach /\ RefusedForCause
=============================================================================
