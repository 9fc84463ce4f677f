--------------------------- MODULE CanonicalContract ---------------------------
(***************************************************************************)
(* What a caller of engine::canonicalize is promised, whatever the rules,  *)
(* the budgets and the phases are.  promised lists what the roots of the   *)
(* call denote; denoted, what the roots of the result denote so far.       *)
(* Roots can be lost once, when the input is imported, and the others keep *)
(* their order and their meaning; after that the engine rewrites, adopts   *)
(* and compacts graphs without changing what any root denotes.             *)
(***************************************************************************)
EXTENDS Naturals, Sequences

VARIABLES promised, denoted, verdict

vars == <<promised, denoted, verdict>>

Verdicts == {"complete", "resource_exhausted", "invalid_input", "internal_failure"}

SubsequenceOf(t, s) ==
  \E q \in [DOMAIN t -> DOMAIN s] :
    /\ \A j, k \in DOMAIN t : j < k => q[j] < q[k]
    /\ \A k \in DOMAIN t : t[k] = s[q[k]]

Init == denoted = promised /\ verdict = "importing"

Import ==
  /\ verdict = "importing" /\ verdict' = "simplifying"
  /\ SubsequenceOf(denoted', promised)
  /\ UNCHANGED promised

Return ==
  /\ verdict \in {"importing", "simplifying"} /\ verdict' \in Verdicts
  /\ verdict' = "complete" => denoted = promised
  /\ UNCHANGED <<promised, denoted>>

Next == Import \/ Return

Spec == Init /\ [][Next]_vars
=============================================================================
