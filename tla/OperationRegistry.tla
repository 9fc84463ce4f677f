-------------------------- MODULE OperationRegistry --------------------------
(***************************************************************************)
(* What operation_catalogue_builder promises.  A key and a name lead to at *)
(* most one operation each, a batch enters as a whole or not at all, an    *)
(* entry never changes or goes away, and once the registry is sealed       *)
(* nothing is added.                                                       *)
(***************************************************************************)
EXTENDS Naturals, FiniteSets

CONSTANTS
  Definitions,       \* what can be registered: records with a key and a name
  Acceptable(_)      \* the definitions that may be registered

VARIABLES
  known,             \* from keys to definitions
  named,             \* from names to definitions
  sealed

vars == <<known, named, sealed>>

Init == known = <<>> /\ named = <<>> /\ sealed = FALSE

(* The entries, pairs of a label and a definition, join those of f, which  *)
(* has none of their labels.                                               *)
Extends(f, g, Entries) ==
  /\ DOMAIN g = DOMAIN f \cup {e[1] : e \in Entries}
  /\ \A x \in DOMAIN f : x \notin {e[1] : e \in Entries} /\ g[x] = f[x]
  /\ \A e \in Entries : g[e[1]] = e[2]

Register(S) ==
  /\ ~sealed /\ UNCHANGED sealed
  /\ \A d \in S : Acceptable(d)
  /\ Extends(known, known', {<<d.key, d>> : d \in S})
  /\ Extends(named, named', {<<d.name, d>> : d \in S})

Seal == ~sealed /\ sealed' = TRUE /\ UNCHANGED <<known, named>>

Next == (\E S \in SUBSET Definitions : Register(S)) \/ Seal

Spec == Init /\ [][Next]_vars
=============================================================================
