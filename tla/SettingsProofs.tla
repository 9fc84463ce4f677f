---------------------------- MODULE SettingsProofs ----------------------------
(***************************************************************************)
(* Proofs about what an engine is set up with: rules in catalogues of any  *)
(* size, offered in any order, and the plans made of them; fields and      *)
(* attributes of any number.                                               *)
(***************************************************************************)
EXTENDS Attributes, Scheduling, SortingProofs

-----------------------------------------------------------------------------
(* The order of rules.                                                     *)
LEMMA Phases ==
  /\ \A phase \in ToSet(PassPhases) :
       PhaseIndex(phase) \in DOMAIN PassPhases /\ PassPhases[PhaseIndex(phase)] = phase
  /\ \A p \in DOMAIN PassPhases :
       PassPhases[p] \in ToSet(PassPhases) /\ PhaseIndex(PassPhases[p]) = p
  /\ DOMAIN PassPhases = 1..7
<1>1. DOMAIN PassPhases = 1..7
  BY DEF PassPhases
<1>2. \A phase \in ToSet(PassPhases) :
        PhaseIndex(phase) \in DOMAIN PassPhases /\ PassPhases[PhaseIndex(phase)] = phase
  BY DEF PhaseIndex, ToSet
<1>3. \A p \in DOMAIN PassPhases : PassPhases[p] \in ToSet(PassPhases)
  BY DEF ToSet
<1>4. \A p, o \in 1..7 : PassPhases[p] = PassPhases[o] => p = o
  BY DEF PassPhases
<1> QED
  BY <1>1, <1>2, <1>3, <1>4

Known == {r \in OfferedRules : IsKnownPhase(r.phase)}
ByTurn == {turn \in Known \X Known : RunsBefore(turn[1], turn[2])}

Place(id) == CHOOSE i \in DOMAIN RuleKeys : RuleKeys[i] = id

LEMMA RuleTypes ==
  ASSUME NEW r \in OfferedRules
  PROVE  /\ r.id \in ToSet(RuleKeys) /\ r.priority \in Int /\ r.usable \in BOOLEAN
         /\ r.phase \in AnyPhase
         /\ r = [id |-> r.id, phase |-> r.phase, priority |-> r.priority, usable |-> r.usable]
BY OfferedRulesAssumption

LEMMA IdsCompared ==
  ASSUME NEW a \in ToSet(RuleKeys), NEW b \in ToSet(RuleKeys)
  PROVE  /\ Place(a) \in Nat
         /\ IdBefore(a, b) <=> Place(a) < Place(b)
         /\ Place(a) = Place(b) => a = b
<1>0. DOMAIN RuleKeys = 1..Len(RuleKeys) /\ Len(RuleKeys) \in Nat
  BY RuleKeysAssumption
<1>1. /\ DOMAIN RuleKeys \subseteq Nat
      /\ \A i, j \in DOMAIN RuleKeys : RuleKeys[i] = RuleKeys[j] => i = j
  <2>1. DOMAIN RuleKeys \subseteq Nat
    BY <1>0
  <2> QED
    BY <2>1, RuleKeysAssumption, Zenon DEF IsInjective
<1>2. \A id \in ToSet(RuleKeys) : Place(id) \in DOMAIN RuleKeys /\ RuleKeys[Place(id)] = id
  BY DEF Place, ToSet
<1> QED
  BY <1>1, <1>2 DEF IdBefore

LEMMA RunsBeforeMeans ==
  ASSUME NEW r \in Known, NEW s \in Known
  PROVE  /\ PhaseIndex(r.phase) \in 1..7 /\ r.priority \in Int /\ Place(r.id) \in Nat
         /\ RunsBefore(r, s) <=>
              \/ PhaseIndex(r.phase) < PhaseIndex(s.phase)
              \/ /\ PhaseIndex(r.phase) = PhaseIndex(s.phase)
                 /\ r.priority < s.priority \/ (r.priority = s.priority /\ Place(r.id) < Place(s.id))
<1>1. r \in OfferedRules /\ s \in OfferedRules /\ r.phase \in ToSet(PassPhases) /\ s.phase \in ToSet(PassPhases)
  BY DEF Known, IsKnownPhase
<1>2. PhaseIndex(r.phase) = PhaseIndex(s.phase) <=> r.phase = s.phase
  BY <1>1, Phases
<1>3. IdBefore(r.id, s.id) <=> Place(r.id) < Place(s.id)
  BY <1>1, RuleTypes, IdsCompared
<1> QED
  BY <1>1, <1>2, <1>3, Phases, RuleTypes, IdsCompared DEF RunsBefore

LEMMA TurnsCompared ==
  /\ \A r, s \in Known : RunsBefore(r, s) => ~RunsBefore(s, r)
  /\ \A r, s, u \in Known : RunsBefore(r, u) => RunsBefore(r, s) \/ RunsBefore(s, u)
  /\ \A r, s \in Known : r.id # s.id => RunsBefore(r, s) \/ RunsBefore(s, r)
<1>1. ASSUME NEW r \in Known, NEW s \in Known
      PROVE  RunsBefore(r, s) => ~RunsBefore(s, r)
  BY RunsBeforeMeans
<1>2. ASSUME NEW r \in Known, NEW s \in Known, NEW u \in Known
      PROVE  RunsBefore(r, u) => RunsBefore(r, s) \/ RunsBefore(s, u)
  BY RunsBeforeMeans
<1>3. ASSUME NEW r \in Known, NEW s \in Known, r.id # s.id
      PROVE  RunsBefore(r, s) \/ RunsBefore(s, r)
  <2>1. r.id \in ToSet(RuleKeys) /\ s.id \in ToSet(RuleKeys)
    BY RuleTypes DEF Known
  <2>2. Place(r.id) # Place(s.id)
    BY <1>3, <2>1, IdsCompared
  <2> QED
    BY <2>2, RunsBeforeMeans
<1> QED
  BY <1>1, <1>2, <1>3

LEMMA ByTurnStrict == Strict(ByTurn)
BY TurnsCompared DEF Strict, ByTurn

-----------------------------------------------------------------------------
(* What a list of rules must be to become a catalogue.                     *)
Acceptable(rules, n) ==
  /\ \A k \in 1..n : rules[k].id # EmptyKey /\ rules[k].usable /\ IsKnownPhase(rules[k].phase)
  /\ \A j, k \in 1..n : j # k => rules[j].id # rules[k].id

LEMMA RuleAccepted ==
  ASSUME NEW n \in Nat, NEW rules \in [1..n -> OfferedRules], NEW k \in 1..n
  PROVE  RuleError(rules, k) = "ok" <=>
           /\ rules[k].id # EmptyKey /\ rules[k].usable /\ IsKnownPhase(rules[k].phase)
           /\ \A j \in 1..(k - 1) : rules[j].id # rules[k].id
BY DEF RuleError, ValidId

LEMMA CreateAccepts ==
  ASSUME NEW n \in Nat, NEW rules \in [1..n -> OfferedRules]
  PROVE  CreateError(rules) = "ok" <=> Acceptable(rules, n)
<1> DEFINE bad == {k \in 1..n : RuleError(rules, k) # "ok"}
           first == CHOOSE k \in bad : \A j \in bad : k <= j
<1>1. CreateError(rules) = IF bad = {} THEN "ok" ELSE RuleError(rules, first)
  BY DEF CreateError
<1>2. bad # {} => first \in bad
  <2>1. bad \in SUBSET Nat
    OBVIOUS
  <2> HIDE DEF bad
  <2> QED
    BY <2>1, LeastPosition
<1> HIDE DEF first
<1>3. CreateError(rules) = "ok" <=> \A k \in 1..n : RuleError(rules, k) = "ok"
  BY <1>1, <1>2
<1>4. ASSUME \A k \in 1..n : RuleError(rules, k) = "ok"
      PROVE  Acceptable(rules, n)
  <2>1. \A k \in 1..n : \A j \in 1..(k - 1) : rules[j].id # rules[k].id
    BY <1>4, RuleAccepted
  <2>2. ASSUME NEW j \in 1..n, NEW k \in 1..n, j # k
        PROVE  rules[j].id # rules[k].id
    <3>1. j \in 1..(k - 1) \/ k \in 1..(j - 1)
      BY <2>2
    <3> QED
      BY <2>1, <3>1
  <2> QED
    BY <1>4, <2>2, RuleAccepted DEF Acceptable
<1>5. ASSUME Acceptable(rules, n), NEW k \in 1..n
      PROVE  RuleError(rules, k) = "ok"
  <2>1. \A j \in 1..(k - 1) : j \in 1..n /\ j # k
    OBVIOUS
  <2> QED
    BY <1>5, <2>1, RuleAccepted DEF Acceptable
<1> QED
  BY <1>3, <1>4, <1>5

(* A catalogue: the rules offered, in the order of their turns.            *)
LEMMA CatalogueOrdered ==
  ASSUME NEW n \in Nat, NEW rules \in [1..n -> OfferedRules], Acceptable(rules, n)
  PROVE  /\ Sorted(rules) \in [1..n -> Known]
         /\ Elements(Sorted(rules)) = Elements(rules)
         /\ Ordered(Sorted(rules), ByTurn)
<1> DEFINE less == {p \in (1..n) \X (1..n) : RunsBefore(rules[p[1]], rules[p[2]])}
<1>1. Sorted(rules) = StableSorted(rules, less)
  BY DEF Sorted
<1>2. rules \in [1..n -> Known]
  BY DEF Acceptable, Known
<1>3. \A i, j \in 1..n : <<i, j>> \in less <=> RunsBefore(rules[i], rules[j])
  OBVIOUS
<1> HIDE DEF less
<1>4. WeakOrder(less, 1..n)
  BY <1>2, <1>3, TurnsCompared DEF WeakOrder
<1>5. Tells(less, rules, n, ByTurn)
  <2>1. \A i, j \in 1..n : <<i, j>> \in less => <<rules[i], rules[j]>> \in ByTurn
    BY <1>2, <1>3 DEF ByTurn
  <2>2. \A i, j \in 1..n : i # j => <<i, j>> \in less \/ <<j, i>> \in less
    BY <1>2, <1>3, TurnsCompared DEF Acceptable
  <2> QED
    BY <2>1, <2>2 DEF Tells
<1>6. Sortable(rules, n, less)
  BY <1>2, <1>4 DEF Sortable
<1> QED
  BY <1>1, <1>2, <1>5, <1>6, SortOrders

LEMMA CatalogueDistinct ==
  ASSUME NEW n \in Nat, NEW rules \in [1..n -> OfferedRules], Acceptable(rules, n)
  PROVE  \A k, l \in 1..n : Sorted(rules)[k].id = Sorted(rules)[l].id => k = l
<1> DEFINE c == Sorted(rules)
<1>1. c \in [1..n -> Known] /\ Elements(c) = Elements(rules) /\ Ordered(c, ByTurn)
  BY CatalogueOrdered
<1> HIDE DEF c
<1>2. SUFFICES ASSUME NEW k \in 1..n, NEW l \in 1..n, c[k].id = c[l].id, k # l
               PROVE  FALSE
  BY DEF c
<1>3. c[k] \in Elements(rules) /\ c[l] \in Elements(rules)
  BY <1>1 DEF Elements
<1>4. PICK i \in 1..n : rules[i] = c[k]
  BY <1>3 DEF Elements
<1>5. PICK j \in 1..n : rules[j] = c[l]
  BY <1>3 DEF Elements
<1>6. c[k] = c[l]
  BY <1>2, <1>4, <1>5 DEF Acceptable
<1>7. k < l \/ l < k
  BY <1>2
<1>8. <<c[k], c[l]>> \in ByTurn \/ <<c[l], c[k]>> \in ByTurn
  BY <1>1, <1>7 DEF Ordered
<1> QED
  BY <1>6, <1>8, ByTurnStrict DEF Strict

(* The plans of the phases, as the scheduler makes them.                   *)
At(c, n, p) == {k \in 1..n : c[k].phase = PassPhases[p]}

Plan(c, n, p, m, q) ==
  /\ Kept(q, m, At(c, n, p))
  /\ PassPlans(c)[p].rules = [k \in 1..m |-> c[q[k]].id]
Planned(c, n, p) == \E m \in 0..n : \E q : Plan(c, n, p, m, q)

LEMMA PlanKeeps ==
  ASSUME NEW n \in Nat, NEW c \in [1..n -> Known], NEW p \in 1..7
  PROVE  Planned(c, n, p)
<1>1. PICK at \in SUBSET (1..n) : at = At(c, n, p)
  BY DEF At
<1>2. PassPlans(c)[p].rules = Picked(Ids(c), at)
  BY <1>1, Phases DEF PassPlans, RulesOf, At
<1>3. Keeps(Picked(Ids(c), at), Ids(c), n, at)
  BY PickedInOrder
<1>4. PICK m \in 0..n : \E q :
        Kept(q, m, at) /\ Picked(Ids(c), at) = [k \in 1..m |-> Ids(c)[q[k]]]
  BY <1>3 DEF Keeps
<1>5. PICK q : Kept(q, m, at) /\ Picked(Ids(c), at) = [k \in 1..m |-> Ids(c)[q[k]]]
  BY <1>4
<1>6. \A k \in 1..m : Ids(c)[q[k]] = c[q[k]].id
  BY <1>5 DEF Kept, Ids
<1> QED
  BY <1>1, <1>2, <1>5, <1>6 DEF Planned, Plan

-----------------------------------------------------------------------------
(* The state as the next lemmas use it.                                    *)
LEMMA OffersTyped ==
  ASSUME ScheduleTypeOK
  PROVE  /\ Len(offered) \in Nat /\ offered \in [1..Len(offered) -> OfferedRules]
         /\ Created <=> Acceptable(offered, Len(offered))
<1>1. Len(offered) \in Nat /\ offered \in [1..Len(offered) -> OfferedRules]
  BY DEF ScheduleTypeOK
<1> QED
  BY <1>1, CreateAccepts DEF Created

LEMMA OffersInAnyOrder == ScheduleTypeOK => OffersCommute
<1> SUFFICES ASSUME ScheduleTypeOK, NEW other \in Rearrangements(offered)
             PROVE  /\ CreateError(other) = "ok" <=> Created
                    /\ Created => PassPlans(Sorted(other)) = PassPlans(Catalogue)
  <2>1. \A x : (x = "ok") \in BOOLEAN
    OBVIOUS
  <2> QED
    BY <2>1 DEF OffersCommute, Created
<1> DEFINE n == Len(offered)
<1>1. n \in Nat /\ offered \in [1..n -> OfferedRules] /\ (Created <=> Acceptable(offered, n))
  BY OffersTyped
<1> HIDE DEF n
<1>0. /\ other \in [1..n -> OfferedRules] /\ Elements(other) = Elements(offered)
      /\ Rearranged(other, offered, n)
  BY <1>1, RearrangedSame
<1>2. PICK p \in [1..n -> 1..n] :
        /\ other = [k \in 1..n |-> offered[p[k]]]
        /\ \A i \in 1..n : \E k \in 1..n : p[k] = i
        /\ \A k, l \in 1..n : k # l => p[k] # p[l]
  BY <1>0 DEF Rearranged
<1>3. CreateError(other) = "ok" <=> Acceptable(other, n)
  BY <1>0, <1>1, CreateAccepts
<1>4. Acceptable(offered, n) => Acceptable(other, n)
  BY <1>2 DEF Acceptable
<1>5. Acceptable(other, n) => Acceptable(offered, n)
  <2> SUFFICES ASSUME Acceptable(other, n) PROVE Acceptable(offered, n)
    OBVIOUS
  <2>1. \A i \in 1..n : \E k \in 1..n : p[k] = i /\ offered[i] = other[k]
    BY <1>2
  <2>2. ASSUME NEW i \in 1..n
        PROVE  offered[i].id # EmptyKey /\ offered[i].usable /\ IsKnownPhase(offered[i].phase)
    BY <2>1 DEF Acceptable
  <2>3. ASSUME NEW i \in 1..n, NEW j \in 1..n, i # j
        PROVE  offered[i].id # offered[j].id
    <3>1. PICK k \in 1..n : p[k] = i /\ offered[i] = other[k]
      BY <2>1
    <3>2. PICK l \in 1..n : p[l] = j /\ offered[j] = other[l]
      BY <2>1
    <3>3. k # l
      BY <2>3, <3>1, <3>2
    <3> QED
      BY <3>1, <3>2, <3>3 DEF Acceptable
  <2> QED
    BY <2>2, <2>3 DEF Acceptable
<1>6. ASSUME Created
      PROVE  PassPlans(Sorted(other)) = PassPlans(Catalogue)
  <2>1. Acceptable(offered, n) /\ Acceptable(other, n)
    BY <1>1, <1>4, <1>6
  <2> DEFINE a == Sorted(other)
             b == Sorted(offered)
  <2>2. /\ a \in [1..n -> Known] /\ Elements(a) = Elements(offered) /\ Ordered(a, ByTurn)
        /\ b \in [1..n -> Known] /\ Elements(b) = Elements(offered) /\ Ordered(b, ByTurn)
    BY <1>0, <1>1, <2>1, CatalogueOrdered
  <2> HIDE DEF a, b
  <2>3. a = b
    BY <1>1, <2>2, ByTurnStrict, OrderedUnique
  <2> QED
    BY <2>3 DEF a, b, Catalogue
<1> QED
  BY <1>1, <1>3, <1>4, <1>5, <1>6

(* Every place of the catalogue has one turn in the plans.                 *)
TurnOf(i, c, n, turn) ==
  /\ turn[1] = PhaseIndex(c[i].phase) /\ turn[1] \in 1..7 /\ turn[2] \in 1..n
  /\ RunPosition(c[i].id) = {turn}
HasTurn(i, c, n) ==
  \E m \in 0..n : \E q : \E k \in 1..m :
    /\ Plan(c, n, PhaseIndex(c[i].phase), m, q) /\ q[k] = i
    /\ TurnOf(i, c, n, <<PhaseIndex(c[i].phase), k>>)

LEMMA EveryTurn ==
  ASSUME ScheduleTypeOK, Created, NEW n, n = Len(offered), NEW c, c = Catalogue
  PROVE  /\ n \in Nat /\ c \in [1..n -> Known] /\ Elements(c) = ToSet(offered)
         /\ Ordered(c, ByTurn)
         /\ \A i \in 1..n : \E p \in 1..7, k \in 1..n : TurnOf(i, c, n, <<p, k>>)
         /\ \A i, j \in 1..n : \A a, b :
              TurnOf(i, c, n, a) /\ TurnOf(j, c, n, b) /\ i < j /\ c[i].phase = c[j].phase
                => a[2] < b[2]
<1>1. n \in Nat /\ offered \in [1..n -> OfferedRules] /\ Acceptable(offered, n)
  BY OffersTyped
<1>2. /\ c \in [1..n -> Known] /\ Elements(c) = Elements(offered) /\ Ordered(c, ByTurn)
      /\ \A k, l \in 1..n : c[k].id = c[l].id => k = l
  BY <1>1, CatalogueOrdered, CatalogueDistinct DEF Catalogue
<1>3. Elements(offered) = ToSet(offered)
  BY DEF Elements, ToSet
<1>4. \A i \in 1..n : c[i].phase \in ToSet(PassPhases)
  BY <1>2 DEF Known, IsKnownPhase
<1>5. ASSUME NEW i \in 1..n
      PROVE  HasTurn(i, c, n)
  <2>1. PICK p \in 1..7 : p = PhaseIndex(c[i].phase) /\ PassPhases[p] = c[i].phase
    BY <1>4, Phases
  <2>2. Planned(c, n, p)
    BY <1>1, <1>2, PlanKeeps
  <2>3. PICK m \in 0..n : \E q : Plan(c, n, p, m, q)
    BY <2>2 DEF Planned
  <2>4. PICK q : Plan(c, n, p, m, q)
    BY <2>3
  <2>5. i \in At(c, n, p)
    BY <2>1 DEF At
  <2>6. PICK k \in 1..m : q[k] = i
    BY <2>4, <2>5 DEF Plan, Kept
  <2>7. k \in 1..n /\ <<p, k>> \in RunPosition(c[i].id)
    BY <1>1, <2>1, <2>4, <2>6, Phases DEF Plan, RunPosition
  <2>8. ASSUME NEW turn \in RunPosition(c[i].id)
        PROVE  turn = <<p, k>>
    <3>1. PICK o \in 1..7, l \in 1..n :
            /\ turn = <<o, l>> /\ l \in DOMAIN PassPlans(c)[o].rules
            /\ PassPlans(c)[o].rules[l] = c[i].id
      BY Phases DEF RunPosition
    <3>2. Planned(c, n, o)
      BY <1>1, <1>2, PlanKeeps
    <3>3. PICK w \in 0..n : \E h : Plan(c, n, o, w, h)
      BY <3>2 DEF Planned
    <3>4. PICK h : Plan(c, n, o, w, h)
      BY <3>3
    <3>5. l \in 1..w /\ h[l] \in At(c, n, o) /\ c[h[l]].id = c[i].id
      BY <3>1, <3>4 DEF Plan, Kept
    <3>6. h[l] = i /\ c[i].phase = PassPhases[o]
      BY <1>2, <3>5 DEF At
    <3>7. o = p
      BY <2>1, <3>6, Phases
    <3>8. l \in 1..m /\ q[l] = i
      <4>1. PassPlans(c)[p].rules = [x \in 1..w |-> c[h[x]].id]
        BY <3>4, <3>7 DEF Plan
      <4>2. 1..w = 1..m
        BY <2>4, <4>1 DEF Plan
      <4>3. l \in 1..m /\ q[l] \in At(c, n, p) /\ c[q[l]].id = c[h[l]].id
        BY <2>4, <3>5, <4>1, <4>2 DEF Plan, Kept
      <4> QED
        BY <1>2, <3>5, <4>3 DEF At
    <3>9. l = k
      <4>1. ~(q[l] < q[k]) /\ ~(q[k] < q[l])
        BY <2>6, <3>8
      <4>2. ~(l < k) /\ ~(k < l)
        BY <2>4, <3>8, <4>1 DEF Plan, Kept
      <4> QED
        BY <3>8, <4>2
    <3> QED
      BY <3>1, <3>7, <3>9
  <2>9. TurnOf(i, c, n, <<p, k>>)
    BY <2>1, <2>7, <2>8 DEF TurnOf
  <2> QED
    BY <2>1, <2>4, <2>6, <2>9 DEF HasTurn
<1>6. \A i \in 1..n : \E p \in 1..7, k \in 1..n : TurnOf(i, c, n, <<p, k>>)
  <2> TAKE i \in 1..n
  <2>1. HasTurn(i, c, n)
    BY <1>5
  <2>2. \E k : TurnOf(i, c, n, <<PhaseIndex(c[i].phase), k>>)
    BY <2>1 DEF HasTurn
  <2> QED
    BY <2>2 DEF TurnOf
<1>7. ASSUME NEW i \in 1..n, NEW j \in 1..n, NEW a, NEW b,
             TurnOf(i, c, n, a), TurnOf(j, c, n, b), i < j, c[i].phase = c[j].phase
      PROVE  a[2] < b[2]
  <2> DEFINE p == PhaseIndex(c[i].phase)
  <2>0. HasTurn(i, c, n)
    BY <1>5
  <2>1. PICK m \in 0..n : \E q : \E k \in 1..m :
               Plan(c, n, p, m, q) /\ q[k] = i /\ TurnOf(i, c, n, <<p, k>>)
    BY <2>0 DEF HasTurn
  <2>2. PICK q : \E k \in 1..m : Plan(c, n, p, m, q) /\ q[k] = i /\ TurnOf(i, c, n, <<p, k>>)
    BY <2>1
  <2>3. PICK k \in 1..m : Plan(c, n, p, m, q) /\ q[k] = i /\ TurnOf(i, c, n, <<p, k>>)
    BY <2>2
  <2>4. c[i].phase = PassPhases[p]
    BY <1>4, Phases
  <2>5. j \in At(c, n, p)
    BY <1>7, <2>4 DEF At
  <2>6. PICK l \in 1..m : q[l] = j
    BY <2>3, <2>5 DEF Plan, Kept
  <2>7. k < l
    BY <1>7, <2>3, <2>6 DEF Plan, Kept
  <2>8. a = <<p, k>>
    BY <1>7, <2>3 DEF TurnOf
  <2>9. <<p, l>> \in RunPosition(c[j].id)
    <3>1. PassPlans(c)[p].rules[l] = c[j].id /\ l \in DOMAIN PassPlans(c)[p].rules
      BY <2>3, <2>6 DEF Plan
    <3>2. p \in DOMAIN PassPhases /\ l \in 1..n
      BY <1>1, <1>4, Phases
    <3> HIDE DEF p
    <3> QED
      BY <3>1, <3>2 DEF RunPosition
  <2>10. b = <<p, l>>
    BY <1>7, <2>9 DEF TurnOf
  <2> QED
    BY <2>7, <2>8, <2>10
<1> QED
  BY <1>1, <1>2, <1>3, <1>6, <1>7

LEMMA TurnsTaken == ScheduleTypeOK => OneTurnEach
<1> SUFFICES ASSUME ScheduleTypeOK, Created PROVE OneTurnEach
  BY DEF OneTurnEach
<1> DEFINE n == Len(offered)
           c == Catalogue
<1>1. /\ n \in Nat /\ c \in [1..n -> Known] /\ Elements(c) = ToSet(offered)
      /\ Ordered(c, ByTurn)
      /\ \A i \in 1..n : \E p \in 1..7, k \in 1..n : TurnOf(i, c, n, <<p, k>>)
      /\ \A i, j \in 1..n : \A a, b :
           TurnOf(i, c, n, a) /\ TurnOf(j, c, n, b) /\ i < j /\ c[i].phase = c[j].phase
             => a[2] < b[2]
  BY EveryTurn
<1> HIDE DEF n, c
<1>2. \A r \in ToSet(offered) : \E i \in 1..n : c[i] = r
  BY <1>1 DEF Elements
<1>3. ASSUME NEW r \in ToSet(offered)
      PROVE  Cardinality(RunPosition(r.id)) = 1
  <2>1. PICK i \in 1..n : c[i] = r
    BY <1>2
  <2>2. PICK p \in 1..7, k \in 1..n : TurnOf(i, c, n, <<p, k>>)
    BY <1>1
  <2>3. RunPosition(r.id) = {<<p, k>>}
    BY <2>1, <2>2 DEF TurnOf
  <2> QED
    BY <2>3, FS_Singleton
<1>4. ASSUME NEW r \in ToSet(offered), NEW s \in ToSet(offered),
             PhaseIndex(r.phase) < PhaseIndex(s.phase) \/ (r.phase = s.phase /\ r.priority < s.priority),
             NEW a \in RunPosition(r.id), NEW b \in RunPosition(s.id)
      PROVE  Earlier(a, b)
  <2>1. PICK i \in 1..n : c[i] = r
    BY <1>2
  <2>2. PICK j \in 1..n : c[j] = s
    BY <1>2
  <2>3. PICK p \in 1..7, k \in 1..n : TurnOf(i, c, n, <<p, k>>)
    BY <1>1
  <2>4. PICK o \in 1..7, l \in 1..n : TurnOf(j, c, n, <<o, l>>)
    BY <1>1
  <2>5. /\ a = <<p, k>> /\ p = PhaseIndex(r.phase)
        /\ b = <<o, l>> /\ o = PhaseIndex(s.phase)
    BY <1>4, <2>1, <2>2, <2>3, <2>4 DEF TurnOf
  <2>6. CASE PhaseIndex(r.phase) < PhaseIndex(s.phase)
    BY <2>5, <2>6 DEF Earlier
  <2>7. CASE r.phase = s.phase /\ r.priority < s.priority
    <3>1. r \in Known /\ s \in Known
      BY <1>1, <2>1, <2>2
    <3>2. RunsBefore(r, s)
      BY <2>7, <3>1, RunsBeforeMeans
    <3>3. ~RunsBefore(s, r)
      BY <3>1, <3>2, TurnsCompared
    <3>4. i # j
      BY <2>1, <2>2, <3>2, <3>3
    <3>5. ~(j < i)
      BY <1>1, <2>1, <2>2, <3>3 DEF Ordered, ByTurn
    <3>6. i < j
      BY <1>1, <3>4, <3>5
    <3>7. k < l
      BY <1>1, <2>1, <2>2, <2>3, <2>4, <2>7, <3>6
    <3> QED
      BY <2>5, <2>7, <3>7 DEF Earlier
  <2> QED
    BY <1>4, <2>6, <2>7
<1> QED
  BY <1>3, <1>4 DEF OneTurnEach

(* The rules of a plan, as a set.                                          *)
Only(ids, S) == Picked(ids, {k \in DOMAIN ids : ids[k] \in S})

RunsOnly(c, n, p, S) ==
  ToSet(Only(PassPlans(c)[p].rules, S)) = {c[i].id : i \in At(c, n, p)} \cap S

LEMMA PlanHolds ==
  ASSUME NEW n \in Nat, NEW c \in [1..n -> Known], NEW p \in 1..7, NEW S
  PROVE  /\ ToSet(PassPlans(c)[p].rules) = {c[i].id : i \in At(c, n, p)}
         /\ RunsOnly(c, n, p, S)
<1> DEFINE rules == PassPlans(c)[p].rules
<1>1. Planned(c, n, p)
  BY PlanKeeps
<1>2. PICK m \in 0..n : \E q : Plan(c, n, p, m, q)
  BY <1>1 DEF Planned
<1>3. PICK q : Plan(c, n, p, m, q)
  BY <1>2
<1>4. rules = [k \in 1..m |-> c[q[k]].id] /\ Kept(q, m, At(c, n, p)) /\ m \in Nat
  BY <1>3 DEF Plan
<1>5. ToSet(rules) = {c[i].id : i \in At(c, n, p)}
  <2>1. \A k \in 1..m : q[k] \in At(c, n, p) /\ rules[k] = c[q[k]].id
    BY <1>4 DEF Kept
  <2>2. \A i \in At(c, n, p) : \E k \in 1..m : rules[k] = c[i].id
    BY <1>4 DEF Kept
  <2>3. DOMAIN rules = 1..m
    BY <1>4
  <2> HIDE DEF rules
  <2> QED
    BY <2>1, <2>2, <2>3 DEF ToSet
<1>6. DOMAIN rules = 1..m
  BY <1>4
<1> HIDE DEF rules
<1>7. ToSet(Only(rules, S)) = ToSet(rules) \cap S
  <2> DEFINE at == {k \in 1..m : rules[k] \in S}
  <2>1. at \in SUBSET (1..m)
    OBVIOUS
  <2>0. \A k : k \in at <=> k \in 1..m /\ rules[k] \in S
    OBVIOUS
  <2>10. Only(rules, S) = Picked(rules, at)
    BY <1>6 DEF Only
  <2> HIDE DEF at
  <2>2. Keeps(Picked(rules, at), rules, m, at)
    BY <1>4, <2>1, PickedInOrder
  <2>3. PICK w \in 0..m : \E h : Kept(h, w, at) /\ Picked(rules, at) = [k \in 1..w |-> rules[h[k]]]
    BY <2>2 DEF Keeps
  <2>4. PICK h : Kept(h, w, at) /\ Picked(rules, at) = [k \in 1..w |-> rules[h[k]]]
    BY <2>3
  <2>5. ToSet(Picked(rules, at)) = {rules[h[k]] : k \in 1..w}
    BY <2>4 DEF ToSet
  <2>6. \A k \in 1..w : h[k] \in at
    BY <2>4 DEF Kept
  <2>7. \A i \in at : \E k \in 1..w : h[k] = i
    BY <2>4 DEF Kept
  <2>8. {rules[h[k]] : k \in 1..w} = {rules[i] : i \in at}
    BY <2>6, <2>7
  <2>9. {rules[i] : i \in at} = ToSet(rules) \cap S
    BY <1>6, <2>0 DEF ToSet
  <2> QED
    BY <2>5, <2>8, <2>9, <2>10
<1> QED
  BY <1>5, <1>7 DEF RunsOnly, rules

LEMMA RefusalsExplained == ScheduleTypeOK => RefusedForCause
<1> SUFFICES ASSUME ScheduleTypeOK, Created PROVE RefusedForCause
  BY DEF RefusedForCause
<1> DEFINE n == Len(offered)
           c == Catalogue
<1>1. n \in Nat /\ c \in [1..n -> Known] /\ Elements(c) = ToSet(offered)
  BY EveryTurn
<1> HIDE DEF n, c
<1>2. ToSet(c) = ToSet(offered)
  BY <1>1 DEF Elements, ToSet
<1>3. ~InvalidPlan(PassPlans(c), c)
  <2> SUFFICES ASSUME NEW p \in DOMAIN PassPlans(c), NEW id \in ToSet(PassPlans(c)[p].rules)
               PROVE  \E r \in Find(c, id) : r.phase = PassPlans(c)[p].phase
    BY DEF InvalidPlan
  <2>1. p \in 1..7 /\ PassPlans(c)[p].phase = PassPhases[p]
    BY Phases DEF PassPlans
  <2>2. ToSet(PassPlans(c)[p].rules) = {c[i].id : i \in At(c, n, p)}
    BY <1>1, <2>1, PlanHolds
  <2>3. PICK i \in At(c, n, p) : c[i].id = id
    BY <2>2
  <2>4. c[i] \in Find(c, id) /\ c[i].phase = PassPhases[p]
    BY <1>1, <2>3 DEF Find, ToSet, At
  <2> QED
    BY <2>1, <2>4
<1>4. ConfigurationError = "ok" <=> UnknownPhase \notin enabledPhases
  <2>1. \A phase \in enabledPhases : IsKnownPhase(phase) <=> phase # UnknownPhase
    BY OfferedRulesAssumption DEF ScheduleTypeOK, AnyPhase, IsKnownPhase
  <2>2. EmptyKey \notin enabledRules
    BY DEF ScheduleTypeOK
  <2> QED
    BY <2>1, <2>2 DEF ConfigurationError
<1>5. (\A id \in enabledRules : Find(c, id) # {}) <=> enabledRules \subseteq {r.id : r \in ToSet(offered)}
  BY <1>2 DEF Find
<1>6. Refusal(c) = "ok" <=>
        UnknownPhase \notin enabledPhases /\ enabledRules \subseteq {r.id : r \in ToSet(offered)}
  BY <1>3, <1>4, <1>5 DEF Refusal
<1>7. ASSUME NEW p \in 1..7
      PROVE  ToSet(RunList(c)[p]) =
               {id \in {c[i].id : i \in At(c, n, p)} : id \in enabledRules /\ PassPhases[p] \in enabledPhases}
  <2>1. RunList(c)[p] =
          IF PassPhases[p] \in enabledPhases
          THEN Only(PassPlans(c)[p].rules, enabledRules)
          ELSE <<>>
    BY Phases DEF RunList, Only
  <2>2. ToSet(<<>>) = {}
    BY DEF ToSet
  <2>3. CASE PassPhases[p] \in enabledPhases
    <3>1. RunsOnly(c, n, p, enabledRules)
      BY <1>1, PlanHolds
    <3> QED
      BY <2>1, <2>3, <3>1 DEF RunsOnly
  <2>4. CASE PassPhases[p] \notin enabledPhases
    BY <2>1, <2>2, <2>4
  <2> QED
    BY <2>3, <2>4
<1>8. UNION {ToSet(RunList(c)[p]) : p \in 1..7} =
        {r.id : r \in {s \in ToSet(offered) : s.id \in enabledRules /\ s.phase \in enabledPhases}}
  <2>1. ASSUME NEW p \in 1..7, NEW id \in ToSet(RunList(c)[p])
        PROVE  \E r \in ToSet(offered) : r.id = id /\ r.id \in enabledRules /\ r.phase \in enabledPhases
    <3>1. PICK i \in At(c, n, p) : c[i].id = id /\ id \in enabledRules /\ PassPhases[p] \in enabledPhases
      BY <1>7, <2>1
    <3>2. i \in 1..n /\ c[i].phase = PassPhases[p]
      BY <3>1 DEF At
    <3>3. c[i] \in ToSet(offered)
      BY <1>1, <1>2, <3>2 DEF ToSet
    <3> QED
      BY <3>1, <3>2, <3>3
  <2>2. ASSUME NEW r \in ToSet(offered), r.id \in enabledRules, r.phase \in enabledPhases
        PROVE  \E p \in 1..7 : r.id \in ToSet(RunList(c)[p])
    <3>1. PICK i \in 1..n : c[i] = r
      BY <1>1, <1>2 DEF ToSet
    <3>2. r.phase \in ToSet(PassPhases)
      BY <1>1, <3>1 DEF Known, IsKnownPhase
    <3>3. PICK p \in 1..7 : PassPhases[p] = r.phase
      BY <3>2, Phases
    <3>4. i \in At(c, n, p)
      BY <3>1, <3>3 DEF At
    <3> QED
      BY <1>7, <2>2, <3>1, <3>3, <3>4
  <2> QED
    BY <2>1, <2>2
<1>9. DOMAIN PassPhases = 1..7
  BY Phases
<1>10. (Refusal(c) = "ok") =
         (UnknownPhase \notin enabledPhases /\ enabledRules \subseteq {r.id : r \in ToSet(offered)})
  BY <1>6
<1> QED
  BY <1>8, <1>9, <1>10 DEF RefusedForCause, c

-----------------------------------------------------------------------------
LEMMA ScheduleTypes == ScheduleSpec => []ScheduleTypeOK
<1>1. ScheduleInit => ScheduleTypeOK
  <2>1. ToSet(PassPhases) \subseteq AnyPhase
    BY DEF AnyPhase
  <2> QED
    BY <2>1, OfferedRulesAssumption DEF ScheduleInit, ScheduleTypeOK
<1>2. ScheduleTypeOK /\ [ScheduleNext]_scheduleVars => ScheduleTypeOK'
  <2> SUFFICES ASSUME ScheduleTypeOK, [ScheduleNext]_scheduleVars PROVE ScheduleTypeOK'
    OBVIOUS
  <2> USE DEF ScheduleTypeOK
  <2>1. CASE UNCHANGED scheduleVars
    BY <2>1 DEF scheduleVars
  <2>2. ASSUME NEW rule \in OfferedRules, Offer(rule)
        PROVE  ScheduleTypeOK'
    BY <2>2 DEF Offer, configuration
  <2>3. ASSUME NEW id \in ToSet(RuleKeys), EnableRule(id) \/ DisableRule(id)
        PROVE  ScheduleTypeOK'
    BY <2>3 DEF EnableRule, DisableRule, ValidId
  <2>4. ASSUME NEW phase \in Touched, EnablePhase(phase) \/ DisablePhase(phase)
        PROVE  ScheduleTypeOK'
    BY <2>4, OfferedRulesAssumption DEF EnablePhase, DisablePhase
  <2>5. ASSUME NEW mask \in SUBSET AllTraits, EnableTrait(mask) \/ DisableTrait(mask)
        PROVE  ScheduleTypeOK'
    BY <2>5 DEF EnableTrait, DisableTrait
  <2> QED
    BY <2>1, <2>2, <2>3, <2>4, <2>5 DEF ScheduleNext
<1> QED
  BY <1>1, <1>2, PTL DEF ScheduleSpec

(* Rules and configurations of any number: what runs does not depend on    *)
(* the order of the offers, every rule has one turn, behind all rules of   *)
(* earlier phases and of smaller priorities, and an engine refuses its     *)
(* configuration only for an unknown phase or a rule it does not have.     *)
THEOREM SchedulesAreExact == ScheduleSpec => []RulesScheduled
<1>1. ScheduleTypeOK => RulesScheduled
  BY OffersInAnyOrder, TurnsTaken, RefusalsExplained DEF RulesScheduled
<1> QED
  BY <1>1, ScheduleTypes, PTL

-----------------------------------------------------------------------------
(* Items with keys: fields of a schema, attributes of an application.      *)
Items(S) == \A x \in S : x.key \in Nat

Keyed(items, n) ==
  /\ \A k \in 1..n : items[k].key # 0
  /\ \A j, k \in 1..n : j # k => items[j].key # items[k].key

ByItsKey(S) == {pair \in S \X S : KeyBefore(pair[1], pair[2])}

LEMMA ByItsKeyStrict ==
  ASSUME NEW S, Items(S)
  PROVE  Strict(ByItsKey(S))
BY DEF Strict, ByItsKey, KeyBefore, Items

LessKey(items, n) == {p \in (1..n) \X (1..n) : KeyBefore(items[p[1]], items[p[2]])}

LEMMA KeysSort ==
  ASSUME NEW n \in Nat, NEW S, Items(S), NEW items \in [1..n -> S]
  PROVE  /\ Normalized(items) = StableSorted(items, LessKey(items, n))
         /\ Sortable(items, n, LessKey(items, n))
         /\ \A i, j \in 1..n : <<i, j>> \in LessKey(items, n) <=> items[i].key < items[j].key
<1>1. \A i, j \in 1..n : <<i, j>> \in LessKey(items, n) <=> items[i].key < items[j].key
  BY DEF LessKey, KeyBefore
<1>2. Normalized(items) = StableSorted(items, LessKey(items, n))
  BY DEF Normalized, LessKey
<1>3. \A i \in 1..n : items[i].key \in Nat
  BY DEF Items
<1>4. WeakOrder(LessKey(items, n), 1..n)
  <2>1. ASSUME NEW i \in 1..n, NEW j \in 1..n, <<i, j>> \in LessKey(items, n)
        PROVE  <<j, i>> \notin LessKey(items, n)
    BY <1>1, <1>3, <2>1
  <2>2. ASSUME NEW i \in 1..n, NEW j \in 1..n, NEW k \in 1..n, <<i, k>> \in LessKey(items, n)
        PROVE  <<i, j>> \in LessKey(items, n) \/ <<j, k>> \in LessKey(items, n)
    <3>1. items[i].key < items[k].key
      BY <1>1, <2>2
    <3>2. items[i].key < items[j].key \/ items[j].key < items[k].key
      BY <1>3, <3>1
    <3> QED
      BY <1>1, <3>2
  <2> QED
    BY <2>1, <2>2 DEF WeakOrder
<1> QED
  BY <1>1, <1>2, <1>4 DEF Sortable

(* After sorting, to compare neighbours is to compare all.                 *)
LEMMA NeighboursTell ==
  ASSUME NEW n \in Nat, NEW S, Items(S), NEW items \in [1..n -> S]
  PROVE  KeysDiffer(items) <=> Keyed(items, n)
<1> DEFINE s == Normalized(items)
<1>1. \E p : Places(p, n, LessKey(items, n)) /\ Rearranges(s, items, p, n)
  BY KeysSort, SortRearranges
<1>2. PICK p : Places(p, n, LessKey(items, n)) /\ Rearranges(s, items, p, n)
  BY <1>1
<1>3. KeysDiffer(items) <=>
        \A k \in DOMAIN s : s[k].key # 0 /\ (k > 1 => s[k - 1].key # s[k].key)
  BY Zenon DEF KeysDiffer
<1> HIDE DEF s
<1>4. /\ p \in [1..n -> 1..n] /\ DOMAIN s = 1..n
      /\ \A i \in 1..n : \E k \in 1..n : p[k] = i
      /\ \A k, l \in 1..n : k < l => p[k] # p[l]
      /\ \A k \in 1..n : s[k] = items[p[k]]
  BY <1>2 DEF Places, Rearranges
<1>5. \A k \in 1..n : items[k].key \in Nat /\ s[k].key \in Nat
  BY <1>4 DEF Items
<1>6. \A k, l \in 1..n : k < l => s[k].key <= s[l].key
  <2> SUFFICES ASSUME NEW k \in 1..n, NEW l \in 1..n, k < l
               PROVE  s[k].key <= s[l].key
    OBVIOUS
  <2>1. <<p[k], p[l]>> \in LessKey(items, n) \/ <<p[l], p[k]>> \notin LessKey(items, n)
    BY <1>2 DEF Places
  <2>2. p[k] \in 1..n /\ p[l] \in 1..n
    BY <1>4
  <2>3. items[p[k]].key < items[p[l]].key \/ ~(items[p[l]].key < items[p[k]].key)
    BY <2>1, <2>2, KeysSort
  <2> QED
    <3>1. s[k].key < s[l].key \/ ~(s[l].key < s[k].key)
      BY <1>4, <2>3
    <3>2. s[k].key \in Nat /\ s[l].key \in Nat
      BY <1>5
    <3> QED
      BY <3>1, <3>2
<1>7. ASSUME Keyed(items, n)
      PROVE  KeysDiffer(items)
  <2>1. ASSUME NEW k \in 1..n
        PROVE  s[k].key # 0 /\ (k > 1 => s[k - 1].key # s[k].key)
    <3>1. p[k] \in 1..n /\ s[k] = items[p[k]]
      BY <1>4
    <3>2. s[k].key # 0
      BY <1>7, <3>1 DEF Keyed
    <3>3. ASSUME k > 1 PROVE s[k - 1].key # s[k].key
      <4>1. k - 1 \in 1..n /\ k - 1 < k
        BY <3>3
      <4>2. p[k - 1] # p[k] /\ p[k - 1] \in 1..n /\ s[k - 1] = items[p[k - 1]]
        BY <1>4, <4>1
      <4> QED
        BY <1>7, <3>1, <4>2 DEF Keyed
    <3> QED
      BY <3>2, <3>3
  <2> QED
    BY <1>3, <1>4, <2>1
<1>8. ASSUME KeysDiffer(items)
      PROVE  Keyed(items, n)
  <2>1. \A k \in 1..n : s[k].key # 0 /\ (k > 1 => s[k - 1].key # s[k].key)
    BY <1>3, <1>4, <1>8
  <2>2. ASSUME NEW k \in 1..n, NEW l \in 1..n, k < l
        PROVE  s[k].key < s[l].key
    <3>1. l - 1 \in 1..n /\ l > 1 /\ (k = l - 1 \/ k < l - 1)
      BY <2>2
    <3>2. s[k].key <= s[l - 1].key
      BY <1>5, <1>6, <3>1
    <3>3. s[l - 1].key <= s[l].key /\ s[l - 1].key # s[l].key
      BY <1>6, <2>1, <3>1
    <3> QED
      BY <1>5, <3>1, <3>2, <3>3
  <2>3. ASSUME NEW i \in 1..n
        PROVE  \E k \in 1..n : p[k] = i /\ items[i] = s[k]
    <3>1. PICK k \in 1..n : p[k] = i
      BY <1>4
    <3>2. s[k] = items[i]
      BY <1>4, <3>1
    <3> QED
      BY <3>1, <3>2
  <2>4. ASSUME NEW i \in 1..n, NEW j \in 1..n, i # j
        PROVE  items[i].key # items[j].key
    <3>1. PICK k \in 1..n : p[k] = i /\ items[i] = s[k]
      BY <2>3
    <3>2. PICK l \in 1..n : p[l] = j /\ items[j] = s[l]
      BY <2>3
    <3>3. k < l \/ l < k
      BY <2>4, <3>1, <3>2
    <3>4. s[k].key < s[l].key \/ s[l].key < s[k].key
      BY <2>2, <3>3
    <3> QED
      BY <1>5, <3>1, <3>2, <3>4
  <2> QED
    <3>1. ASSUME NEW i \in 1..n PROVE items[i].key # 0
      <4>1. PICK k \in 1..n : p[k] = i /\ items[i] = s[k]
        BY <2>3
      <4> QED
        BY <2>1, <4>1
    <3> QED
      BY <2>4, <3>1 DEF Keyed
<1> QED
  BY <1>7, <1>8

LEMMA NormalizedOrdered ==
  ASSUME NEW n \in Nat, NEW S, Items(S), NEW items \in [1..n -> S], Keyed(items, n)
  PROVE  /\ Normalized(items) \in [1..n -> S]
         /\ Elements(Normalized(items)) = Elements(items)
         /\ Ordered(Normalized(items), ByItsKey(S))
<1>1. Sortable(items, n, LessKey(items, n))
  BY KeysSort
<1>2. Tells(LessKey(items, n), items, n, ByItsKey(S))
  <2>1. \A i \in 1..n : items[i].key \in Nat
    BY DEF Items
  <2>2. \A i, j \in 1..n : <<i, j>> \in LessKey(items, n) => <<items[i], items[j]>> \in ByItsKey(S)
    BY KeysSort DEF ByItsKey, KeyBefore
  <2>3. \A i, j \in 1..n : i # j => <<i, j>> \in LessKey(items, n) \/ <<j, i>> \in LessKey(items, n)
    BY <2>1, KeysSort DEF Keyed
  <2> QED
    BY <2>2, <2>3 DEF Tells
<1> QED
  BY <1>1, <1>2, KeysSort, SortOrders

(* Items that are in order stay as they are.                               *)
LEMMA NormalizedOnce ==
  ASSUME NEW n \in Nat, NEW S, Items(S), NEW items \in [1..n -> S],
         Ordered(items, ByItsKey(S)), \A k \in 1..n : items[k].key # 0
  PROVE  Keyed(items, n) /\ Normalized(items) = items
<1>1. Keyed(items, n)
  <2>1. ASSUME NEW i \in 1..n, NEW j \in 1..n, i < j
        PROVE  items[i].key < items[j].key
    BY <2>1 DEF Ordered, ByItsKey, KeyBefore
  <2>2. \A i \in 1..n : items[i].key \in Nat
    BY DEF Items
  <2> QED
    BY <2>1, <2>2 DEF Keyed
<1> DEFINE t == Normalized(items)
<1>2. t \in [1..n -> S] /\ Elements(t) = Elements(items) /\ Ordered(t, ByItsKey(S))
  BY <1>1, NormalizedOrdered
<1> HIDE DEF t
<1>3. t = items
  BY <1>2, ByItsKeyStrict, OrderedUnique
<1> QED
  BY <1>1, <1>3 DEF t

(* The order in which items are given is lost.                             *)
LEMMA NormalizedSame ==
  ASSUME NEW n \in Nat, NEW S, Items(S), NEW items \in [1..n -> S],
         NEW other \in Rearrangements(items)
  PROVE  /\ other \in [1..n -> S] /\ Elements(other) = Elements(items)
         /\ Keyed(other, n) <=> Keyed(items, n)
         /\ Keyed(items, n) => Normalized(other) = Normalized(items)
<1>1. /\ other \in [1..n -> S] /\ Elements(other) = Elements(items)
      /\ Rearranged(other, items, n)
  BY RearrangedSame
<1>2. PICK p \in [1..n -> 1..n] :
        /\ other = [k \in 1..n |-> items[p[k]]]
        /\ \A i \in 1..n : \E k \in 1..n : p[k] = i
        /\ \A k, l \in 1..n : k # l => p[k] # p[l]
  BY <1>1 DEF Rearranged
<1>3. Keyed(items, n) => Keyed(other, n)
  BY <1>2 DEF Keyed
<1>4. ASSUME Keyed(other, n)
      PROVE  Keyed(items, n)
  <2>1. \A i \in 1..n : \E k \in 1..n : p[k] = i /\ items[i] = other[k]
    BY <1>2
  <2>2. ASSUME NEW i \in 1..n, NEW j \in 1..n, i # j
        PROVE  items[i].key # items[j].key
    <3>1. PICK k \in 1..n : p[k] = i /\ items[i] = other[k]
      BY <2>1
    <3>2. PICK l \in 1..n : p[l] = j /\ items[j] = other[l]
      BY <2>1
    <3>3. k # l
      BY <2>2, <3>1, <3>2
    <3> QED
      BY <1>4, <3>1, <3>2, <3>3 DEF Keyed
  <2> QED
    <3>1. ASSUME NEW i \in 1..n PROVE items[i].key # 0
      <4>1. PICK k \in 1..n : p[k] = i /\ items[i] = other[k]
        BY <2>1
      <4> QED
        BY <1>4, <4>1 DEF Keyed
    <3> QED
      BY <2>2, <3>1 DEF Keyed
<1>5. ASSUME Keyed(items, n)
      PROVE  Normalized(other) = Normalized(items)
  <2> DEFINE a == Normalized(other)
             b == Normalized(items)
  <2>1. /\ a \in [1..n -> S] /\ Elements(a) = Elements(items) /\ Ordered(a, ByItsKey(S))
        /\ b \in [1..n -> S] /\ Elements(b) = Elements(items) /\ Ordered(b, ByItsKey(S))
    BY <1>1, <1>3, <1>5, NormalizedOrdered
  <2> HIDE DEF a, b
  <2>2. a = b
    BY <2>1, ByItsKeyStrict, OrderedUnique
  <2> QED
    BY <2>2 DEF a, b
<1> QED
  BY <1>1, <1>3, <1>4, <1>5

(* Looking up a key among items in order finds the item that has it.       *)
LEMMA FoundIs ==
  ASSUME NEW n \in Nat, NEW S, Items(S), NEW items \in [1..n -> S],
         Ordered(items, ByItsKey(S)), NEW key
  PROVE  Found(items, key) = {x \in ToSet(items) : x.key = key}
<1>1. \A i, j \in 1..n : i < j => items[i].key < items[j].key
  BY DEF Ordered, ByItsKey, KeyBefore
<1>2. \A i \in 1..n : items[i].key \in Nat
  BY DEF Items
<1>3. ASSUME NEW i \in 1..n, NEW j \in 1..(i - 1)
      PROVE  KeyBefore(items[j], items[i])
  BY <1>1 DEF KeyBefore
<1>4. Found(items, key) = {items[k] : k \in {i \in 1..n : items[i].key = key}}
  BY <1>3 DEF Found
<1>5. ToSet(items) = {items[k] : k \in 1..n}
  BY DEF ToSet
<1> QED
  BY <1>4, <1>5

LEMMA OneOfAKey ==
  ASSUME NEW n \in Nat, NEW S, Items(S), NEW items \in [1..n -> S],
         Ordered(items, ByItsKey(S)), NEW x \in ToSet(items), NEW y \in ToSet(items), x.key = y.key
  PROVE  x = y
<1>1. PICK i \in 1..n : x = items[i]
  BY DEF ToSet
<1>2. PICK j \in 1..n : y = items[j]
  BY DEF ToSet
<1>3. \A k, l \in 1..n : k < l => items[k].key < items[l].key
  BY DEF Ordered, ByItsKey, KeyBefore
<1>4. x.key \in Nat /\ y.key \in Nat
  BY <1>1, <1>2 DEF Items
<1>5. ~(i < j) /\ ~(j < i)
  BY <1>1, <1>2, <1>3, <1>4
<1> QED
  BY <1>1, <1>2, <1>5

-----------------------------------------------------------------------------
LEMMA FieldTypes ==
  ASSUME NEW f \in Field
  PROVE  /\ f.key \in Nat /\ f.kind \in Kinds /\ f.required \in BOOLEAN
         /\ f.default \subseteq Values /\ \A v, w \in f.default : v = w
         /\ f.minimum \subseteq Int /\ f.maximum \subseteq Int
BY DEF Field, Optional

LEMMA HaveKeys == Items(Field) /\ Items(Attribute)
BY FieldTypes DEF Items, Attribute

LEMMA ValuesTyped ==
  ASSUME NEW v \in Values
  PROVE  v[1] = "integer" => v[2] \in Int
BY DEF Values

(* A schema and attributes as their create functions leave them.           *)
Sides(schema, n, attributes, m) ==
  /\ n \in Nat /\ schema \in [1..n -> Field] /\ Ordered(schema, ByItsKey(Field))
  /\ \A f \in ToSet(schema) : f.key # 0 /\ FieldAccepted(f)
  /\ m \in Nat /\ attributes \in [1..m -> Attribute] /\ Ordered(attributes, ByItsKey(Attribute))
  /\ \A a \in ToSet(attributes) : a.key # 0

LEMMA SideTypes ==
  ASSUME NEW schema, NEW n, NEW attributes, NEW m, Sides(schema, n, attributes, m)
  PROVE  /\ \A f \in ToSet(schema) : f \in Field
         /\ \A f, g \in ToSet(schema) : f.key = g.key => f = g
         /\ \A key : Found(schema, key) = {f \in ToSet(schema) : f.key = key}
         /\ \A a \in ToSet(attributes) : a \in Attribute
         /\ \A key : Found(attributes, key) = {a \in ToSet(attributes) : a.key = key}
<1> USE DEF Sides
<1>1. \A f \in ToSet(schema) : f \in Field
  BY DEF ToSet
<1>2. \A a \in ToSet(attributes) : a \in Attribute
  BY DEF ToSet
<1>3. \A f, g \in ToSet(schema) : f.key = g.key => f = g
  BY HaveKeys, OneOfAKey
<1>4. ASSUME NEW key
      PROVE  /\ Found(schema, key) = {f \in ToSet(schema) : f.key = key}
             /\ Found(attributes, key) = {a \in ToSet(attributes) : a.key = key}
  BY HaveKeys, FoundIs
<1> QED
  BY <1>1, <1>2, <1>3, <1>4

(* What the checks of one attribute come to.                               *)
LEMMA AttributeAccepted ==
  ASSUME NEW schema, NEW n, NEW attributes, NEW m, Sides(schema, n, attributes, m),
         NEW a
  PROVE  AttributeError(schema, a) = "ok" <=>
           \E f \in ToSet(schema) : f.key = a.key /\ ValueIsValidFor(f, a.value)
<1>1. Found(schema, a.key) = {f \in ToSet(schema) : f.key = a.key}
  BY SideTypes
<1>2. CASE Found(schema, a.key) = {}
  BY <1>1, <1>2 DEF AttributeError
<1>3. CASE Found(schema, a.key) # {}
  <2>1. PICK f \in ToSet(schema) : f.key = a.key
    BY <1>1, <1>3
  <2>2. Found(schema, a.key) = {f}
    BY <1>1, <2>1, SideTypes
  <2>3. (\E g \in ToSet(schema) : g.key = a.key /\ ValueIsValidFor(g, a.value))
          <=> ValueIsValidFor(f, a.value)
    BY <1>1, <2>1, <2>2
  <2>4. CASE KindOf(a.value) # f.kind
    BY <2>2, <2>3, <2>4 DEF AttributeError, ValueIsValidFor
  <2>5. CASE KindOf(a.value) = f.kind /\ ~ValueIsValidFor(f, a.value)
    <3>1. AttributeError(schema, a) =
            CASE KindOf(a.value) = "integer"  -> "range"
              [] KindOf(a.value) = "enum_key" -> "enum"
              [] OTHER -> "value"
      BY <2>2, <2>5 DEF AttributeError
    <3> QED
      BY <2>3, <2>5, <3>1
  <2>6. CASE ValueIsValidFor(f, a.value)
    <3>1. KindOf(a.value) = f.kind
      BY <2>6 DEF ValueIsValidFor
    <3> QED
      BY <2>2, <2>3, <2>6, <3>1 DEF AttributeError
  <2> QED
    BY <2>4, <2>5, <2>6
<1> QED
  BY <1>2, <1>3

(* What validate comes to.                                                 *)
Sound(schema, attributes) ==
  /\ \A a \in ToSet(attributes) : AttributeError(schema, a) = "ok"
  /\ \A f \in Missing(schema, attributes) : f.required => f.default # {}

LEMMA ValidateMeans ==
  ASSUME NEW schema, NEW n, NEW attributes, NEW m, Sides(schema, n, attributes, m)
  PROVE  /\ SchemaValidate(schema, attributes)[1] = "ok" <=> Sound(schema, attributes)
         /\ Sound(schema, attributes) =>
              SchemaValidate(schema, attributes) = <<"ok", WithDefaults(schema, attributes)>>
         /\ ~Sound(schema, attributes) => SchemaValidate(schema, attributes)[2] = <<>>
<1> DEFINE bad == {k \in DOMAIN attributes : AttributeError(schema, attributes[k]) # "ok"}
           first == CHOOSE k \in bad : \A j \in bad : k <= j
           lacks == \E f \in Missing(schema, attributes) : f.required /\ f.default = {}
<1>1. SchemaValidate(schema, attributes) =
        IF bad # {} THEN <<AttributeError(schema, attributes[first]), <<>>>>
        ELSE IF lacks THEN <<"required", <<>>>> ELSE <<"ok", WithDefaults(schema, attributes)>>
  BY DEF SchemaValidate
<1>2. DOMAIN attributes = 1..m /\ m \in Nat
  BY DEF Sides
<1>3. bad # {} => first \in bad
  <2>1. bad \in SUBSET Nat
    BY <1>2
  <2> HIDE DEF bad
  <2> QED
    BY <2>1, LeastPosition
<1> HIDE DEF first
<1>4. bad # {} => AttributeError(schema, attributes[first]) # "ok"
  BY <1>3
<1>5. Sound(schema, attributes) <=> bad = {} /\ ~lacks
  <2>1. (\A a \in ToSet(attributes) : AttributeError(schema, a) = "ok") <=> bad = {}
    BY DEF ToSet
  <2> QED
    BY <2>1 DEF Sound
<1> HIDE DEF bad, lacks
<1>6. CASE bad # {}
  BY <1>1, <1>4, <1>5, <1>6
<1>7. CASE bad = {} /\ lacks
  BY <1>1, <1>5, <1>7
<1>8. CASE bad = {} /\ ~lacks
  BY <1>1, <1>5, <1>8
<1> QED
  BY <1>6, <1>7, <1>8

-----------------------------------------------------------------------------
(* A finite set as a list.                                                 *)
LEMMA SetListed ==
  ASSUME NEW S, IsFiniteSet(S)
  PROVE  /\ Cardinality(S) \in Nat /\ SetToSeq(S) \in [1..Cardinality(S) -> S]
         /\ ToSet(SetToSeq(S)) = S
         /\ \A k, l \in 1..Cardinality(S) : k # l => SetToSeq(S)[k] # SetToSeq(S)[l]
<1> DEFINE c == Cardinality(S)
           list == SetToSeq(S)
<1>1. c \in Nat /\ ExistsBijection(1..c, S)
  BY FS_CardinalityType
<1>2. \E f \in [1..c -> S] : IsInjective(f)
  BY <1>1, Zenon DEF ExistsBijection, Bijection, Injection
<1>3. list \in [1..c -> S] /\ IsInjective(list)
  BY <1>2, Zenon DEF SetToSeq
<1> HIDE DEF list
<1>4. list \in Injection(1..c, S)
  BY <1>3, Zenon DEF Injection
<1>5. IsFiniteSet(1..c) /\ Cardinality(1..c) = c
  BY <1>1, FS_Interval
<1>6. list \in Surjection(1..c, S)
  BY <1>4, <1>5, FS_Injection
<1>7. ToSet(list) = S
  BY <1>3, <1>6 DEF Surjection, ToSet
<1>8. \A k, l \in 1..c : k # l => list[k] # list[l]
  BY <1>3 DEF IsInjective
<1> QED
  BY <1>1, <1>3, <1>7, <1>8 DEF list

DefaultSet(schema, attributes) ==
  UNION {{Entry(f.key, value) : value \in f.default} : f \in Missing(schema, attributes)}

LEMMA DefaultMembers ==
  ASSUME NEW schema, NEW n, NEW attributes, NEW m, Sides(schema, n, attributes, m)
  PROVE  /\ \A x \in DefaultSet(schema, attributes) :
              \E f \in Missing(schema, attributes) : \E v \in f.default : x = Entry(f.key, v)
         /\ \A f \in Missing(schema, attributes) : \A v \in f.default :
              Entry(f.key, v) \in DefaultSet(schema, attributes)
         /\ \A f \in Missing(schema, attributes) :
              f \in ToSet(schema) /\ f \in Field /\ \A a \in ToSet(attributes) : a.key # f.key
         /\ \A f \in ToSet(schema) :
              f \notin Missing(schema, attributes) => \E a \in ToSet(attributes) : a.key = f.key
         /\ IsFiniteSet(DefaultSet(schema, attributes))
         /\ DefaultSet(schema, attributes) \subseteq Attribute
<1> DEFINE gone == Missing(schema, attributes)
           D == DefaultSet(schema, attributes)
<1>1. \A f \in ToSet(schema) : f \in gone <=> \A a \in ToSet(attributes) : a.key # f.key
  BY SideTypes DEF Missing
<1>2. \A f \in gone : f \in ToSet(schema) /\ f \in Field
  BY SideTypes DEF Missing
<1> HIDE DEF gone
<1>3. \A x \in D : \E f \in gone : \E v \in f.default : x = Entry(f.key, v)
  BY DEF DefaultSet, gone
<1>4. \A f \in gone : \A v \in f.default : Entry(f.key, v) \in D
  BY DEF DefaultSet, gone
<1> HIDE DEF D
<1>5. D \subseteq Attribute
  <2>1. ASSUME NEW f \in gone, NEW v \in f.default
        PROVE  Entry(f.key, v) \in Attribute
    BY <1>2, FieldTypes DEF Entry, Attribute
  <2> QED
    BY <1>3, <2>1
<1>6. IsFiniteSet(D)
  <2> DEFINE Of(k) == Entry(schema[k].key, CHOOSE v : v \in schema[k].default)
             T == {Of(k) : k \in 1..n}
  <2>1. IsFiniteSet(1..n)
    BY FS_Interval DEF Sides
  <2>2. IsFiniteSet(T)
    <3> DEFINE g == [k \in 1..n |-> Of(k)]
    <3>1. g \in Surjection(1..n, T)
      BY DEF Surjection
    <3> QED
      BY <2>1, <3>1, FS_Surjection
  <2>3. ASSUME NEW x \in D
        PROVE  x \in T
    <3>1. PICK f \in gone : \E v \in f.default : x = Entry(f.key, v)
      BY <1>3
    <3>2. PICK v \in f.default : x = Entry(f.key, v)
      BY <3>1
    <3>3. v = CHOOSE w : w \in f.default
      BY <1>2, FieldTypes
    <3>4. PICK k \in 1..n : schema[k] = f
      BY <1>2 DEF ToSet, Sides
    <3>5. x = Of(k)
      BY <3>2, <3>3, <3>4
    <3> QED
      BY <3>5
  <2> HIDE DEF T
  <2>4. D \in SUBSET T
    BY <2>3
  <2> QED
    BY <2>2, <2>4, FS_Subset
<1> QED
  BY <1>1, <1>2, <1>3, <1>4, <1>5, <1>6 DEF gone, D

-----------------------------------------------------------------------------
Join(all, s, m, t, d) ==
  /\ DOMAIN all = 1..(m + d)
  /\ \A i \in 1..m : all[i] = s[i]
  /\ \A i \in (m + 1)..(m + d) : all[i] = t[i - m]

LEMMA Joined ==
  ASSUME NEW m \in Nat, NEW d \in Nat, NEW S, NEW s \in [1..m -> S], NEW t \in [1..d -> S]
  PROVE  s \o t \in [1..(m + d) -> S] /\ Join(s \o t, s, m, t, d)
<1>1. s \in Seq(S) /\ t \in Seq(S) /\ Len(s) = m /\ Len(t) = d
  OBVIOUS
<1>2. s \o t \in Seq(S) /\ Len(s \o t) = m + d
  BY <1>1
<1>3. s \o t \in [1..(m + d) -> S]
  <2>1. \A u \in Seq(S) : u \in [1..Len(u) -> S]
    OBVIOUS
  <2>2. s \o t \in [1..Len(s \o t) -> S]
    BY <1>2, <2>1, Zenon
  <2> QED
    BY <1>2, <2>2, Zenon
<1>4. \A i \in 1..m : (s \o t)[i] = s[i]
  BY <1>1
<1>5. \A i \in (m + 1)..(m + d) : (s \o t)[i] = t[i - m]
  BY <1>1
<1> QED
  BY <1>3, <1>4, <1>5 DEF Join

Arranged(items, l) ==
  /\ l \in Nat /\ items \in [1..l -> Attribute] /\ Ordered(items, ByItsKey(Attribute))
  /\ \A x \in ToSet(items) : x.key # 0

(* Adding the defaults gives the entries and the defaults, in order.       *)
LEMMA Completed ==
  ASSUME NEW schema, NEW n, NEW attributes, NEW m, Sides(schema, n, attributes, m)
  PROVE  /\ \E l \in Nat : Arranged(WithDefaults(schema, attributes), l)
         /\ ToSet(WithDefaults(schema, attributes)) =
              ToSet(attributes) \cup DefaultSet(schema, attributes)
<1> DEFINE A == attributes
           D == SetToSeq(DefaultSet(schema, attributes))
           d == Cardinality(DefaultSet(schema, attributes))
           all == A \o D
<1>1. /\ d \in Nat /\ D \in [1..d -> Attribute] /\ ToSet(D) = DefaultSet(schema, attributes)
      /\ \A k, l \in 1..d : k # l => D[k] # D[l]
  <2>1. IsFiniteSet(DefaultSet(schema, attributes)) /\ DefaultSet(schema, attributes) \subseteq Attribute
    BY DefaultMembers
  <2>2. /\ d \in Nat /\ D \in [1..d -> DefaultSet(schema, attributes)]
        /\ ToSet(D) = DefaultSet(schema, attributes)
        /\ \A k, l \in 1..d : k # l => D[k] # D[l]
    BY <2>1, SetListed
  <2> HIDE DEF D, d
  <2> QED
    BY <2>1, <2>2
<1>2. WithDefaults(schema, attributes) = Normalized(all)
  BY DEF WithDefaults, Defaults, DefaultSet
<1> HIDE DEF D, d
<1>3. m \in Nat /\ A \in [1..m -> Attribute]
  BY DEF Sides
<1>4. /\ all \in [1..(m + d) -> Attribute]
      /\ \A i \in 1..m : all[i] = A[i]
      /\ \A i \in (m + 1)..(m + d) : all[i] = D[i - m]
  <2>1. all \in [1..(m + d) -> Attribute] /\ Join(all, A, m, D, d)
    BY <1>1, <1>3, Joined
  <2> QED
    BY <2>1 DEF Join
<1> HIDE DEF all
<1>5. \A i \in 1..m : A[i] \in ToSet(A)
  BY <1>3 DEF ToSet
<1>6. \A k \in 1..d : D[k] \in DefaultSet(schema, attributes)
  BY <1>1 DEF ToSet
<1>7. ASSUME NEW x \in DefaultSet(schema, attributes)
      PROVE  x.key # 0 /\ \A a \in ToSet(A) : a.key # x.key
  <2>1. PICK f \in Missing(schema, attributes) : \E v \in f.default : x = Entry(f.key, v)
    BY DefaultMembers
  <2>2. f \in ToSet(schema) /\ \A a \in ToSet(A) : a.key # f.key
    BY DefaultMembers
  <2>3. x.key = f.key
    BY <2>1 DEF Entry
  <2> QED
    BY <2>2, <2>3 DEF Sides
<1>8. ASSUME NEW x \in DefaultSet(schema, attributes), NEW y \in DefaultSet(schema, attributes),
             x.key = y.key
      PROVE  x = y
  <2>1. PICK f \in Missing(schema, attributes) : \E v \in f.default : x = Entry(f.key, v)
    BY DefaultMembers
  <2>2. PICK g \in Missing(schema, attributes) : \E v \in g.default : y = Entry(g.key, v)
    BY DefaultMembers
  <2>3. f \in ToSet(schema) /\ g \in ToSet(schema) /\ f \in Field
    BY DefaultMembers
  <2>4. x.key = f.key /\ y.key = g.key
    BY <2>1, <2>2 DEF Entry
  <2>5. f = g
    BY <1>8, <2>3, <2>4, SideTypes
  <2> QED
    BY <2>1, <2>2, <2>3, <2>5, FieldTypes
<1>9. \A i, j \in 1..m : i # j => A[i].key # A[j].key
  <2>1. \A i, j \in 1..m : i < j => A[i].key < A[j].key
    BY <1>3 DEF Sides, Ordered, ByItsKey, KeyBefore
  <2>2. \A i \in 1..m : A[i].key \in Nat
    BY <1>3 DEF Attribute
  <2> QED
    BY <1>3, <2>1, <2>2
<1>10. \A k, l \in 1..d : k # l => D[k].key # D[l].key
  BY <1>1, <1>6, <1>8
<1>11. \A k \in 1..d : \A i \in 1..m : D[k].key # A[i].key
  BY <1>5, <1>6, <1>7
<1>12. ASSUME NEW i \in 1..(m + d)
       PROVE  \/ i \in 1..m /\ all[i] = A[i]
              \/ i \in (m + 1)..(m + d) /\ i - m \in 1..d /\ all[i] = D[i - m]
  <2>1. i \in 1..m \/ (i \in (m + 1)..(m + d) /\ i - m \in 1..d)
    BY <1>1, <1>3
  <2> QED
    BY <1>4, <2>1
<1>13. Keyed(all, m + d)
  <2>1. ASSUME NEW i \in 1..(m + d) PROVE all[i].key # 0
    <3>1. CASE i \in 1..m /\ all[i] = A[i]
      BY <1>5, <3>1 DEF Sides
    <3>2. CASE i - m \in 1..d /\ all[i] = D[i - m]
      BY <1>6, <1>7, <3>2
    <3> QED
      BY <1>12, <3>1, <3>2
  <2>2. ASSUME NEW i \in 1..(m + d), NEW j \in 1..(m + d), i # j
        PROVE  all[i].key # all[j].key
    <3>1. CASE i \in 1..m /\ all[i] = A[i] /\ j \in 1..m /\ all[j] = A[j]
      BY <1>9, <2>2, <3>1
    <3>2. CASE i \in 1..m /\ all[i] = A[i] /\ j - m \in 1..d /\ all[j] = D[j - m]
      BY <1>11, <3>2
    <3>3. CASE i - m \in 1..d /\ all[i] = D[i - m] /\ j \in 1..m /\ all[j] = A[j]
      BY <1>11, <3>3
    <3>4. CASE i - m \in 1..d /\ all[i] = D[i - m] /\ j - m \in 1..d /\ all[j] = D[j - m]
      <4>1. i - m # j - m
        BY <1>3, <2>2
      <4> QED
        BY <1>10, <3>4, <4>1
    <3> QED
      BY <1>12, <3>1, <3>2, <3>3, <3>4
  <2> QED
    BY <2>1, <2>2 DEF Keyed
<1>14. Elements(all) = ToSet(A) \cup DefaultSet(schema, attributes)
  <2>1. \A i \in 1..(m + d) : all[i] \in ToSet(A) \cup DefaultSet(schema, attributes)
    BY <1>5, <1>6, <1>12
  <2>2. ASSUME NEW a \in ToSet(A) PROVE \E i \in 1..(m + d) : all[i] = a
    <3>1. PICK i \in 1..m : A[i] = a
      BY <1>3 DEF ToSet
    <3>2. i \in 1..(m + d)
      BY <1>1, <1>3
    <3> QED
      BY <1>4, <3>1, <3>2
  <2>3. ASSUME NEW x \in DefaultSet(schema, attributes) PROVE \E i \in 1..(m + d) : all[i] = x
    <3>1. PICK k \in 1..d : D[k] = x
      BY <1>1 DEF ToSet
    <3>2. k + m \in (m + 1)..(m + d) /\ k + m \in 1..(m + d) /\ (k + m) - m = k
      BY <1>1, <1>3
    <3> QED
      BY <1>4, <3>1, <3>2
  <2>4. DOMAIN all = 1..(m + d)
    BY <1>4
  <2> QED
    BY <2>1, <2>2, <2>3, <2>4 DEF Elements
<1> DEFINE B == Normalized(all)
<1>15. m + d \in Nat
  BY <1>1, <1>3
<1>16. /\ B \in [1..(m + d) -> Attribute] /\ Elements(B) = Elements(all)
       /\ Ordered(B, ByItsKey(Attribute))
  BY <1>4, <1>13, <1>15, HaveKeys, NormalizedOrdered
<1> HIDE DEF B
<1>17. ToSet(B) = ToSet(A) \cup DefaultSet(schema, attributes)
  BY <1>14, <1>16 DEF Elements, ToSet
<1>18. \A x \in ToSet(B) : x.key # 0
  BY <1>7, <1>17 DEF Sides
<1>19. Arranged(B, m + d)
  BY <1>15, <1>16, <1>18 DEF Arranged
<1> QED
  BY <1>2, <1>15, <1>17, <1>19 DEF B

-----------------------------------------------------------------------------
Typed == fields \in Seq(OfferedFields) /\ entries \in Seq(OfferedEntries)

LEMMA Suitable ==
  ASSUME NEW f \in Field, NEW v \in Values
  PROVE  Suits(f, v) <=> ValueIsValidFor(f, v)
<1>1. v[1] = "integer" =>
        /\ v[2] \in Int
        /\ (\A m \in f.minimum : v[2] >= m) <=> (\A m \in f.minimum : m <= v[2])
        /\ (\A m \in f.maximum : v[2] <= m) <=> WithinMaximum(f, v[2])
  <2>1. ASSUME v[1] = "integer", NEW m \in f.minimum
        PROVE  v[2] >= m <=> m <= v[2]
    <3>1. v[2] \in Int /\ m \in Int
      BY <2>1, ValuesTyped, FieldTypes
    <3> QED
      BY <3>1
  <2> QED
    BY <2>1, ValuesTyped DEF WithinMaximum
<1>2. InRange(f, v) <=>
        (KindOf(v) = "integer" => (\A m \in f.minimum : m <= v[2]) /\ WithinMaximum(f, v[2]))
  BY <1>1 DEF InRange, KindOf
<1> QED
  BY <1>2, Zenon DEF Suits, ValueIsValidFor, EnumValueAllowed, KindOf

LEMMA SidesTyped ==
  ASSUME Typed
  PROVE  /\ Len(fields) \in Nat /\ fields \in [1..Len(fields) -> Field]
         /\ Len(entries) \in Nat /\ entries \in [1..Len(entries) -> Attribute]
         /\ KeysDiffer(fields) <=> Keyed(fields, Len(fields))
         /\ KeysDiffer(entries) <=> Keyed(entries, Len(entries))
<1>1. /\ Len(fields) \in Nat /\ fields \in [1..Len(fields) -> Field]
      /\ Len(entries) \in Nat /\ entries \in [1..Len(entries) -> Attribute]
  BY OfferedAttributesAssumption DEF Typed
<1>2. KeysDiffer(fields) <=> Keyed(fields, Len(fields))
  BY <1>1, HaveKeys, NeighboursTell
<1>3. KeysDiffer(entries) <=> Keyed(entries, Len(entries))
  BY <1>1, HaveKeys, NeighboursTell
<1> QED
  BY <1>1, <1>2, <1>3

LEMMA ReachedSides ==
  ASSUME Typed, Reached
  PROVE  /\ Sides(Normalized(fields), Len(fields), Normalized(entries), Len(entries))
         /\ ToSet(Normalized(fields)) = ToSet(fields)
         /\ ToSet(Normalized(entries)) = ToSet(entries)
<1> DEFINE n == Len(fields)
           m == Len(entries)
           schema == Normalized(fields)
           A == Normalized(entries)
<1>1. /\ n \in Nat /\ fields \in [1..n -> Field] /\ m \in Nat /\ entries \in [1..m -> Attribute]
      /\ Keyed(fields, n) /\ Keyed(entries, m)
  BY SidesTyped DEF Reached, SchemaAccepted, AttributesAccepted
<1>2. \A k \in 1..n : FieldAccepted(fields[k])
  BY <1>1 DEF Reached, SchemaAccepted
<1>3. /\ schema \in [1..n -> Field] /\ Elements(schema) = Elements(fields)
      /\ Ordered(schema, ByItsKey(Field))
      /\ A \in [1..m -> Attribute] /\ Elements(A) = Elements(entries)
      /\ Ordered(A, ByItsKey(Attribute))
  BY <1>1, HaveKeys, NormalizedOrdered
<1> HIDE DEF n, m, schema, A
<1>4. ToSet(schema) = ToSet(fields) /\ ToSet(A) = ToSet(entries)
  BY <1>3 DEF Elements, ToSet
<1>5. \A f \in ToSet(schema) : f.key # 0 /\ FieldAccepted(f)
  BY <1>1, <1>2, <1>4 DEF ToSet, Keyed
<1>6. \A a \in ToSet(A) : a.key # 0
  BY <1>1, <1>4 DEF ToSet, Keyed
<1> QED
  BY <1>1, <1>3, <1>4, <1>5, <1>6 DEF Sides, n, m, schema, A

LEMMA DefaultAccepted ==
  ASSUME NEW schema, NEW n, NEW attributes, NEW m, Sides(schema, n, attributes, m),
         NEW x \in DefaultSet(schema, attributes)
  PROVE  \E f \in Missing(schema, attributes) :
           /\ f \in ToSet(schema) /\ f.key = x.key /\ x.value \in f.default
           /\ ValueIsValidFor(f, x.value)
<1>1. PICK f \in Missing(schema, attributes) : \E v \in f.default : x = Entry(f.key, v)
  BY DefaultMembers
<1>2. PICK v \in f.default : x = Entry(f.key, v)
  BY <1>1
<1>3. f \in ToSet(schema) /\ x.key = f.key /\ x.value = v
  BY <1>2, DefaultMembers DEF Entry
<1>4. FieldAccepted(f)
  BY <1>3 DEF Sides
<1>5. ValueIsValidFor(f, v)
  BY <1>4 DEF FieldAccepted
<1> QED
  BY <1>2, <1>3, <1>5

LEMMA AcceptsTheSuitable == Typed => AcceptsWhatSuits
<1> SUFFICES ASSUME Typed, Reached PROVE AcceptsWhatSuits
  BY DEF AcceptsWhatSuits
<1> DEFINE n == Len(fields)
           m == Len(entries)
           schema == Normalized(fields)
           A == Normalized(entries)
           D == DefaultSet(schema, A)
           Suited == /\ \A a \in Filled : \E f \in ToSet(fields) : f.key = a.key /\ Suits(f, a.value)
                     /\ \A f \in ToSet(fields) : f.required => \E a \in Filled : a.key = f.key
<1>1. Sides(schema, n, A, m) /\ ToSet(schema) = ToSet(fields) /\ ToSet(A) = ToSet(entries)
  BY ReachedSides
<1>2. Verdict(fields, entries) = SchemaValidate(schema, A)
  BY DEF Verdict
<1> HIDE DEF n, m, schema, A
<1>3. Filled = ToSet(A) \cup D
  <2>1. \A f \in ToSet(fields) : f \in Missing(schema, A) <=> \A a \in ToSet(entries) : a.key # f.key
    BY <1>1, DefaultMembers
  <2>2. \A f \in Missing(schema, A) : f \in ToSet(fields)
    BY <1>1, DefaultMembers
  <2>3. Missing(schema, A) = {h \in ToSet(fields) : \A a \in ToSet(entries) : a.key # h.key}
    BY <2>1, <2>2
  <2> QED
    BY <1>1, <2>3 DEF Filled, DefaultSet
<1> HIDE DEF D
<1>4. ASSUME Sound(schema, A)
      PROVE  Suited
  <2>1. ASSUME NEW a \in ToSet(A)
        PROVE  \E f \in ToSet(fields) : f.key = a.key /\ Suits(f, a.value)
    <3>1. AttributeError(schema, a) = "ok"
      BY <1>4 DEF Sound
    <3>2. PICK f \in ToSet(schema) : f.key = a.key /\ ValueIsValidFor(f, a.value)
      BY <1>1, <3>1, AttributeAccepted
    <3>3. f \in Field /\ a.value \in Values
      BY <1>1, SideTypes DEF Attribute
    <3> QED
      BY <1>1, <3>2, <3>3, Suitable
  <2>2. ASSUME NEW a \in D
        PROVE  \E f \in ToSet(fields) : f.key = a.key /\ Suits(f, a.value)
    <3>1. PICK f \in Missing(schema, A) :
            /\ f \in ToSet(schema) /\ f.key = a.key /\ a.value \in f.default
            /\ ValueIsValidFor(f, a.value)
      BY <1>1, DefaultAccepted DEF D
    <3>2. f \in Field /\ a.value \in Values
      BY <1>1, <3>1, SideTypes, FieldTypes
    <3> QED
      BY <1>1, <3>1, <3>2, Suitable
  <2>3. ASSUME NEW f \in ToSet(fields), f.required
        PROVE  \E a \in Filled : a.key = f.key
    <3>1. CASE f \in Missing(schema, A)
      <4>1. PICK v : v \in f.default
        BY <1>4, <2>3, <3>1 DEF Sound
      <4>2. Entry(f.key, v) \in D
        BY <1>1, <3>1, <4>1, DefaultMembers DEF D
      <4>3. Entry(f.key, v).key = f.key
        BY DEF Entry
      <4> QED
        BY <1>3, <4>2, <4>3
    <3>2. CASE f \notin Missing(schema, A)
      BY <1>1, <1>3, <3>2, DefaultMembers
    <3> QED
      BY <3>1, <3>2
  <2> QED
    BY <1>3, <2>1, <2>2, <2>3
<1>5. ASSUME Suited
      PROVE  Sound(schema, A)
  <2>1. ASSUME NEW a \in ToSet(A)
        PROVE  AttributeError(schema, a) = "ok"
    <3>1. PICK f \in ToSet(fields) : f.key = a.key /\ Suits(f, a.value)
      BY <1>3, <1>5
    <3>2. f \in Field /\ a.value \in Values
      BY <1>1, SideTypes DEF Attribute
    <3>3. ValueIsValidFor(f, a.value)
      BY <3>1, <3>2, Suitable
    <3> QED
      BY <1>1, <3>1, <3>3, AttributeAccepted
  <2>2. ASSUME NEW f \in Missing(schema, A), f.required
        PROVE  f.default # {}
    <3>1. f \in ToSet(schema) /\ \A a \in ToSet(A) : a.key # f.key
      BY <1>1, DefaultMembers
    <3>2. PICK a \in Filled : a.key = f.key
      BY <1>1, <1>5, <2>2, <3>1
    <3>3. a \in D
      BY <1>3, <3>1, <3>2
    <3>4. PICK g \in Missing(schema, A) :
            /\ g \in ToSet(schema) /\ g.key = a.key /\ a.value \in g.default
            /\ ValueIsValidFor(g, a.value)
      BY <1>1, <3>3, DefaultAccepted DEF D
    <3>5. f = g
      BY <1>1, <3>1, <3>2, <3>4, SideTypes
    <3> QED
      BY <3>4, <3>5
  <2> QED
    BY <2>1, <2>2 DEF Sound
<1>6. /\ Verdict(fields, entries)[1] = "ok" <=> Sound(schema, A)
      /\ Sound(schema, A) => Verdict(fields, entries) = <<"ok", WithDefaults(schema, A)>>
  BY <1>1, <1>2, ValidateMeans
<1>7. Sound(schema, A) => ToSet(Verdict(fields, entries)[2]) = Filled
  BY <1>1, <1>3, <1>6, Completed DEF D
<1> QED
  BY <1>4, <1>5, <1>6, <1>7 DEF AcceptsWhatSuits

LEMMA ValidatedTwice == Typed => ValidatedOnceForAll /\ AttributesTypeOK
<1> SUFFICES ASSUME Typed, Reached PROVE ValidatedOnceForAll /\ AttributesTypeOK
  BY DEF ValidatedOnceForAll, AttributesTypeOK, Typed
<1> DEFINE n == Len(fields)
           m == Len(entries)
           schema == Normalized(fields)
           A == Normalized(entries)
           B == WithDefaults(schema, A)
<1>1. Sides(schema, n, A, m)
  BY ReachedSides
<1>2. /\ Verdict(fields, entries) = SchemaValidate(schema, A)
      /\ Verdict(fields, entries)[1] = "ok" <=> Sound(schema, A)
      /\ Sound(schema, A) => Verdict(fields, entries) = <<"ok", B>>
      /\ ~Sound(schema, A) => Verdict(fields, entries)[2] = <<>>
  BY <1>1, ValidateMeans DEF Verdict
<1> HIDE DEF n, m, schema, A
<1>3. (\E l \in Nat : Arranged(B, l)) /\ ToSet(B) = ToSet(A) \cup DefaultSet(schema, A)
  BY <1>1, Completed
<1> HIDE DEF B
<1>4. PICK l \in Nat : Arranged(B, l)
  BY <1>3
<1>5. ASSUME NEW k \in 1..l
      PROVE  B[k].key # 0 /\ (k > 1 => KeyBefore(B[k - 1], B[k]))
  <2>1. B[k].key # 0
    BY <1>4 DEF Arranged, ToSet
  <2>2. k > 1 => k - 1 \in 1..l /\ k - 1 < k
    BY <1>4
  <2>3. k > 1 => KeyBefore(B[k - 1], B[k])
    BY <1>4, <2>2 DEF Arranged, Ordered, ByItsKey
  <2> QED
    BY <2>1, <2>3
<1>6. AttributesTypeOK
  <2>1. CASE Sound(schema, A)
    <3>1. DOMAIN B = 1..l /\ Verdict(fields, entries)[2] = B
      BY <1>2, <1>4, <2>1 DEF Arranged
    <3> QED
      BY <1>5, <3>1 DEF AttributesTypeOK, Typed
  <2>2. CASE ~Sound(schema, A)
    BY <1>2, <2>2 DEF AttributesTypeOK, Typed
  <2> QED
    BY <2>1, <2>2
<1>7. ASSUME Sound(schema, A)
      PROVE  SchemaValidate(schema, B) = <<"ok", B>>
  <2>1. Sides(schema, n, B, l)
    BY <1>1, <1>4 DEF Sides, Arranged
  <2>2. ASSUME NEW f \in Missing(schema, B)
        PROVE  f \in Missing(schema, A) /\ f.default = {}
    <3>1. f \in ToSet(schema) /\ \A a \in ToSet(B) : a.key # f.key
      BY <2>1, DefaultMembers
    <3>2. f \in Missing(schema, A)
      BY <1>1, <1>3, <3>1, DefaultMembers
    <3>3. ASSUME NEW v \in f.default PROVE FALSE
      <4>1. Entry(f.key, v) \in ToSet(B)
        BY <1>1, <1>3, <3>2, DefaultMembers
      <4>2. Entry(f.key, v).key = f.key
        BY DEF Entry
      <4> QED
        BY <3>1, <4>1, <4>2
    <3> QED
      BY <3>2, <3>3
  <2>3. ASSUME NEW a \in ToSet(B)
        PROVE  AttributeError(schema, a) = "ok"
    <3>1. CASE a \in ToSet(A)
      BY <1>7, <3>1 DEF Sound
    <3>2. CASE a \in DefaultSet(schema, A)
      <4>1. \E f \in ToSet(schema) : f.key = a.key /\ ValueIsValidFor(f, a.value)
        BY <1>1, <3>2, DefaultAccepted
      <4> QED
        BY <1>1, <4>1, AttributeAccepted
    <3> QED
      BY <1>3, <3>1, <3>2
  <2>4. Sound(schema, B)
    <3>1. \A f \in Missing(schema, B) : f.required => f.default # {}
      BY <1>7, <2>2 DEF Sound
    <3> QED
      BY <2>3, <3>1 DEF Sound
  <2> DEFINE C == WithDefaults(schema, B)
  <2>5. SchemaValidate(schema, B) = <<"ok", C>>
    BY <2>1, <2>4, ValidateMeans
  <2>6. (\E w \in Nat : Arranged(C, w)) /\ ToSet(C) = ToSet(B) \cup DefaultSet(schema, B)
    BY <2>1, Completed
  <2>7. DefaultSet(schema, B) = {}
    BY <2>1, <2>2, DefaultMembers
  <2> HIDE DEF C
  <2>8. PICK w \in Nat : Arranged(C, w)
    BY <2>6
  <2>9. Elements(C) = Elements(B)
    BY <2>6, <2>7 DEF Elements, ToSet
  <2>10. Strict(ByItsKey(Attribute))
    BY HaveKeys, ByItsKeyStrict
  <2>11. C = B
    BY <1>4, <2>8, <2>9, <2>10, OrderedUnique DEF Arranged
  <2> QED
    BY <2>5, <2>11
<1>8. ValidatedOnceForAll
  BY <1>2, <1>7 DEF ValidatedOnceForAll, schema
<1> QED
  BY <1>6, <1>8

LEMMA AttributesInAnyOrder == Typed => InsertionOrderIrrelevant
<1> SUFFICES ASSUME Typed, NEW fs \in Rearrangements(fields), NEW es \in Rearrangements(entries)
             PROVE  /\ SchemaAccepted(fs) = SchemaAccepted(fields)
                    /\ AttributesAccepted(es) = AttributesAccepted(entries)
                    /\ Reached => Verdict(fs, es) = Verdict(fields, entries)
  BY DEF InsertionOrderIrrelevant
<1> DEFINE n == Len(fields)
           m == Len(entries)
<1>1. /\ n \in Nat /\ fields \in [1..n -> Field] /\ m \in Nat /\ entries \in [1..m -> Attribute]
      /\ KeysDiffer(fields) <=> Keyed(fields, n)
      /\ KeysDiffer(entries) <=> Keyed(entries, m)
  BY SidesTyped
<1> HIDE DEF n, m
<1>2. /\ fs \in [1..n -> Field] /\ Elements(fs) = Elements(fields)
      /\ Keyed(fs, n) <=> Keyed(fields, n)
      /\ Keyed(fields, n) => Normalized(fs) = Normalized(fields)
  BY <1>1, HaveKeys, NormalizedSame
<1>3. /\ es \in [1..m -> Attribute]
      /\ Keyed(es, m) <=> Keyed(entries, m)
      /\ Keyed(entries, m) => Normalized(es) = Normalized(entries)
  BY <1>1, HaveKeys, NormalizedSame
<1>4. KeysDiffer(fs) <=> Keyed(fs, n)
  BY <1>1, <1>2, HaveKeys, NeighboursTell
<1>5. KeysDiffer(es) <=> Keyed(es, m)
  BY <1>1, <1>3, HaveKeys, NeighboursTell
<1>6. (\A k \in DOMAIN fs : FieldAccepted(fs[k])) <=> (\A k \in DOMAIN fields : FieldAccepted(fields[k]))
  <2>1. (\A k \in DOMAIN fs : FieldAccepted(fs[k])) <=> \A x \in Elements(fs) : FieldAccepted(x)
    BY DEF Elements
  <2>2. (\A k \in DOMAIN fields : FieldAccepted(fields[k])) <=> \A x \in Elements(fields) : FieldAccepted(x)
    BY DEF Elements
  <2> QED
    BY <1>2, <2>1, <2>2
<1>7. SchemaAccepted(fs) = SchemaAccepted(fields)
  BY <1>1, <1>2, <1>4, <1>6 DEF SchemaAccepted
<1>8. AttributesAccepted(es) = AttributesAccepted(entries)
  <2>1. KeysDiffer(es) <=> KeysDiffer(entries)
    BY <1>1, <1>3, <1>5
  <2>2. KeysDiffer(es) \in BOOLEAN /\ KeysDiffer(entries) \in BOOLEAN
    BY Zenon DEF KeysDiffer
  <2> QED
    BY <2>1, <2>2 DEF AttributesAccepted
<1>9. Reached => Verdict(fs, es) = Verdict(fields, entries)
  BY <1>1, <1>2, <1>3 DEF Reached, SchemaAccepted, AttributesAccepted, Verdict
<1> QED
  BY <1>7, <1>8, <1>9

LEMMA AttributesTyped == AttributesSpec => []Typed
<1>1. AttributesInit => Typed
  BY DEF AttributesInit, Typed
<1>2. Typed /\ [AttributesNext]_attributeVars => Typed'
  <2> SUFFICES ASSUME Typed, [AttributesNext]_attributeVars PROVE Typed'
    OBVIOUS
  <2>1. CASE UNCHANGED attributeVars
    BY <2>1 DEF Typed, attributeVars
  <2>2. ASSUME NEW f \in OfferedFields, AddField(f)
        PROVE  Typed'
    BY <2>2 DEF Typed, AddField
  <2>3. ASSUME NEW a \in OfferedEntries, AddEntry(a)
        PROVE  Typed'
    BY <2>3 DEF Typed, AddEntry
  <2> QED
    BY <2>1, <2>2, <2>3 DEF AttributesNext
<1> QED
  BY <1>1, <1>2, PTL DEF AttributesSpec

(* Schemas of any number of fields and applications with any number of     *)
(* attributes: neither order matters, what suits the schema is accepted    *)
(* with the defaults it lacks and nothing else is, and to validate what    *)
(* was validated changes nothing.                                          *)
THEOREM AttributesAreExact == AttributesSpec => []AttributesExact
<1>1. Typed => AttributesExact
  BY ValidatedTwice, AttributesInAnyOrder, AcceptsTheSuitable DEF AttributesExact
<1> QED
  BY <1>1, AttributesTyped, PTL
=============================================================================
