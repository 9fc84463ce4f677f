----------------------------- MODULE MCCatalogues -----------------------------
(***************************************************************************)
(* The catalogues a canonicalizer is set up from, side by side: operations *)
(* (OperationCatalogue), their attributes (Attributes), rules and the      *)
(* configuration (Scheduling), evaluators (Folding).  They share no state, *)
(* so one moves only while the others are in an initial state, and what is *)
(* explored is the sum of their states.                                    *)
(***************************************************************************)
EXTENDS OperationCatalogue, Attributes, Scheduling

VARIABLES key, type, operands, answer    \* Folding

-----------------------------------------------------------------------------
(* Registrations that clash in every way: one key in two versions, one key *)
(* with two meanings, one name for two keys, and one for each check.       *)
McRegistration(text, version, name, max, traits, constants) ==
  [key |-> [text |-> text, version |-> version], name |-> name, minimum |-> 2, maximum |-> max,
   operands |-> "any", schema |-> "none", traits |-> traits, evaluator |-> {},
   constants |-> constants]

McSum   == McRegistration(1, 1, 1, {}, {"associative", "commutative"}, {"identity"})
McSum2  == McRegistration(1, 2, 2, {}, {"associative", "commutative"}, {"identity"})
McMinus == McRegistration(2, 1, 3, {2}, {}, {"right_identity"})

McOfferedOperations ==
  {McSum, McSum2, McMinus,
   [McMinus EXCEPT !.name = 2],
   [McMinus EXCEPT !.constants = {"left_identity"}],
   [McSum EXCEPT !.key.text = 3],
   [McSum EXCEPT !.key.version = 0],
   [McMinus EXCEPT !.maximum = {1}],
   [McMinus EXCEPT !.minimum = 1, !.maximum = {1}, !.constants = {}, !.traits = {"commutative"}],
   [McSum EXCEPT !.constants = {"right_identity"}, !.evaluator = {McSum.key}]}

-----------------------------------------------------------------------------
(* Fields of every kind, well and badly declared, and entries for them.    *)
McField(name, kind, required, default, minimum, maximum, allowed) ==
  [key |-> name, kind |-> kind, required |-> required, default |-> default,
   minimum |-> minimum, maximum |-> maximum, allowed |-> allowed]
McLane(default, low, high) == McField(1, "integer", FALSE, default, low, high, <<>>)
McFields ==
  {McLane({<<"integer", 0>>}, {0}, {1}), McLane({<<"integer", 2>>}, {0}, {1}),
   McLane({}, {1}, {0}), McLane({}, {}, {}),
   McField(2, "enum_key", TRUE, {}, {}, {}, <<1, 2>>),
   McField(2, "enum_key", FALSE, {<<"enum_key", 1>>}, {}, {}, <<>>),
   McField(2, "boolean", FALSE, {}, {}, {}, <<1>>),
   McField(3, "value_type", TRUE, {<<"value_type", "f32">>}, {}, {}, <<>>),
   McField(0, "boolean", FALSE, {}, {}, {}, <<>>)}
McEntry(name, value) == [key |-> name, value |-> value]
McEntries ==
  {McEntry(1, <<"integer", 1>>), McEntry(1, <<"integer", 2>>),
   McEntry(1, <<"boolean", "on">>), McEntry(2, <<"enum_key", 1>>),
   McEntry(2, <<"enum_key", 0>>), McEntry(2, <<"enum_key", 3>>),
   McEntry(3, <<"value_type", "bad">>), McEntry(0, <<"boolean", "on">>)}

-----------------------------------------------------------------------------
(* Three rules and copies of them that cannot be registered beside them.   *)
McRule(id, phase, priority, usable) ==
  [id |-> id, phase |-> phase, priority |-> priority, usable |-> usable]
McOfferedRules ==
  {McRule("a", "shape_normalization", 1, TRUE), McRule("b", "shape_normalization", 1, TRUE),
   McRule("c", "shape_normalization", 0, TRUE), McRule("c", "local_simplification", 2, TRUE),
   McRule("c", "cleanup", 0, FALSE), McRule("b", "other", 0, TRUE), McRule("none", "cleanup", 0, TRUE)}

McRuleKeys == <<"none", "a", "b", "c">>

-----------------------------------------------------------------------------
(* Floats of 4 bits: magnitudes 0..4 are numbers, 5 is infinity, 6 and 7   *)
(* are NaNs, and what is too large becomes infinite, so that addition is   *)
(* not associative.                                                        *)
McMagnitude(b) == b % 8
McNegative(b) == b >= 8
McIsNaN(b) == McMagnitude(b) > 5
McNumberOf(b) == IF McNegative(b) THEN -McMagnitude(b) ELSE b
McRounded(n) == IF n < 0 THEN 8 + (IF -n > 4 THEN 5 ELSE -n) ELSE (IF n > 4 THEN 5 ELSE n)
McInfinite(b) == McMagnitude(b) = 5
McSignOf(a, b) == IF McNegative(a) # McNegative(b) THEN 8 ELSE 0

McFAdd(a, b) ==
  IF McIsNaN(a) \/ McIsNaN(b) \/ (McInfinite(a) /\ McInfinite(b) /\ a # b) THEN 6
  ELSE IF McInfinite(a) \/ (a = b /\ a = 8) THEN a
  ELSE IF McInfinite(b) THEN b
  ELSE McRounded(McNumberOf(a) + McNumberOf(b))

McFMultiply(a, b) ==
  LET m == McMagnitude(a) * McMagnitude(b)
  IN IF McIsNaN(a) \/ McIsNaN(b) \/ ((McInfinite(a) \/ McInfinite(b)) /\ m = 0) THEN 14
     ELSE McSignOf(a, b) + (IF m > 4 THEN 5 ELSE m)

McFDivide(a, b) ==
  IF McIsNaN(a) \/ McIsNaN(b) \/ (McInfinite(a) /\ McInfinite(b))
       \/ (McMagnitude(a) = 0 /\ McMagnitude(b) = 0) THEN 6
  ELSE McSignOf(a, b) +
       (IF McInfinite(a) \/ McMagnitude(b) = 0 THEN 5
        ELSE IF McInfinite(b) THEN 0 ELSE McMagnitude(a) \div McMagnitude(b))

McFSqrt(a) ==
  IF McIsNaN(a) \/ (McNegative(a) /\ McMagnitude(a) # 0) THEN 15
  ELSE IF McMagnitude(a) \in {0, 1, 5} THEN a ELSE IF McMagnitude(a) = 4 THEN 2 ELSE 1

(* Zero of either sign, ordinary and extreme numbers, infinity, NaNs.      *)
McScalars == {0, 8, 1, 3, 12, 5, 13, 15}
McPairs == {<<0, 1>>, <<8, 15>>, <<3, 12>>, <<3, 3>>}

McConstant(t, splat, elements) == [type |-> t, splat |-> splat, elements |-> elements]
McSamples(t) ==
  IF t.lanes = 0 THEN {McConstant(t, FALSE, <<b>>) : b \in McScalars}
  ELSE {McConstant(t, FALSE, p) : p \in McPairs} \cup {McConstant(t, TRUE, <<3, 3>>)}
McSampleTypes == [category : {"f32", "i32"}, lanes : {0, 2}]

Fold ==
  INSTANCE Folding WITH
    W <- 4, Infinity <- 5, One <- 1, FAdd <- McFAdd, FMultiply <- McFMultiply,
    FDivide <- McFDivide, FSqrt <- McFSqrt, Samples <- McSamples,
    SampleTypes <- McSampleTypes, MaxOperands <- 3

-----------------------------------------------------------------------------
foldVars == <<key, type, operands, answer>>
mcVars == <<vars, attributeVars, scheduleVars, foldVars>>

FirstFold ==
  /\ key = "copy" /\ type = [category |-> "i32", lanes |-> 0]
  /\ operands = <<McConstant(type, FALSE, <<0>>)>>

McInit == Init /\ AttributesInit /\ ScheduleInit /\ Fold!Init

OperationsRest == Init
AttributesRest == AttributesInit
ScheduleRests == ScheduleInit
FoldRests == FirstFold

OperationsMove ==
  /\ AttributesRest /\ ScheduleRests /\ FoldRests
  /\ Next /\ UNCHANGED <<attributeVars, scheduleVars, foldVars>>
AttributesMove ==
  /\ OperationsRest /\ ScheduleRests /\ FoldRests
  /\ AttributesNext /\ UNCHANGED <<vars, scheduleVars, foldVars>>
ScheduleMoves ==
  /\ OperationsRest /\ AttributesRest /\ FoldRests
  /\ ScheduleNext /\ UNCHANGED <<vars, attributeVars, foldVars>>
FoldMoves ==
  /\ OperationsRest /\ AttributesRest /\ ScheduleRests
  /\ Fold!Next /\ UNCHANGED <<vars, attributeVars, scheduleVars>>

McNext == OperationsMove \/ AttributesMove \/ ScheduleMoves \/ FoldMoves

McSpec == McInit /\ [][McNext]_mcVars

-----------------------------------------------------------------------------
(* Folded constants are exact, canonical and lane by lane (Folding).       *)
FoldsExact ==
  Fold!TypeOK /\ Fold!IntegersExact /\ Fold!BitsExact /\ Fold!FloatsCanonical
    /\ Fold!LanesIndependent
(* Operands of commutative folds may come in any order (Folding).          *)
OrderIrrelevant == Fold!OrderIrrelevant
=============================================================================
