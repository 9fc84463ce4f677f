------------------------------ MODULE Attributes ------------------------------
(***************************************************************************)
(* Attributes of an application and the schema of an operation             *)
(* (lib/ir/operation_attribute.cpp).  Fields and entries come from the     *)
(* caller one at a time, in any order; the properties are about what       *)
(* operation_attribute_schema::create, operation_attributes::create and    *)
(* ::validate make of them.  A value is its kind and its content; a key is *)
(* its place in the order of texts, of which 0 is the empty one.           *)
(***************************************************************************)
EXTENDS Sorting, SequencesExt

CONSTANTS
  OfferedFields,     \* bound: the fields a schema is made of
  OfferedEntries,    \* bound: the attributes an application is given
  MaxFields, MaxEntries,  \* bounds: how many of them
  ValidTypes         \* the value_types that validate

VARIABLES
  fields,            \* the argument of operation_attribute_schema::create
  entries            \* the argument of operation_attributes::create

attributeVars == <<fields, entries>>

KindOf(value) == value[1]
Values ==
  ({"integer"} \X Int) \cup ({"enum_key"} \X Nat)
    \cup ({"boolean", "index_vector", "value_type"} \X STRING)
Kinds == {"integer", "boolean", "enum_key", "index_vector", "value_type"}

Entry(key, value) == [key |-> key, value |-> value]
Attribute == [key : Nat, value : Values]

Optional(S) == {chosen \in SUBSET S : \A a, b \in chosen : a = b}
Field ==
  [key : Nat, kind : Kinds, required : BOOLEAN, default : Optional(Values),
   minimum : Optional(Int), maximum : Optional(Int), allowed : Seq(Nat)]

ASSUME OfferedAttributesAssumption == OfferedFields \subseteq Field /\ OfferedEntries \subseteq Attribute

AttributesInit == fields = <<>> /\ entries = <<>>

AddField(f) == Len(fields) < MaxFields /\ fields' = Append(fields, f) /\ UNCHANGED entries
AddEntry(a) == Len(entries) < MaxEntries /\ entries' = Append(entries, a) /\ UNCHANGED fields

AttributesNext == (\E f \in OfferedFields : AddField(f)) \/ (\E a \in OfferedEntries : AddEntry(a))

AttributesSpec == AttributesInit /\ [][AttributesNext]_attributeVars

-----------------------------------------------------------------------------
EnumValueAllowed(field, value) == field.allowed = <<>> \/ value \in ToSet(field.allowed)

(* Fault: the upper end of a range is open.                                *)
BelowMaximum(field, n) == \A m \in field.maximum : n < m
WithinMaximum(field, n) == \A m \in field.maximum : n <= m

ValueIsValidFor(field, value) ==
  /\ KindOf(value) = field.kind
  /\ KindOf(value) = "integer" =>
       (\A m \in field.minimum : m <= value[2]) /\ WithinMaximum(field, value[2])
  /\ KindOf(value) = "enum_key" => value[2] # 0 /\ EnumValueAllowed(field, value[2])
  /\ KindOf(value) = "value_type" => value[2] \in ValidTypes

KeyBefore(a, b) == a.key < b.key
Normalized(items) ==
  StableSorted(items, {p \in (DOMAIN items) \X (DOMAIN items) : KeyBefore(items[p[1]], items[p[2]])})

(* Fault: the keys are compared as they come.                              *)
KeysDifferAsGiven(items) ==
  \A k \in DOMAIN items : items[k].key # 0 /\ (k > 1 => items[k - 1].key # items[k].key)
(* Both create functions compare neighbours after sorting.                 *)
KeysDiffer(items) ==
  LET s == Normalized(items)
  IN \A k \in DOMAIN s : s[k].key # 0 /\ (k > 1 => s[k - 1].key # s[k].key)

(* Fault: a default is taken on trust.                                     *)
RangesAndEnums(field) ==
  /\ \A low \in field.minimum, high \in field.maximum : low <= high
  /\ field.minimum \cup field.maximum # {} => field.kind = "integer"
  /\ field.allowed # <<>> => field.kind = "enum_key"
  /\ IsInjective(field.allowed) /\ 0 \notin ToSet(field.allowed)
FieldAccepted(field) ==
  RangesAndEnums(field) /\ \A value \in field.default : ValueIsValidFor(field, value)

SchemaAccepted(fs) == KeysDiffer(fs) /\ \A k \in DOMAIN fs : FieldAccepted(fs[k])
AttributesAccepted(es) == KeysDiffer(es)

-----------------------------------------------------------------------------
(* Look-ups take the first item that does not come before the key.         *)
Found(items, key) ==
  {items[k] : k \in {i \in DOMAIN items :
     /\ items[i].key = key
     /\ \A j \in 1..(i - 1) : KeyBefore(items[j], items[i])}}

AttributeError(schema, entry) ==
  LET declared == Found(schema, entry.key)
  IN CASE declared = {} -> "unknown"
       [] \E f \in declared : KindOf(entry.value) # f.kind -> "kind"
       [] \E f \in declared : KindOf(entry.value) = f.kind /\ ~ValueIsValidFor(f, entry.value) ->
            (CASE KindOf(entry.value) = "integer"  -> "range"
               [] KindOf(entry.value) = "enum_key" -> "enum"
               [] OTHER -> "value")
       [] OTHER -> "ok"

Missing(schema, attributes) == {f \in ToSet(schema) : Found(attributes, f.key) = {}}
Defaults(schema, attributes) ==
  SetToSeq(UNION {{Entry(f.key, value) : value \in f.default} : f \in Missing(schema, attributes)})

(* Fault: defaults stay behind the entries.                                *)
DefaultsLast(schema, attributes) == attributes \o Defaults(schema, attributes)
WithDefaults(schema, attributes) == Normalized(attributes \o Defaults(schema, attributes))

(* operation_attribute_schema::validate: the error, or what it returns.    *)
SchemaValidate(schema, attributes) ==
  LET bad == {k \in DOMAIN attributes : AttributeError(schema, attributes[k]) # "ok"}
  IN IF bad # {}
     THEN <<AttributeError(schema, attributes[CHOOSE k \in bad : \A j \in bad : k <= j]), <<>>>>
     ELSE IF \E f \in Missing(schema, attributes) : f.required /\ f.default = {}
     THEN <<"required", <<>>>>
     ELSE <<"ok", WithDefaults(schema, attributes)>>

-----------------------------------------------------------------------------
Reached == SchemaAccepted(fields) /\ AttributesAccepted(entries)
Verdict(fs, es) == SchemaValidate(Normalized(fs), Normalized(es))

(* Attributes are in the order of their keys, on which look-ups rely.      *)
AttributesTypeOK ==
  /\ fields \in Seq(OfferedFields) /\ entries \in Seq(OfferedEntries)
  /\ Reached =>
       LET attributes == Verdict(fields, entries)[2]
       IN \A k \in DOMAIN attributes :
            attributes[k].key # 0 /\ (k > 1 => KeyBefore(attributes[k - 1], attributes[k]))

(* "operation attributes normalize independently of insertion order": in   *)
(* whatever order fields and entries are given, they are accepted or not,  *)
(* and the application has the same attributes, in the same places, or the *)
(* same error.                                                             *)
InsertionOrderIrrelevant ==
  \A fs \in Rearrangements(fields), es \in Rearrangements(entries) :
    /\ SchemaAccepted(fs) = SchemaAccepted(fields)
    /\ AttributesAccepted(es) = AttributesAccepted(entries)
    /\ Reached => Verdict(fs, es) = Verdict(fields, entries)

(* graph_builder::apply validates, and validate_application validates what *)
(* came out of it once more: that can neither fail nor change anything.    *)
ValidatedOnceForAll ==
  Reached /\ Verdict(fields, entries)[1] = "ok" =>
    LET attributes == Verdict(fields, entries)[2]
    IN SchemaValidate(Normalized(fields), attributes) = <<"ok", attributes>>

(* The attributes of an accepted application are the entries it was given  *)
(* and, for every other field that has one, the default; all of them are   *)
(* declared, of the declared kind and in the declared range, and no        *)
(* required one is missing.  An entry for which that holds is not refused. *)
InRange(f, v) ==
  KindOf(v) = "integer" =>
    /\ \A m \in f.minimum : v[2] >= m
    /\ \A m \in f.maximum : v[2] <= m
Suits(f, v) ==
  /\ v[1] = f.kind /\ InRange(f, v)
  /\ f.kind = "enum_key" => v[2] # 0 /\ (f.allowed # <<>> => v[2] \in ToSet(f.allowed))
  /\ f.kind = "value_type" => v[2] \in ValidTypes
Filled ==
  ToSet(entries) \cup
    UNION {{Entry(f.key, v) : v \in f.default} :
      f \in {h \in ToSet(fields) : \A a \in ToSet(entries) : a.key # h.key}}
AcceptsWhatSuits ==
  Reached =>
    /\ (Verdict(fields, entries)[1] = "ok") =
         (/\ \A a \in Filled : \E f \in ToSet(fields) : f.key = a.key /\ Suits(f, a.value)
          /\ \A f \in ToSet(fields) : f.required => \E a \in Filled : a.key = f.key)
    /\ Verdict(fields, entries)[1] = "ok" => ToSet(Verdict(fields, entries)[2]) = Filled

(* Whatever order attributes come in: what suits the schema is accepted,   *)
(* completed and normalized, once and for all.                             *)
AttributesExact ==
  AttributesTypeOK /\ InsertionOrderIrrelevant /\ ValidatedOnceForAll /\ AcceptsWhatSuits
=============================================================================
