-------------------------- MODULE OperationCatalogue --------------------------
(***************************************************************************)
(* operation_catalogue_builder and operation_catalogue                     *)
(* (lib/ir/operation_catalogue.cpp).  An operation_id is a position,       *)
(* counted from 1.  Texts are numbers, in the order strings have, and 0 is *)
(* the empty one; an optional is a set of at most one element.             *)
(***************************************************************************)
EXTENDS Sorting, SequencesExt

CONSTANTS
  Texts,             \* keys' values and names
  Versions,          \* operation_key::version
  Arities,           \* operand counts a signature can name
  Schemas,           \* attribute schemas, compared only
  OperandTypes,      \* operand_type_constraint
  LastIndex,         \* the largest index an operation_id can hold
  MaxWord,           \* UINT32_MAX where a missing maximum is encoded
  Offered,           \* bound: the registrations the instance tries
  MaxBatch           \* bound: registrations in one call

Slots == {"identity", "annihilator", "left_identity", "right_identity",
          "left_annihilator", "right_annihilator"}
Directional == {"left_identity", "right_identity", "left_annihilator", "right_annihilator"}
Traits == {"associative", "commutative", "idempotent"}

Key == [text : Texts, version : Versions]
Registration ==
  [key : Key, name : Texts, minimum : Arities, maximum : SUBSET Arities,
   operands : OperandTypes, schema : Schemas, traits : SUBSET Traits,
   evaluator : SUBSET Key, constants : SUBSET Slots]

ASSUME TextsAssumption ==
  /\ Texts \subseteq Nat /\ Versions \subseteq Nat /\ Arities \subseteq Nat
  /\ LastIndex \in Nat /\ MaxWord \in Nat /\ MaxBatch \in Nat
ASSUME OfferedAssumption == Offered \subseteq Registration

VARIABLES
  definitions,       \* m_definitions
  by_key, by_name,   \* m_by_key, m_by_name
  frozen,            \* m_frozen
  catalogue,         \* what freeze returned, an optional
  reply              \* of the last call: a diagnostic code, or ids

vars == <<definitions, by_key, by_name, frozen, catalogue, reply>>

Init ==
  /\ definitions = <<>> /\ by_key = <<>> /\ by_name = <<>>
  /\ frozen = FALSE /\ catalogue = {} /\ reply = <<"ok", <<>>>>

-----------------------------------------------------------------------------
Nameless(r) == r.key.text = 0 \/ r.key.version = 0 \/ r.name = 0

SignatureValid(r) == \A m \in r.maximum : m >= r.minimum

(* validate_semantics.                                                     *)
SemanticsValid(r) ==
  /\ \A k \in r.evaluator : k.text # 0 /\ k.version # 0
  /\ r.maximum = {1} => r.traits = {}
  /\ r.constants # {} => r.minimum # 0
  /\ "identity" \in r.constants => r.constants \cap {"left_identity", "right_identity"} = {}
  /\ "annihilator" \in r.constants => r.constants \cap {"left_annihilator", "right_annihilator"} = {}
  /\ r.constants \cap Directional # {} => r.minimum = 2 /\ r.maximum = {2}

(* Keys and names clash with those known and with earlier ones of a batch. *)
TakenKey(batch, i) ==
  batch[i].key \in DOMAIN by_key \/ \E j \in 1..(i - 1) : batch[j].key = batch[i].key
(* Fault: a name that is taken by the same batch goes unnoticed.           *)
KnownName(batch, i) == batch[i].name \in DOMAIN by_name
TakenName(batch, i) ==
  batch[i].name \in DOMAIN by_name \/ \E j \in 1..(i - 1) : batch[j].name = batch[i].name

(* Fault: what an operation claims of itself is not examined.              *)
SyntaxError(batch, i) ==
  IF Nameless(batch[i]) THEN "invalid_operation"
  ELSE IF TakenKey(batch, i) THEN "duplicate_operation"
  ELSE IF TakenName(batch, i) THEN "duplicate_name"
  ELSE IF ~SignatureValid(batch[i]) THEN "invalid_signature" ELSE "ok"
EntryError(batch, i) ==
  IF Nameless(batch[i]) THEN "invalid_operation"
  ELSE IF TakenKey(batch, i) THEN "duplicate_operation"
  ELSE IF TakenName(batch, i) THEN "duplicate_name"
  ELSE IF ~SignatureValid(batch[i]) THEN "invalid_signature"
  ELSE IF ~SemanticsValid(batch[i]) THEN "invalid_semantics" ELSE "ok"

(* Fault: the last identifier is one past the largest.                     *)
FitsLoosely(batch) == Len(definitions) + Len(batch) <= LastIndex + 2
Fits(batch) ==
  /\ Len(definitions) <= LastIndex
  /\ batch # <<>> => Len(batch) - 1 <= LastIndex - Len(definitions)

FirstBad(batch) ==
  {i \in DOMAIN batch : EntryError(batch, i) # "ok"
                          /\ \A j \in 1..(i - 1) : EntryError(batch, j) = "ok"}

BatchError(batch) ==
  {EntryError(batch, i) : i \in FirstBad(batch)}
    \cup (IF FirstBad(batch) = {} /\ ~Fits(batch) THEN {"capacity"} ELSE {})

Refuse(code) ==
  /\ reply' = <<code, <<>>>>
  /\ UNCHANGED <<definitions, by_key, by_name, frozen, catalogue>>

(* operation_def with its identifier.                                      *)
Definition(r, i) == [id |-> i, registration |-> r]

(* emplace does not replace an entry that is there.                        *)
WithEntries(map, labels) ==
  [x \in DOMAIN map \cup Range(labels) |->
     IF x \in DOMAIN map THEN map[x]
     ELSE Len(definitions) + (CHOOSE i \in DOMAIN labels : labels[i] = x)]

(* Fault: an identifier is taken before the definition is appended.        *)
EarlyIds(batch) == [i \in DOMAIN batch |-> Len(definitions) + i - 1]
NewIds(batch) == [i \in DOMAIN batch |-> Len(definitions) + i]

(* register_operations; register_operation is a batch of one.              *)
RegisterOperations(batch) ==
  \/ frozen /\ Refuse("frozen")
  \/ ~frozen /\ \E code \in BatchError(batch) : Refuse(code)
  \/ /\ ~frozen /\ BatchError(batch) = {}
     /\ definitions' = definitions \o [i \in DOMAIN batch |-> Definition(batch[i], Len(definitions) + i)]
     /\ by_key' = WithEntries(by_key, [i \in DOMAIN batch |-> batch[i].key])
     /\ by_name' = WithEntries(by_name, [i \in DOMAIN batch |-> batch[i].name])
     /\ reply' = <<"ok", NewIds(batch)>>
     /\ UNCHANGED <<frozen, catalogue>>

-----------------------------------------------------------------------------
KeyLess(a, b) == a.text < b.text \/ (a.text = b.text /\ a.version < b.version)

(* What compatibility_value encodes of an operation: all but id and name.  *)
Described(r) ==
  [key |-> r.key, minimum |-> r.minimum,
   maximum |-> IF r.maximum = {} THEN {MaxWord} ELSE r.maximum,
   operands |-> r.operands, schema |-> r.schema, traits |-> r.traits,
   evaluator |-> r.evaluator, constants |-> r.constants]

(* Fault: in the order of registration.                                    *)
InOrderOfIds(defs) == [i \in DOMAIN defs |-> Described(defs[i].registration)]
CompatibilityId(defs) ==
  LET less == {p \in (DOMAIN defs) \X (DOMAIN defs) :
                 KeyLess(defs[p[1]].registration.key, defs[p[2]].registration.key)}
  IN StableSorted([i \in DOMAIN defs |-> Described(defs[i].registration)], less)

(* operation_catalogue_builder::validate.                                  *)
ValidateError ==
  LET valid(i) == SignatureValid(definitions[i].registration)
                    /\ SemanticsValid(definitions[i].registration)
  IN IF \A i \in DOMAIN definitions : valid(i) THEN "ok" ELSE "invalid"

Validate == Refuse(IF frozen THEN "frozen" ELSE ValidateError)

Freeze ==
  IF frozen THEN Refuse("frozen")
  ELSE IF ValidateError # "ok" THEN Refuse(ValidateError)
  ELSE /\ frozen' = TRUE
       /\ catalogue' = {[id |-> CompatibilityId(definitions), operations |-> definitions,
                         keys |-> by_key, names |-> by_name]}
       /\ definitions' = <<>> /\ by_key' = <<>> /\ by_name' = <<>>
       /\ reply' = <<"ok", <<>>>>

Batches == UNION {[1..n -> Offered] : n \in 0..MaxBatch}

Next == (\E batch \in Batches : RegisterOperations(batch)) \/ Validate \/ Freeze

Spec == Init /\ [][Next]_vars

-----------------------------------------------------------------------------
(* What can be looked up: in the catalogue once there is one.              *)
Operations == IF frozen THEN UNION {Range(c.operations) : c \in catalogue}
              ELSE Range(definitions)
KeyIndex  == IF frozen THEN (CHOOSE c \in catalogue : TRUE).keys ELSE by_key
NameIndex == IF frozen THEN (CHOOSE c \in catalogue : TRUE).names ELSE by_name
At(id) == (CHOOSE d \in Operations : d.id = id).registration

Codes == {"ok", "frozen", "invalid", "invalid_operation", "duplicate_operation",
          "duplicate_name", "invalid_signature", "invalid_semantics", "capacity"}
Indexes(f, S) == DOMAIN f \subseteq S /\ \A x \in DOMAIN f : f[x] \in Nat \ {0}

TypeOK ==
  /\ definitions \in Seq([id : Nat \ {0}, registration : Offered])
  /\ Indexes(by_key, Key) /\ Indexes(by_name, Texts)
  /\ frozen \in BOOLEAN /\ (frozen <=> catalogue # {})
  /\ reply[1] \in Codes /\ reply[2] \in Seq(Nat \ {0})

(* Identifiers are positions that an operation_id can hold, and the two    *)
(* indexes lead to every operation by its key and its name and to nothing  *)
(* else, after any mix of accepted and refused batches.                    *)
Exact(defs, keys, names) ==
  /\ Len(defs) <= LastIndex + 1
  /\ \A i \in DOMAIN defs :
       LET r == defs[i].registration
       IN /\ defs[i].id = i
          /\ r.key \in DOMAIN keys /\ keys[r.key] = i
          /\ r.name \in DOMAIN names /\ names[r.name] = i
  /\ \A k \in DOMAIN keys : keys[k] \in DOMAIN defs /\ defs[keys[k]].registration.key = k
  /\ \A n \in DOMAIN names : names[n] \in DOMAIN defs /\ defs[names[n]].registration.name = n

IndexExact ==
  /\ Exact(definitions, by_key, by_name)
  /\ \A c \in catalogue : Exact(c.operations, c.keys, c.names)

(* validate repeats for every definition what register_operations has      *)
(* checked of it, so a builder that is not frozen can always be frozen.    *)
FreezeNeverFails == ~frozen => ValidateError = "ok"

(* The three together: indexes lead to every operation, by ids of their    *)
(* type, and a builder can be frozen.                                      *)
IndexesExact == TypeOK /\ IndexExact /\ FreezeNeverFails

(* Two catalogues are compatible exactly if they have operations with the  *)
(* same keys and each means the same in both, in whatever order and under  *)
(* whatever names they were registered.  The others are all that there can *)
(* be.                                                                     *)
SameMeaning(defs, others) ==
  {Described(d.registration) : d \in Range(defs)} = {Described(d.registration) : d \in Range(others)}
OtherCatalogues ==
  {defs \in UNION {[1..n -> {Definition(r, 1) : r \in Offered}] : n \in 0..(LastIndex + 1)} :
     \A i, j \in DOMAIN defs : i # j => defs[i].registration.key # defs[j].registration.key}
CompatibilityFaithful ==
  \A c \in catalogue : \A others \in OtherCatalogues :
    CompatibilityId(others) = c.id <=> SameMeaning(c.operations, others)

(* The builder implements a registry that only grows, by whole batches.    *)
Acceptable(r) == ~Nameless(r) /\ SignatureValid(r) /\ SemanticsValid(r)
Registry ==
  INSTANCE OperationRegistry WITH
    Definitions <- Offered, Acceptable <- Acceptable,
    known <- [k \in DOMAIN KeyIndex |-> At(KeyIndex[k])],
    named <- [n \in DOMAIN NameIndex |-> At(NameIndex[n])],
    sealed <- frozen
KeepsRegistry == Registry!Spec
=============================================================================
