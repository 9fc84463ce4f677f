----------------------- MODULE OperationCatalogueProofs -----------------------
(***************************************************************************)
(* Proofs about operation_catalogue_builder, for batches and registrations *)
(* of any number: its indexes, and that it implements the registry.        *)
(***************************************************************************)
EXTENDS OperationCatalogue, SortingProofs

(* freeze moves the builder's contents into one catalogue.                 *)
OneCatalogue == \A c, d \in catalogue : c = d

IInv == IndexesExact /\ OneCatalogue

-----------------------------------------------------------------------------
(* The loop over a batch stops at its first bad entry, if it has a bad one.*)
LEMMA FirstBadExists ==
  ASSUME NEW n \in Nat, NEW batch \in [1..n -> Offered], FirstBad(batch) = {}
  PROVE  \A i \in 1..n : EntryError(batch, i) = "ok"
<1> DEFINE Bad == {i \in 1..n : EntryError(batch, i) # "ok"}
<1> HIDE DEF Bad
<1>1. SUFFICES ASSUME Bad # {} PROVE FALSE
  BY DEF Bad
<1>2. PICK Below : Below = OpToRel(<, Nat)
  OBVIOUS
<1>3. IsWellFoundedOn(Below, Nat)
  BY <1>2, NatLessThanWellFounded
<1>4. \A j, k \in Nat : j < k => <<j, k>> \in Below
  BY <1>2 DEF OpToRel
<1>5. Bad \subseteq Nat
  BY DEF Bad
<1>6. \E i \in Bad : \A j \in Bad : ~(<<j, i>> \in Below)
  BY <1>1, <1>3, <1>5, WFMin
<1>7. PICK i \in Bad : \A j \in Bad : ~(<<j, i>> \in Below)
  BY <1>6
<1>8. i \in 1..n /\ EntryError(batch, i) # "ok"
  BY DEF Bad
<1>9. \A j \in 1..(i - 1) : EntryError(batch, j) = "ok"
  <2> SUFFICES ASSUME NEW j \in 1..(i - 1) PROVE EntryError(batch, j) = "ok"
    OBVIOUS
  <2>1. j \in 1..n /\ j \in Nat /\ i \in Nat /\ j < i
    BY <1>8
  <2>2. j \notin Bad
    BY <1>4, <1>7, <2>1
  <2> QED
    BY <2>1, <2>2 DEF Bad
<1>10. i \in FirstBad(batch)
  BY <1>8, <1>9 DEF FirstBad
<1> QED
  BY <1>10

(* What an accepted batch has passed.                                      *)
LEMMA AcceptedBatch ==
  ASSUME NEW n \in Nat, NEW batch \in [1..n -> Offered], BatchError(batch) = {}
  PROVE  /\ \A i \in 1..n :
              /\ ~Nameless(batch[i]) /\ SignatureValid(batch[i]) /\ SemanticsValid(batch[i])
              /\ batch[i].key \notin DOMAIN by_key /\ batch[i].name \notin DOMAIN by_name
              /\ \A j \in 1..(i - 1) :
                   batch[j].key # batch[i].key /\ batch[j].name # batch[i].name
         /\ Fits(batch)
<1>1. FirstBad(batch) = {} /\ Fits(batch)
  BY DEF BatchError
<1>2. \A i \in 1..n : EntryError(batch, i) = "ok"
  BY <1>1, FirstBadExists
<1>3. ASSUME NEW i \in 1..n
      PROVE  /\ ~Nameless(batch[i]) /\ SignatureValid(batch[i]) /\ SemanticsValid(batch[i])
             /\ ~TakenKey(batch, i) /\ ~TakenName(batch, i)
  BY <1>2 DEF EntryError
<1>4. ASSUME NEW i \in 1..n
      PROVE  /\ batch[i].key \notin DOMAIN by_key /\ batch[i].name \notin DOMAIN by_name
             /\ \A j \in 1..(i - 1) :
                  batch[j].key # batch[i].key /\ batch[j].name # batch[i].name
  BY <1>3 DEF TakenKey, TakenName
<1> QED
  BY <1>1, <1>3, <1>4

(* An index after it: old entries stay, new ones lead to their places.     *)
Fresh(map, labels, n) ==
  /\ DOMAIN labels = 1..n
  /\ \A i \in 1..n : labels[i] \notin DOMAIN map
  /\ \A i \in 1..n : \A j \in 1..(i - 1) : labels[j] # labels[i]
Added(index, map, labels, n) ==
  /\ DOMAIN index = DOMAIN map \cup {labels[i] : i \in 1..n}
  /\ \A x \in DOMAIN map : index[x] = map[x]
  /\ \A i \in 1..n : index[labels[i]] = Len(definitions) + i

LEMMA EntriesWith ==
  ASSUME NEW map, NEW labels, NEW n \in Nat, Fresh(map, labels, n), Len(definitions) \in Nat
  PROVE  Added(WithEntries(map, labels), map, labels, n)
<1> USE DEF Fresh
<1>1. Range(labels) = {labels[i] : i \in 1..n}
  BY DEF Range
<1>2. ASSUME NEW i \in 1..n
      PROVE  (CHOOSE j \in DOMAIN labels : labels[j] = labels[i]) = i
  <2>1. ASSUME NEW j \in 1..n, labels[j] = labels[i]
        PROVE  j = i
    <3>1. i \notin 1..(j - 1) /\ j \notin 1..(i - 1)
      BY <2>1
    <3> QED
      BY <3>1
  <2> QED
    BY <2>1
<1>3. ASSUME NEW i \in 1..n
      PROVE  WithEntries(map, labels)[labels[i]] = Len(definitions) + i
  BY <1>1, <1>2 DEF WithEntries
<1>4. /\ DOMAIN WithEntries(map, labels) = DOMAIN map \cup {labels[i] : i \in 1..n}
      /\ \A x \in DOMAIN map : WithEntries(map, labels)[x] = map[x]
  BY <1>1 DEF WithEntries
<1> QED
  BY <1>3, <1>4 DEF Added

LEMMA EntriesAdded ==
  ASSUME NEW n \in Nat, NEW batch \in [1..n -> Offered], BatchError(batch) = {},
         by_key' = WithEntries(by_key, [i \in DOMAIN batch |-> batch[i].key]),
         by_name' = WithEntries(by_name, [i \in DOMAIN batch |-> batch[i].name]),
         Len(definitions) \in Nat
  PROVE  /\ DOMAIN by_key' = DOMAIN by_key \cup {batch[i].key : i \in 1..n}
         /\ \A x \in DOMAIN by_key : by_key'[x] = by_key[x]
         /\ \A i \in 1..n : by_key'[batch[i].key] = Len(definitions) + i
         /\ DOMAIN by_name' = DOMAIN by_name \cup {batch[i].name : i \in 1..n}
         /\ \A x \in DOMAIN by_name : by_name'[x] = by_name[x]
         /\ \A i \in 1..n : by_name'[batch[i].name] = Len(definitions) + i
<1>1. PICK keys : keys = [i \in DOMAIN batch |-> batch[i].key]
  OBVIOUS
<1>2. PICK names : names = [i \in DOMAIN batch |-> batch[i].name]
  OBVIOUS
<1>3. /\ DOMAIN keys = 1..n /\ \A i \in 1..n : keys[i] = batch[i].key
      /\ DOMAIN names = 1..n /\ \A i \in 1..n : names[i] = batch[i].name
  BY <1>1, <1>2
<1>4. by_key' = WithEntries(by_key, keys) /\ by_name' = WithEntries(by_name, names)
  BY <1>1, <1>2
<1>5. \A i \in 1..n :
        /\ batch[i].key \notin DOMAIN by_key /\ batch[i].name \notin DOMAIN by_name
        /\ \A j \in 1..(i - 1) : batch[j].key # batch[i].key /\ batch[j].name # batch[i].name
  BY AcceptedBatch
<1>6. \A i \in 1..n : \A j \in 1..(i - 1) : j \in 1..n
  OBVIOUS
<1>7. Fresh(by_key, keys, n)
  BY <1>3, <1>5, <1>6 DEF Fresh
<1>8. Fresh(by_name, names, n)
  BY <1>3, <1>5, <1>6 DEF Fresh
<1>9. Added(by_key', by_key, keys, n)
  BY <1>4, <1>7, EntriesWith
<1>10. Added(by_name', by_name, names, n)
  BY <1>4, <1>8, EntriesWith
<1>11. /\ {keys[i] : i \in 1..n} = {batch[i].key : i \in 1..n}
       /\ {names[i] : i \in 1..n} = {batch[i].name : i \in 1..n}
  BY <1>3
<1> QED
  BY <1>3, <1>9, <1>10, <1>11 DEF Added

-----------------------------------------------------------------------------
Entry == [id : Nat \ {0}, registration : Offered]

LEMMA Types ==
  ASSUME TypeOK
  PROVE  /\ Len(definitions) \in Nat /\ DOMAIN definitions = 1..Len(definitions)
         /\ definitions \in Seq(Entry)
         /\ \A j \in DOMAIN definitions :
              /\ definitions[j].id \in Nat \ {0} /\ definitions[j].registration \in Offered
<1>1. definitions \in Seq(Entry)
  BY DEF TypeOK, Entry
<1>2. /\ Len(definitions) \in Nat /\ DOMAIN definitions = 1..Len(definitions)
      /\ \A j \in DOMAIN definitions : definitions[j] \in Entry
  BY <1>1
<1> QED
  BY <1>1, <1>2 DEF Entry

Joined(j, s, t) ==
  /\ Len(j) = Len(s) + Len(t) /\ DOMAIN j = 1..(Len(s) + Len(t))
  /\ \A k \in 1..Len(s) : j[k] = s[k]
  /\ \A k \in 1..Len(t) : j[Len(s) + k] = t[k]

LEMMA Concatenated ==
  ASSUME NEW S, NEW s \in Seq(S), NEW t \in Seq(S)
  PROVE  s \o t \in Seq(S) /\ Joined(s \o t, s, t)
BY DEF Joined

LEMMA RegistrationTypes ==
  ASSUME NEW r \in Offered
  PROVE  r.key \in Key /\ r.name \in Texts
BY OfferedAssumption DEF Registration

(* definitions after an accepted batch: old ones stay, new ones follow.    *)
LEMMA DefinitionsAppended ==
  ASSUME TypeOK, NEW n \in Nat, NEW batch \in [1..n -> Offered],
         definitions' = definitions \o
           [i \in DOMAIN batch |-> Definition(batch[i], Len(definitions) + i)]
  PROVE  /\ definitions' \in Seq(Entry)
         /\ Len(definitions') = Len(definitions) + n
         /\ DOMAIN definitions' = 1..(Len(definitions) + n)
         /\ \A j \in 1..Len(definitions) : definitions'[j] = definitions[j]
         /\ \A i \in 1..n : /\ definitions'[Len(definitions) + i].id = Len(definitions) + i
                            /\ definitions'[Len(definitions) + i].registration = batch[i]
<1>1. PICK added : added = [i \in 1..n |-> Definition(batch[i], Len(definitions) + i)]
  OBVIOUS
<1>2. Len(definitions) \in Nat /\ definitions \in Seq(Entry)
  BY Types
<1>3. \A i \in 1..n : Definition(batch[i], Len(definitions) + i) \in Entry
  BY <1>2 DEF Definition, Entry
<1>4. added \in [1..n -> Entry]
  BY <1>1, <1>3
<1>5. added \in Seq(Entry) /\ Len(added) = n
  BY <1>4
<1>6. definitions' = definitions \o added
  BY <1>1
<1>7. /\ definitions' \in Seq(Entry)
      /\ Len(definitions') = Len(definitions) + n
      /\ DOMAIN definitions' = 1..(Len(definitions) + n)
      /\ \A j \in 1..Len(definitions) : definitions'[j] = definitions[j]
      /\ \A i \in 1..n : definitions'[Len(definitions) + i] = added[i]
  <2>1. definitions' \in Seq(Entry) /\ Joined(definitions', definitions, added)
    BY <1>2, <1>5, <1>6, Concatenated
  <2> QED
    BY <1>5, <2>1 DEF Joined
<1>8. \A i \in 1..n : /\ added[i].id = Len(definitions) + i
                      /\ added[i].registration = batch[i]
  BY <1>1 DEF Definition
<1> QED
  BY <1>7, <1>8

(* A position of the longer sequence is an old one or a place of the batch.*)
LEMMA Positions ==
  ASSUME NEW m \in Nat, NEW n \in Nat, NEW p \in 1..(m + n)
  PROVE  p \in 1..m \/ \E i \in 1..n : p = m + i
<1>1. CASE p > m
  <2>1. p - m \in 1..n /\ p = m + (p - m)
    BY <1>1
  <2> QED
    BY <2>1
<1> QED
  BY <1>1

Accepts(n, batch) ==
  /\ ~frozen /\ BatchError(batch) = {}
  /\ n \in Nat /\ batch \in [1..n -> Offered]
  /\ definitions' = definitions \o
       [i \in DOMAIN batch |-> Definition(batch[i], Len(definitions) + i)]
  /\ by_key' = WithEntries(by_key, [i \in DOMAIN batch |-> batch[i].key])
  /\ by_name' = WithEntries(by_name, [i \in DOMAIN batch |-> batch[i].name])
  /\ reply' = <<"ok", NewIds(batch)>>
  /\ UNCHANGED <<frozen, catalogue>>

LEMMA AcceptKeepsTypes ==
  ASSUME IInv, NEW n, NEW batch, Accepts(n, batch)
  PROVE  TypeOK'
<1> USE DEF Accepts
<1>1. TypeOK
  BY DEF IInv, IndexesExact
<1>2. Len(definitions) \in Nat
  BY <1>1, Types
<1>3. definitions' \in Seq(Entry)
  BY <1>1, DefinitionsAppended
<1>4. \A i \in 1..n : batch[i].key \in Key /\ batch[i].name \in Texts
  BY RegistrationTypes
<1>5. Indexes(by_key, Key)' /\ Indexes(by_name, Texts)'
  <2>1. /\ DOMAIN by_key' = DOMAIN by_key \cup {batch[i].key : i \in 1..n}
        /\ \A x \in DOMAIN by_key : by_key'[x] = by_key[x]
        /\ \A i \in 1..n : by_key'[batch[i].key] = Len(definitions) + i
        /\ DOMAIN by_name' = DOMAIN by_name \cup {batch[i].name : i \in 1..n}
        /\ \A x \in DOMAIN by_name : by_name'[x] = by_name[x]
        /\ \A i \in 1..n : by_name'[batch[i].name] = Len(definitions) + i
    BY <1>2, EntriesAdded
  <2>2. Indexes(by_key, Key) /\ Indexes(by_name, Texts)
    BY <1>1 DEF TypeOK
  <2>3. \A i \in 1..n : Len(definitions) + i \in Nat \ {0}
    BY <1>2
  <2> HIDE DEF Accepts
  <2>4. ASSUME NEW x \in DOMAIN by_key'
        PROVE  x \in Key /\ by_key'[x] \in Nat \ {0}
    <3>1. CASE x \in DOMAIN by_key
      BY <2>1, <2>2, <3>1 DEF Indexes
    <3>2. ASSUME NEW i \in 1..n, x = batch[i].key
          PROVE  x \in Key /\ by_key'[x] \in Nat \ {0}
      <4>1. by_key'[x] = Len(definitions) + i
        BY <2>1, <3>2
      <4> QED
        BY <1>4, <2>3, <3>2, <4>1
    <3> QED
      BY <2>1, <3>1, <3>2
  <2>5. ASSUME NEW x \in DOMAIN by_name'
        PROVE  x \in Texts /\ by_name'[x] \in Nat \ {0}
    <3>1. CASE x \in DOMAIN by_name
      BY <2>1, <2>2, <3>1 DEF Indexes
    <3>2. ASSUME NEW i \in 1..n, x = batch[i].name
          PROVE  x \in Texts /\ by_name'[x] \in Nat \ {0}
      <4>1. by_name'[x] = Len(definitions) + i
        BY <2>1, <3>2
      <4> QED
        BY <1>4, <2>3, <3>2, <4>1
    <3> QED
      BY <2>1, <3>1, <3>2
  <2> QED
    BY <2>4, <2>5 DEF Indexes
<1>6. NewIds(batch) \in Seq(Nat \ {0})
  <2>1. NewIds(batch) \in [1..n -> Nat \ {0}]
    BY <1>2 DEF NewIds
  <2> QED
    BY <2>1
<1>7. reply'[1] \in Codes /\ reply'[2] \in Seq(Nat \ {0})
  BY <1>6 DEF Codes
<1> QED
  BY <1>1, <1>3, <1>5, <1>7 DEF TypeOK, Entry

LEMMA AcceptKeepsExact ==
  ASSUME IInv, NEW n, NEW batch, Accepts(n, batch)
  PROVE  Exact(definitions', by_key', by_name')
<1>1. TypeOK /\ Exact(definitions, by_key, by_name)
  BY DEF IInv, IndexesExact, IndexExact
<1>2. /\ n \in Nat /\ batch \in [1..n -> Offered] /\ BatchError(batch) = {}
      /\ LastIndex \in Nat
  BY TextsAssumption DEF Accepts
<1>3. Len(definitions) \in Nat /\ DOMAIN definitions = 1..Len(definitions)
  BY <1>1, Types
<1>4. /\ Len(definitions') = Len(definitions) + n
      /\ DOMAIN definitions' = 1..(Len(definitions) + n)
      /\ \A j \in 1..Len(definitions) : definitions'[j] = definitions[j]
      /\ \A i \in 1..n : /\ definitions'[Len(definitions) + i].id = Len(definitions) + i
                         /\ definitions'[Len(definitions) + i].registration = batch[i]
  BY <1>1, <1>2, DefinitionsAppended DEF Accepts
<1>5. /\ DOMAIN by_key' = DOMAIN by_key \cup {batch[i].key : i \in 1..n}
      /\ \A x \in DOMAIN by_key : by_key'[x] = by_key[x]
      /\ \A i \in 1..n : by_key'[batch[i].key] = Len(definitions) + i
      /\ DOMAIN by_name' = DOMAIN by_name \cup {batch[i].name : i \in 1..n}
      /\ \A x \in DOMAIN by_name : by_name'[x] = by_name[x]
      /\ \A i \in 1..n : by_name'[batch[i].name] = Len(definitions) + i
  BY <1>2, <1>3, EntriesAdded DEF Accepts
<1>6. Len(definitions') <= LastIndex + 1
  <2>1. Fits(batch) /\ Len(batch) = n /\ (batch = <<>> => n = 0)
    BY <1>2, AcceptedBatch
  <2> QED
    BY <1>2, <1>3, <1>4, <2>1 DEF Fits
<1>7. ASSUME NEW p \in DOMAIN definitions'
      PROVE  LET r == definitions'[p].registration
             IN /\ definitions'[p].id = p
                /\ r.key \in DOMAIN by_key' /\ by_key'[r.key] = p
                /\ r.name \in DOMAIN by_name' /\ by_name'[r.name] = p
  <2>1. p \in 1..Len(definitions) \/ \E i \in 1..n : p = Len(definitions) + i
    <3>1. p \in 1..(Len(definitions) + n)
      BY <1>4
    <3> QED
      BY <1>2, <1>3, <3>1, Positions
  <2>2. CASE p \in 1..Len(definitions)
    <3>1. /\ definitions[p].id = p
          /\ definitions[p].registration.key \in DOMAIN by_key
          /\ by_key[definitions[p].registration.key] = p
          /\ definitions[p].registration.name \in DOMAIN by_name
          /\ by_name[definitions[p].registration.name] = p
      BY <1>1, <1>3, <2>2 DEF Exact
    <3>2. definitions'[p] = definitions[p]
      BY <1>4, <2>2
    <3> QED
      BY <1>5, <3>1, <3>2
  <2>3. CASE \E i \in 1..n : p = Len(definitions) + i
    <3>1. PICK i \in 1..n : p = Len(definitions) + i
      BY <2>3
    <3>2. definitions'[p].id = p /\ definitions'[p].registration = batch[i]
      BY <1>4, <3>1
    <3>3. /\ batch[i].key \in DOMAIN by_key' /\ by_key'[batch[i].key] = p
          /\ batch[i].name \in DOMAIN by_name' /\ by_name'[batch[i].name] = p
      BY <1>5, <3>1
    <3> QED
      BY <3>2, <3>3
  <2> QED
    BY <2>1, <2>2, <2>3
<1>8. ASSUME NEW k \in DOMAIN by_key'
      PROVE  by_key'[k] \in DOMAIN definitions' /\ definitions'[by_key'[k]].registration.key = k
  <2>1. CASE k \in DOMAIN by_key
    <3>1. by_key[k] \in 1..Len(definitions) /\ definitions[by_key[k]].registration.key = k
      BY <1>1, <1>3, <2>1 DEF Exact
    <3> QED
      BY <1>2, <1>3, <1>4, <1>5, <2>1, <3>1
  <2>2. CASE \E i \in 1..n : k = batch[i].key
    <3>1. PICK i \in 1..n : k = batch[i].key
      BY <2>2
    <3>2. Len(definitions) + i \in 1..(Len(definitions) + n)
      BY <1>2, <1>3
    <3> QED
      BY <1>4, <1>5, <3>1, <3>2
  <2> QED
    BY <1>5, <2>1, <2>2
<1>9. ASSUME NEW x \in DOMAIN by_name'
      PROVE  by_name'[x] \in DOMAIN definitions' /\ definitions'[by_name'[x]].registration.name = x
  <2>1. CASE x \in DOMAIN by_name
    <3>1. by_name[x] \in 1..Len(definitions) /\ definitions[by_name[x]].registration.name = x
      BY <1>1, <1>3, <2>1 DEF Exact
    <3> QED
      BY <1>2, <1>3, <1>4, <1>5, <2>1, <3>1
  <2>2. CASE \E i \in 1..n : x = batch[i].name
    <3>1. PICK i \in 1..n : x = batch[i].name
      BY <2>2
    <3>2. Len(definitions) + i \in 1..(Len(definitions) + n)
      BY <1>2, <1>3
    <3> QED
      BY <1>4, <1>5, <3>1, <3>2
  <2> QED
    BY <1>5, <2>1, <2>2
<1> QED
  BY <1>6, <1>7, <1>8, <1>9 DEF Exact

LEMMA AcceptKeepsValid ==
  ASSUME IInv, NEW n, NEW batch, Accepts(n, batch)
  PROVE  FreezeNeverFails'
<1>1. TypeOK /\ ValidateError = "ok"
  BY DEF IInv, IndexesExact, FreezeNeverFails, Accepts
<1>2. n \in Nat /\ batch \in [1..n -> Offered] /\ BatchError(batch) = {}
  BY DEF Accepts
<1>3. Len(definitions) \in Nat /\ DOMAIN definitions = 1..Len(definitions)
  BY <1>1, Types
<1>4. /\ DOMAIN definitions' = 1..(Len(definitions) + n)
      /\ \A j \in 1..Len(definitions) : definitions'[j] = definitions[j]
      /\ \A i \in 1..n : definitions'[Len(definitions) + i].registration = batch[i]
  BY <1>1, <1>2, DefinitionsAppended DEF Accepts
<1>5. \A j \in 1..Len(definitions) : /\ SignatureValid(definitions[j].registration)
                                     /\ SemanticsValid(definitions[j].registration)
  BY <1>1, <1>3 DEF ValidateError
<1>6. \A i \in 1..n : SignatureValid(batch[i]) /\ SemanticsValid(batch[i])
  BY <1>2, AcceptedBatch
<1>7. ASSUME NEW p \in DOMAIN definitions'
      PROVE  /\ SignatureValid(definitions'[p].registration)
             /\ SemanticsValid(definitions'[p].registration)
  <2>1. p \in 1..Len(definitions) \/ \E i \in 1..n : p = Len(definitions) + i
    <3>1. p \in 1..(Len(definitions) + n)
      BY <1>4
    <3> QED
      BY <1>2, <1>3, <3>1, Positions
  <2> QED
    BY <1>4, <1>5, <1>6, <2>1
<1>8. ValidateError' = "ok"
  BY <1>7 DEF ValidateError
<1> QED
  BY <1>8 DEF FreezeNeverFails

LEMMA AcceptStep ==
  ASSUME IInv, NEW n, NEW batch, Accepts(n, batch)
  PROVE  IInv'
<1>1. TypeOK' /\ Exact(definitions', by_key', by_name') /\ FreezeNeverFails'
  BY AcceptKeepsTypes, AcceptKeepsExact, AcceptKeepsValid
<1>2. \A c \in catalogue : Exact(c.operations, c.keys, c.names)
  BY DEF IInv, IndexesExact, IndexExact
<1>3. catalogue' = catalogue /\ OneCatalogue
  BY DEF Accepts, IInv
<1>4. IndexExact' /\ OneCatalogue'
  BY <1>1, <1>2, <1>3 DEF IndexExact, OneCatalogue
<1> QED
  BY <1>1, <1>4 DEF IInv, IndexesExact

(* A refused call, and validate, change nothing but the reply.             *)
LEMMA RefuseStep ==
  ASSUME IInv, NEW code \in Codes, Refuse(code)
  PROVE  IInv'
<1>1. /\ UNCHANGED <<definitions, by_key, by_name, frozen, catalogue>>
      /\ reply' = <<code, <<>>>>
  BY DEF Refuse
<1>2. reply'[1] \in Codes /\ reply'[2] \in Seq(Nat \ {0})
  BY <1>1
<1>3. TypeOK'
  BY <1>1, <1>2 DEF IInv, IndexesExact, TypeOK
<1>4. IndexExact' /\ OneCatalogue'
  BY <1>1 DEF IInv, IndexesExact, IndexExact, OneCatalogue
<1>5. FreezeNeverFails'
  BY <1>1 DEF IInv, IndexesExact, FreezeNeverFails, ValidateError
<1> QED
  BY <1>3, <1>4, <1>5 DEF IInv, IndexesExact

LEMMA BatchErrorIsCode ==
  ASSUME NEW batch
  PROVE  BatchError(batch) \subseteq Codes
BY DEF BatchError, EntryError, Codes

LEMMA NothingIndexed ==
  /\ <<>> \in Seq(Entry) /\ Indexes(<<>>, Key) /\ Indexes(<<>>, Texts)
  /\ Exact(<<>>, <<>>, <<>>)
<1>1. DOMAIN <<>> = {} /\ Len(<<>>) = 0
  OBVIOUS
<1>2. Exact(<<>>, <<>>, <<>>)
  BY <1>1, TextsAssumption DEF Exact
<1> QED
  BY <1>1, <1>2 DEF Indexes

Frozen ==
  [id |-> CompatibilityId(definitions), operations |-> definitions,
   keys |-> by_key, names |-> by_name]

Closes ==
  /\ ~frozen /\ frozen' = TRUE /\ catalogue' = {Frozen}
  /\ definitions' = <<>> /\ by_key' = <<>> /\ by_name' = <<>> /\ reply' = <<"ok", <<>>>>

LEMMA CloseStep ==
  ASSUME IInv, Closes
  PROVE  IInv'
<1>1. reply'[1] \in Codes /\ reply'[2] \in Seq(Nat \ {0})
  BY DEF Closes, Codes
<1>2. TypeOK'
  BY <1>1, NothingIndexed DEF Closes, TypeOK, Entry
<1>3. Exact(definitions', by_key', by_name')
  BY NothingIndexed DEF Closes
<1>4. \A c \in catalogue' : c.operations = definitions /\ c.keys = by_key /\ c.names = by_name
  BY DEF Closes, Frozen
<1>5. Exact(definitions, by_key, by_name)
  BY DEF IInv, IndexesExact, IndexExact
<1>6. \A c \in catalogue' : Exact(c.operations, c.keys, c.names)
  BY <1>4, <1>5
<1>7. OneCatalogue' /\ FreezeNeverFails'
  BY DEF Closes, OneCatalogue, FreezeNeverFails
<1> QED
  BY <1>2, <1>3, <1>6, <1>7 DEF IInv, IndexesExact, IndexExact

(* Every step is one of the three, or none.                                *)
LEMMA Steps ==
  ASSUME Next
  PROVE  \/ \E code \in Codes : Refuse(code)
         \/ \E n : \E batch : Accepts(n, batch)
         \/ Closes
<1>1. ASSUME NEW batch \in Batches, RegisterOperations(batch)
      PROVE  (\E code \in Codes : Refuse(code)) \/ \E n : Accepts(n, batch)
  <2>1. PICK n \in 0..MaxBatch : batch \in [1..n -> Offered]
    BY <1>1 DEF Batches
  <2>2. n \in Nat
    BY <2>1
  <2>3. CASE frozen /\ Refuse("frozen")
    BY <2>3 DEF Codes
  <2>4. CASE \E code \in BatchError(batch) : Refuse(code)
    BY <2>4, BatchErrorIsCode
  <2>5. CASE ~frozen /\ BatchError(batch) = {} /\ ~(\E code \in Codes : Refuse(code))
    BY <1>1, <2>1, <2>2, <2>5 DEF RegisterOperations, Accepts, Codes
  <2> QED
    BY <1>1, <2>3, <2>4, <2>5 DEF RegisterOperations
<1>2. ValidateError \in Codes
  BY DEF ValidateError, Codes
<1>3. CASE Validate
  BY <1>2, <1>3 DEF Validate, Codes
<1>4. CASE Freeze
  BY <1>2, <1>4 DEF Freeze, Closes, Frozen, Codes
<1> QED
  BY <1>1, <1>3, <1>4 DEF Next

LEMMA StepHolds ==
  ASSUME IInv, [Next]_vars
  PROVE  IInv'
<1>1. CASE Next
  BY <1>1, Steps, RefuseStep, AcceptStep, CloseStep
<1>2. CASE UNCHANGED vars
  <2>1. UNCHANGED <<definitions, by_key, by_name, frozen, catalogue, reply>>
    BY <1>2 DEF vars
  <2>2. TypeOK'
    BY <2>1 DEF IInv, IndexesExact, TypeOK
  <2>3. IndexExact' /\ OneCatalogue' /\ FreezeNeverFails'
    BY <2>1 DEF IInv, IndexesExact, IndexExact, OneCatalogue, FreezeNeverFails, ValidateError
  <2> QED
    BY <2>2, <2>3 DEF IInv, IndexesExact
<1> QED
  BY <1>1, <1>2

LEMMA InitHolds == Init => IInv
<1> SUFFICES ASSUME Init PROVE IInv
  OBVIOUS
<1>1. /\ definitions = <<>> /\ by_key = <<>> /\ by_name = <<>>
      /\ frozen = FALSE /\ catalogue = {} /\ reply = <<"ok", <<>>>>
  BY DEF Init
<1>2. reply[1] \in Codes /\ reply[2] \in Seq(Nat \ {0})
  BY <1>1 DEF Codes
<1>3. TypeOK
  BY <1>1, <1>2, NothingIndexed DEF TypeOK, Entry
<1>4. IndexExact /\ OneCatalogue
  BY <1>1, NothingIndexed DEF IndexExact, OneCatalogue
<1>5. ValidateError = "ok"
  <2>1. DOMAIN definitions = {}
    BY <1>1
  <2> QED
    BY <2>1 DEF ValidateError
<1> QED
  BY <1>3, <1>4, <1>5 DEF IInv, IndexesExact, FreezeNeverFails

(* In every state both indexes are exact and the frozen catalogue is what  *)
(* the builder held: the invariant the theorems below rest on.             *)
THEOREM Inductive == Spec => []IInv
<1>1. IInv /\ [Next]_vars => IInv'
  BY StepHolds
<1> QED
  BY <1>1, InitHolds, PTL DEF Spec

(* register_operations, validate and freeze leave both indexes exact, the  *)
(* identifiers positions of their type, and a builder that can be frozen,  *)
(* whatever is registered in batches of any size.                          *)
THEOREM IndexesAreExact == Spec => []IndexesExact
<1>1. IInv => IndexesExact
  BY DEF IInv
<1> QED
  BY <1>1, Inductive, PTL

-----------------------------------------------------------------------------
(* The registry's two maps.                                                *)
Known == [k \in DOMAIN KeyIndex |-> At(KeyIndex[k])]
Named == [x \in DOMAIN NameIndex |-> At(NameIndex[x])]
Leads(index, defs) == [x \in DOMAIN index |-> defs[index[x]].registration]

Numbered(defs) == \A i \in DOMAIN defs : defs[i].id = i
LookedUp(defs, id) == (CHOOSE d \in Range(defs) : d.id = id).registration

LEMMA LookUp ==
  ASSUME NEW defs, Numbered(defs), NEW i \in DOMAIN defs
  PROVE  LookedUp(defs, i) = defs[i].registration
<1>1. defs[i] \in Range(defs) /\ defs[i].id = i
  BY DEF Numbered, Range
<1>2. \A d \in Range(defs) : d.id = i => d = defs[i]
  BY DEF Numbered, Range
<1>3. (CHOOSE d \in Range(defs) : d.id = i) = defs[i]
  BY <1>1, <1>2
<1> QED
  BY <1>3 DEF LookedUp

LEMMA Led ==
  ASSUME NEW defs, NEW keys, NEW names, Exact(defs, keys, names)
  PROVE  /\ [k \in DOMAIN keys |-> LookedUp(defs, keys[k])] = Leads(keys, defs)
         /\ [x \in DOMAIN names |-> LookedUp(defs, names[x])] = Leads(names, defs)
<1>1. /\ Numbered(defs)
      /\ \A k \in DOMAIN keys : keys[k] \in DOMAIN defs
      /\ \A x \in DOMAIN names : names[x] \in DOMAIN defs
  BY DEF Exact, Numbered
<1>2. \A k \in DOMAIN keys : LookedUp(defs, keys[k]) = defs[keys[k]].registration
  BY <1>1, LookUp
<1>3. \A x \in DOMAIN names : LookedUp(defs, names[x]) = defs[names[x]].registration
  BY <1>1, LookUp
<1> QED
  BY <1>2, <1>3 DEF Leads

(* While the builder is open its own indexes lead to its definitions.      *)
LEMMA OpenMaps ==
  ASSUME IInv, ~frozen
  PROVE  Known = Leads(by_key, definitions) /\ Named = Leads(by_name, definitions)
<1>1. Exact(definitions, by_key, by_name)
  BY DEF IInv, IndexesExact, IndexExact
<1>2. /\ Known = [k \in DOMAIN by_key |-> LookedUp(definitions, by_key[k])]
      /\ Named = [x \in DOMAIN by_name |-> LookedUp(definitions, by_name[x])]
  BY DEF Known, Named, KeyIndex, NameIndex, At, Operations, LookedUp
<1> QED
  BY <1>1, <1>2, Led

LEMMA OpenMapsAfter ==
  ASSUME IInv', ~frozen'
  PROVE  Known' = Leads(by_key', definitions') /\ Named' = Leads(by_name', definitions')
<1>1. Exact(definitions', by_key', by_name')
  BY DEF IInv, IndexesExact, IndexExact
<1>2. /\ Known' = [k \in DOMAIN by_key' |-> LookedUp(definitions', by_key'[k])]
      /\ Named' = [x \in DOMAIN by_name' |-> LookedUp(definitions', by_name'[x])]
  BY DEF Known, Named, KeyIndex, NameIndex, At, Operations, LookedUp
<1> QED
  BY <1>1, <1>2, Led

(* A batch enters the registry as a whole.                                 *)
LEMMA AcceptRegisters ==
  ASSUME IInv, NEW n, NEW batch, Accepts(n, batch)
  PROVE  Registry!Next
<1>1. /\ TypeOK /\ Exact(definitions, by_key, by_name)
      /\ n \in Nat /\ batch \in [1..n -> Offered] /\ BatchError(batch) = {}
      /\ ~frozen /\ ~frozen' /\ frozen' = frozen
  BY DEF IInv, IndexesExact, IndexExact, Accepts
<1>2. Len(definitions) \in Nat /\ DOMAIN definitions = 1..Len(definitions)
  BY <1>1, Types
<1>3. /\ \A j \in 1..Len(definitions) : definitions'[j] = definitions[j]
      /\ \A i \in 1..n : definitions'[Len(definitions) + i].registration = batch[i]
  BY <1>1, DefinitionsAppended DEF Accepts
<1>4. /\ DOMAIN by_key' = DOMAIN by_key \cup {batch[i].key : i \in 1..n}
      /\ \A x \in DOMAIN by_key : by_key'[x] = by_key[x]
      /\ \A i \in 1..n : by_key'[batch[i].key] = Len(definitions) + i
      /\ DOMAIN by_name' = DOMAIN by_name \cup {batch[i].name : i \in 1..n}
      /\ \A x \in DOMAIN by_name : by_name'[x] = by_name[x]
      /\ \A i \in 1..n : by_name'[batch[i].name] = Len(definitions) + i
  BY <1>1, <1>2, EntriesAdded DEF Accepts
<1>5. \A i \in 1..n :
        /\ Acceptable(batch[i])
        /\ batch[i].key \notin DOMAIN by_key /\ batch[i].name \notin DOMAIN by_name
  BY <1>1, AcceptedBatch DEF Acceptable
<1>6. /\ Known = Leads(by_key, definitions) /\ Named = Leads(by_name, definitions)
      /\ Known' = Leads(by_key', definitions') /\ Named' = Leads(by_name', definitions')
  BY <1>1, OpenMaps, OpenMapsAfter, AcceptStep
<1> DEFINE S == {batch[i] : i \in 1..n}
<1>7. Registry!Extends(Known, Known', {<<d.key, d>> : d \in S})
  <2>1. DOMAIN Known' = DOMAIN Known \cup {batch[i].key : i \in 1..n}
    BY <1>4, <1>6 DEF Leads
  <2>2. ASSUME NEW x \in DOMAIN Known
        PROVE  x \notin {batch[i].key : i \in 1..n} /\ Known'[x] = Known[x]
    <3>1. x \in DOMAIN by_key /\ by_key[x] \in 1..Len(definitions)
      BY <1>1, <1>2, <1>6 DEF Leads, Exact
    <3> QED
      BY <1>3, <1>4, <1>5, <1>6, <3>1 DEF Leads
  <2>3. ASSUME NEW i \in 1..n
        PROVE  Known'[batch[i].key] = batch[i]
    BY <1>3, <1>4, <1>6 DEF Leads
  <2>4. {e[1] : e \in {<<d.key, d>> : d \in S}} = {batch[i].key : i \in 1..n}
    <3> DEFINE P == {<<d.key, d>> : d \in S}
    <3>1. ASSUME NEW e \in P PROVE \E i \in 1..n : e[1] = batch[i].key
      <4>1. PICK d \in S : e = <<d.key, d>>
        OBVIOUS
      <4>2. PICK i \in 1..n : d = batch[i]
        OBVIOUS
      <4>3. e[1] = d.key
        BY <4>1
      <4> QED
        BY <4>2, <4>3
    <3>2. ASSUME NEW i \in 1..n PROVE \E e \in P : e[1] = batch[i].key
      <4>1. <<batch[i].key, batch[i]>> \in P
        OBVIOUS
      <4>2. <<batch[i].key, batch[i]>>[1] = batch[i].key
        OBVIOUS
      <4> QED
        BY <4>1, <4>2
    <3> QED
      BY <3>1, <3>2
  <2>5. \A e \in {<<d.key, d>> : d \in S} : Known'[e[1]] = e[2]
    BY <2>3
  <2> QED
    BY <2>1, <2>2, <2>4, <2>5 DEF Registry!Extends
<1>8. Registry!Extends(Named, Named', {<<d.name, d>> : d \in S})
  <2>1. DOMAIN Named' = DOMAIN Named \cup {batch[i].name : i \in 1..n}
    BY <1>4, <1>6 DEF Leads
  <2>2. ASSUME NEW x \in DOMAIN Named
        PROVE  x \notin {batch[i].name : i \in 1..n} /\ Named'[x] = Named[x]
    <3>1. x \in DOMAIN by_name /\ by_name[x] \in 1..Len(definitions)
      BY <1>1, <1>2, <1>6 DEF Leads, Exact
    <3> QED
      BY <1>3, <1>4, <1>5, <1>6, <3>1 DEF Leads
  <2>3. ASSUME NEW i \in 1..n
        PROVE  Named'[batch[i].name] = batch[i]
    BY <1>3, <1>4, <1>6 DEF Leads
  <2>4. {e[1] : e \in {<<d.name, d>> : d \in S}} = {batch[i].name : i \in 1..n}
    <3> DEFINE P == {<<d.name, d>> : d \in S}
    <3>1. ASSUME NEW e \in P PROVE \E i \in 1..n : e[1] = batch[i].name
      <4>1. PICK d \in S : e = <<d.name, d>>
        OBVIOUS
      <4>2. PICK i \in 1..n : d = batch[i]
        OBVIOUS
      <4>3. e[1] = d.name
        BY <4>1
      <4> QED
        BY <4>2, <4>3
    <3>2. ASSUME NEW i \in 1..n PROVE \E e \in P : e[1] = batch[i].name
      <4>1. <<batch[i].name, batch[i]>> \in P
        OBVIOUS
      <4>2. <<batch[i].name, batch[i]>>[1] = batch[i].name
        OBVIOUS
      <4> QED
        BY <4>1, <4>2
    <3> QED
      BY <3>1, <3>2
  <2>5. \A e \in {<<d.name, d>> : d \in S} : Named'[e[1]] = e[2]
    BY <2>3
  <2> QED
    BY <2>1, <2>2, <2>4, <2>5 DEF Registry!Extends
<1>9. S \in SUBSET Offered /\ \A d \in S : Acceptable(d)
  BY <1>1, <1>5
<1>10. Registry!Register(S)
  BY <1>1, <1>7, <1>8, <1>9 DEF Registry!Register, Known, Named
<1> QED
  BY <1>9, <1>10 DEF Registry!Next

(* freeze moves the entries and changes none.                              *)
LEMMA CloseSeals ==
  ASSUME IInv, Closes
  PROVE  Registry!Next
<1>1. ~frozen /\ frozen' = TRUE /\ catalogue' = {Frozen}
  BY DEF Closes
<1>2. (CHOOSE c \in catalogue' : TRUE) = Frozen
  BY <1>1
<1>3. Frozen.keys = by_key /\ Frozen.names = by_name /\ Frozen.operations = definitions
  BY DEF Frozen
<1>4. KeyIndex' = KeyIndex /\ NameIndex' = NameIndex
  BY <1>1, <1>2, <1>3 DEF KeyIndex, NameIndex
<1>5. Operations' = Operations
  BY <1>1, <1>3 DEF Operations
<1>6. Known' = Known /\ Named' = Named
  BY <1>4, <1>5 DEF Known, Named, At
<1>7. Registry!Seal
  BY <1>1, <1>6 DEF Registry!Seal, Known, Named
<1> QED
  BY <1>7 DEF Registry!Next

LEMMA NothingChanges ==
  ASSUME UNCHANGED <<definitions, by_key, by_name, frozen, catalogue>>
  PROVE  UNCHANGED Registry!vars
BY DEF Registry!vars, KeyIndex, NameIndex, At, Operations

(* The builder, with batches of any size, implements the registry: whole   *)
(* batches enter, no entry changes or goes away, and freeze ends it.       *)
THEOREM Implements == Spec => KeepsRegistry
<1>1. Init => Registry!Init
  <2> SUFFICES ASSUME Init PROVE Registry!Init
    OBVIOUS
  <2>1. /\ definitions = <<>> /\ by_key = <<>> /\ by_name = <<>> /\ frozen = FALSE
    BY DEF Init
  <2>2. DOMAIN KeyIndex = {} /\ DOMAIN NameIndex = {}
    BY <2>1 DEF KeyIndex, NameIndex
  <2> QED
    BY <2>1, <2>2 DEF Registry!Init
<1>2. IInv /\ [Next]_vars => [Registry!Next]_(Registry!vars)
  <2> SUFFICES ASSUME IInv, [Next]_vars PROVE [Registry!Next]_(Registry!vars)
    OBVIOUS
  <2>1. CASE Next
    BY <2>1, Steps, AcceptRegisters, CloseSeals, NothingChanges DEF Refuse
  <2>2. CASE UNCHANGED vars
    BY <2>2, NothingChanges DEF vars
  <2> QED
    BY <2>1, <2>2
<1> QED
  BY <1>1, <1>2, Inductive, PTL DEF Spec, KeepsRegistry, Registry!Spec

-----------------------------------------------------------------------------
(* Compatibility: the identifier of a catalogue against what it means.     *)
Distinct(defs, n) ==
  /\ n \in Nat /\ DOMAIN defs = 1..n
  /\ \A i \in 1..n : defs[i].registration \in Offered
  /\ \A i, j \in 1..n : i # j => defs[i].registration.key # defs[j].registration.key

Descriptions == {Described(r) : r \in Offered}
ByKey == {p \in Descriptions \X Descriptions : KeyLess(p[1].key, p[2].key)}
Encoded(defs) == [i \in DOMAIN defs |-> Described(defs[i].registration)]
Compared(defs) ==
  {p \in (DOMAIN defs) \X (DOMAIN defs) :
     KeyLess(defs[p[1]].registration.key, defs[p[2]].registration.key)}

(* Keys are compared by their text, then by their version.                 *)
LEMMA KeysCompared ==
  /\ \A a, b \in Key : KeyLess(a, b) => ~KeyLess(b, a)
  /\ \A a, b, c \in Key : KeyLess(a, c) => KeyLess(a, b) \/ KeyLess(b, c)
  /\ \A a, b \in Key : a # b => KeyLess(a, b) \/ KeyLess(b, a)
<1>1. \A a \in Key : a.text \in Nat /\ a.version \in Nat
  BY TextsAssumption DEF Key
<1>2. \A a, b \in Key : a.text = b.text /\ a.version = b.version => a = b
  BY DEF Key
<1>3. \A a, b \in Key : KeyLess(a, b) => ~KeyLess(b, a)
  BY <1>1 DEF KeyLess
<1>4. \A a, b, c \in Key : KeyLess(a, c) => KeyLess(a, b) \/ KeyLess(b, c)
  BY <1>1 DEF KeyLess
<1>5. \A a, b \in Key : a # b => KeyLess(a, b) \/ KeyLess(b, a)
  BY <1>1, <1>2 DEF KeyLess
<1> QED
  BY <1>3, <1>4, <1>5

LEMMA DescribedKey ==
  ASSUME NEW r \in Offered
  PROVE  Described(r) \in Descriptions /\ Described(r).key = r.key /\ r.key \in Key
BY RegistrationTypes DEF Descriptions, Described

LEMMA ByKeyStrict == Strict(ByKey)
<1>1. \A x \in Descriptions : x.key \in Key
  BY DescribedKey DEF Descriptions
<1> QED
  BY <1>1, KeysCompared DEF Strict, ByKey

LEMMA ComparedSorts ==
  ASSUME NEW defs, NEW n, Distinct(defs, n)
  PROVE  /\ Encoded(defs) \in [1..n -> Descriptions]
         /\ Sortable(Encoded(defs), n, Compared(defs))
         /\ Tells(Compared(defs), Encoded(defs), n, ByKey)
<1>1. /\ n \in Nat /\ DOMAIN defs = 1..n
      /\ \A i \in 1..n : defs[i].registration \in Offered
      /\ \A i, j \in 1..n : i # j => defs[i].registration.key # defs[j].registration.key
  BY DEF Distinct
<1> DEFINE K(i) == defs[i].registration.key
<1>2. \A i \in 1..n : /\ K(i) \in Key
                      /\ Encoded(defs)[i] \in Descriptions /\ Encoded(defs)[i].key = K(i)
  BY <1>1, DescribedKey DEF Encoded
<1>3. Encoded(defs) \in [1..n -> Descriptions]
  BY <1>1, <1>2 DEF Encoded
<1>4. \A i, j \in 1..n : <<i, j>> \in Compared(defs) <=> KeyLess(K(i), K(j))
  BY <1>1 DEF Compared
<1>5. \A i, j \in 1..n : i # j => K(i) # K(j)
  BY <1>1
<1> HIDE DEF K
<1>6. WeakOrder(Compared(defs), 1..n)
  <2>1. ASSUME NEW i \in 1..n, NEW j \in 1..n, <<i, j>> \in Compared(defs)
        PROVE  <<j, i>> \notin Compared(defs)
    BY <1>2, <1>4, <2>1, KeysCompared
  <2>2. ASSUME NEW i \in 1..n, NEW j \in 1..n, NEW k \in 1..n, <<i, k>> \in Compared(defs)
        PROVE  <<i, j>> \in Compared(defs) \/ <<j, k>> \in Compared(defs)
    BY <1>2, <1>4, <2>2, KeysCompared
  <2> QED
    BY <2>1, <2>2 DEF WeakOrder
<1>7. Tells(Compared(defs), Encoded(defs), n, ByKey)
  <2>1. ASSUME NEW i \in 1..n, NEW j \in 1..n, <<i, j>> \in Compared(defs)
        PROVE  <<Encoded(defs)[i], Encoded(defs)[j]>> \in ByKey
    BY <1>2, <1>4, <2>1 DEF ByKey
  <2>2. ASSUME NEW i \in 1..n, NEW j \in 1..n, i # j
        PROVE  <<i, j>> \in Compared(defs) \/ <<j, i>> \in Compared(defs)
    BY <1>2, <1>4, <1>5, <2>2, KeysCompared
  <2> QED
    BY <2>1, <2>2 DEF Tells
<1>8. DOMAIN Encoded(defs) = 1..n
  BY <1>1 DEF Encoded
<1> QED
  BY <1>1, <1>3, <1>6, <1>7, <1>8 DEF Sortable

LEMMA IdIsSorted ==
  ASSUME NEW defs, NEW n, Distinct(defs, n)
  PROVE  /\ CompatibilityId(defs) \in [1..n -> Descriptions]
         /\ Ordered(CompatibilityId(defs), ByKey)
         /\ Elements(CompatibilityId(defs)) = {Described(d.registration) : d \in Range(defs)}
<1>1. CompatibilityId(defs) = StableSorted(Encoded(defs), Compared(defs))
  BY DEF CompatibilityId, Encoded, Compared
<1>2. /\ Encoded(defs) \in [1..n -> Descriptions]
      /\ Sortable(Encoded(defs), n, Compared(defs))
      /\ Tells(Compared(defs), Encoded(defs), n, ByKey)
  BY ComparedSorts
<1>3. Elements(Encoded(defs)) = {Described(d.registration) : d \in Range(defs)}
  BY DEF Elements, Encoded, Range
<1>4. LET t == StableSorted(Encoded(defs), Compared(defs))
      IN  /\ t \in [1..n -> Descriptions] /\ Elements(t) = Elements(Encoded(defs))
          /\ Ordered(t, ByKey)
  BY <1>2, SortOrders
<1> QED
  BY <1>1, <1>3, <1>4

(* Two catalogues of any size have the same identifier if and only if they *)
(* have the same operations but for the order and the names.               *)
LEMMA SameIdSameMeaning ==
  ASSUME NEW defs, NEW n, Distinct(defs, n), NEW others, NEW m, Distinct(others, m)
  PROVE  CompatibilityId(others) = CompatibilityId(defs) <=> SameMeaning(defs, others)
<1>1. n \in Nat /\ m \in Nat
  BY DEF Distinct
<1>2. ASSUME CompatibilityId(others) = CompatibilityId(defs)
      PROVE  SameMeaning(defs, others)
  BY <1>2, IdIsSorted DEF SameMeaning
<1>3. ASSUME SameMeaning(defs, others)
      PROVE  CompatibilityId(others) = CompatibilityId(defs)
  <2> DEFINE a == CompatibilityId(others)
             b == CompatibilityId(defs)
  <2>1. /\ a \in [1..m -> Descriptions] /\ b \in [1..n -> Descriptions]
        /\ Ordered(a, ByKey) /\ Ordered(b, ByKey) /\ Elements(a) = Elements(b)
    BY <1>3, IdIsSorted DEF SameMeaning
  <2> HIDE DEF a, b
  <2>2. a = b
    BY <1>1, <2>1, ByKeyStrict, OrderedUnique
  <2> QED
    BY <2>2 DEF a, b
<1> QED
  BY <1>2, <1>3

(* What freeze made the catalogue of.                                      *)
MadeOfOperations ==
  \A c \in catalogue :
    /\ c.operations \in Seq(Entry) /\ Exact(c.operations, c.keys, c.names)
    /\ c.id = CompatibilityId(c.operations)

LEMMA MadeHolds == Spec => []MadeOfOperations
<1>1. Init => MadeOfOperations
  BY DEF Init, MadeOfOperations
<1>2. IInv /\ MadeOfOperations /\ [Next]_vars => MadeOfOperations'
  <2> SUFFICES ASSUME IInv, MadeOfOperations, [Next]_vars PROVE MadeOfOperations'
    OBVIOUS
  <2>1. CASE catalogue' = catalogue
    BY <2>1 DEF MadeOfOperations
  <2>2. CASE Closes
    <3>1. definitions \in Seq(Entry) /\ Exact(definitions, by_key, by_name)
      BY Types DEF IInv, IndexesExact, IndexExact
    <3> QED
      BY <2>2, <3>1 DEF Closes, Frozen, MadeOfOperations
  <2>3. CASE Next /\ ~Closes
    <3>1. catalogue' = catalogue
      BY <2>3, Steps DEF Refuse, Accepts
    <3> QED
      BY <2>1, <3>1
  <2> QED
    BY <2>1, <2>2, <2>3 DEF vars
<1> QED
  BY <1>1, <1>2, Inductive, PTL DEF Spec

(* Whatever was registered, in batches of any size and in any order: two   *)
(* catalogues have equal compatibility values exactly if every operation   *)
(* means the same in both.                                                 *)
THEOREM CompatibilityIsFaithful == Spec => []CompatibilityFaithful
<1>1. MadeOfOperations => CompatibilityFaithful
  <2> SUFFICES ASSUME MadeOfOperations, NEW c \in catalogue, NEW others \in OtherCatalogues
               PROVE  CompatibilityId(others) = c.id <=> SameMeaning(c.operations, others)
    BY DEF CompatibilityFaithful
  <2>1. PICK m \in Nat : Distinct(others, m)
    <3>1. PICK m \in 0..(LastIndex + 1) : others \in [1..m -> {Definition(r, 1) : r \in Offered}]
      BY DEF OtherCatalogues
    <3>2. \A i \in 1..m : others[i].registration \in Offered
      BY <3>1 DEF Definition
    <3>3. m \in Nat /\ DOMAIN others = 1..m
      BY <3>1, TextsAssumption
    <3> QED
      BY <3>2, <3>3 DEF Distinct, OtherCatalogues
  <2>2. PICK n \in Nat : Distinct(c.operations, n)
    <3>1. c.operations \in Seq(Entry) /\ Exact(c.operations, c.keys, c.names)
      BY DEF MadeOfOperations
    <3>2. \A i \in DOMAIN c.operations : c.operations[i].registration \in Offered
      <4>1. \A i \in DOMAIN c.operations : c.operations[i] \in Entry
        BY <3>1
      <4> QED
        BY <4>1 DEF Entry
    <3>3. \A i \in DOMAIN c.operations : c.keys[c.operations[i].registration.key] = i
      BY <3>1 DEF Exact
    <3>4. Len(c.operations) \in Nat /\ DOMAIN c.operations = 1..Len(c.operations)
      BY <3>1
    <3> QED
      BY <3>2, <3>3, <3>4 DEF Distinct
  <2>3. c.id = CompatibilityId(c.operations)
    BY DEF MadeOfOperations
  <2> QED
    BY <2>1, <2>2, <2>3, SameIdSameMeaning
<1> QED
  BY <1>1, MadeHolds, PTL
=============================================================================
