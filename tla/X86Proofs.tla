------------------------------ MODULE X86Proofs ------------------------------
(***************************************************************************)
(* Proofs about the x86 library: how machine locations are related         *)
(* (X86Registers), for locations and ranges of any size; how a text is cut *)
(* into tokens (X86Tokenizer), for texts of any length; how tokens are     *)
(* parsed to instructions (X86Parser), for any number of them; and what    *)
(* the resolver and the semantic provider make of instructions             *)
(* (X86Machine), for any instructions over any registers and memory,       *)
(* executed in any order and number.                                       *)
(***************************************************************************)
EXTENDS X86Registers, X86Tokenizer, X86Parser, X86Machine, SortingProofs, SequenceTheorems

-----------------------------------------------------------------------------
(* Ranges of bits and locations.                                           *)

(* A range validate accepts does not wrap: its end lies after its offset,  *)
(* where the sum without limit would be.                                   *)
LEMMA ValidEnds ==
  ASSUME NEW r \in BitRange, Valid(r)
  PROVE  EndBit(r) = r.offset + r.width /\ r.offset < EndBit(r)
<1> DEFINE sum == r.offset + r.width
<1>1. /\ r.offset \in Nat /\ r.width \in Nat /\ RangeLimit \in Nat \ {0}
      /\ r.offset < RangeLimit /\ r.width < RangeLimit
  BY RangeLimitAssumption DEF BitRange, Range32
<1>2. EndBit(r) = sum % RangeLimit /\ r.width # 0 /\ ~(EndBit(r) < r.offset)
  BY DEF Valid, EndBit
<1>3. sum < RangeLimit => sum % RangeLimit = sum
  BY <1>1
<1>4. sum >= RangeLimit => sum % RangeLimit = sum - RangeLimit
  BY <1>1
<1>5. ~(sum >= RangeLimit)
  BY <1>1, <1>2, <1>4
<1> QED
  BY <1>1, <1>2, <1>3, <1>5

(* contains, of the code: exactly when every bit of one range is a bit of  *)
(* the other.                                                              *)
THEOREM ContainsExact ==
  ASSUME NEW r \in BitRange, NEW other \in BitRange, Valid(r), Valid(other)
  PROVE  ContainsRange(r, other) <=> BitsOf(other) \subseteq BitsOf(r)
<1>1. /\ r.offset \in Nat /\ r.width \in Nat /\ other.offset \in Nat /\ other.width \in Nat
      /\ r.width # 0 /\ other.width # 0
  BY RangeLimitAssumption DEF BitRange, Range32, Valid
<1>2. EndBit(r) = r.offset + r.width /\ EndBit(other) = other.offset + other.width
  BY ValidEnds
<1>3. ASSUME ContainsRange(r, other) PROVE BitsOf(other) \subseteq BitsOf(r)
  BY <1>1, <1>2, <1>3 DEF ContainsRange, BitsOf
<1>4. ASSUME BitsOf(other) \subseteq BitsOf(r) PROVE ContainsRange(r, other)
  <2>1. other.offset \in BitsOf(r) /\ other.offset + other.width - 1 \in BitsOf(r)
    BY <1>1, <1>4 DEF BitsOf
  <2> QED
    BY <1>1, <1>2, <2>1 DEF ContainsRange, BitsOf
<1> QED
  BY <1>3, <1>4

(* overlaps, of the code: exactly when some bit is in both ranges.         *)
THEOREM OverlapsExact ==
  ASSUME NEW r \in BitRange, NEW other \in BitRange, Valid(r), Valid(other)
  PROVE  OverlapsRange(r, other) <=> BitsOf(r) \cap BitsOf(other) # {}
<1>1. /\ r.offset \in Nat /\ r.width \in Nat /\ other.offset \in Nat /\ other.width \in Nat
      /\ r.width # 0 /\ other.width # 0
  BY RangeLimitAssumption DEF BitRange, Range32, Valid
<1>2. EndBit(r) = r.offset + r.width /\ EndBit(other) = other.offset + other.width
  BY ValidEnds
<1>3. ASSUME OverlapsRange(r, other) PROVE BitsOf(r) \cap BitsOf(other) # {}
  <2>1. CASE r.offset <= other.offset
    BY <1>1, <1>2, <1>3, <2>1, other.offset \in BitsOf(r), other.offset \in BitsOf(other)
    DEF OverlapsRange, BitsOf
  <2>2. CASE other.offset <= r.offset
    BY <1>1, <1>2, <1>3, <2>2, r.offset \in BitsOf(r), r.offset \in BitsOf(other)
    DEF OverlapsRange, BitsOf
  <2> QED
    BY <1>1, <2>1, <2>2
<1>4. ASSUME NEW b \in BitsOf(r) \cap BitsOf(other) PROVE OverlapsRange(r, other)
  BY <1>1, <1>2 DEF OverlapsRange, BitsOf
<1> QED
  BY <1>3, <1>4

-----------------------------------------------------------------------------
(* The registers of the catalogue: only those of 32 bits have a parent.    *)
Parents(name) ==
  IF name[1] = "e" THEN {[reg |-> <<"r", name[2]>>, offset |-> 0, width |-> 32]} ELSE {}
Described ==
  {RegisterInfo(name, width, bank, Parents(name)) :
     name \in {"xmm", "e", "r", "mxcsr"} \X Nat, width \in {32, 64, 128},
     bank \in {"simd", "gpr", "mxcsr"}}

LEMMA KnownRegister ==
  ASSUME NEW family \in {"xmm", "e", "r", "mxcsr"}, NEW k \in Nat, NEW width \in {32, 64, 128},
         NEW bank \in {"simd", "gpr", "mxcsr"}
  PROVE  RegisterInfo(<<family, k>>, width, bank, Parents(<<family, k>>)) \in Described
<1>1. <<family, k>> \in {"xmm", "e", "r", "mxcsr"} \X Nat
  OBVIOUS
<1> QED
  BY <1>1 DEF Described

LEMMA RegistersKnown == ToSet(Registers) \subseteq Described
<1>1. \A k \in Nat : Full64(k) \in Described /\ Low32(k) \in Described
  <2> TAKE k \in Nat
  <2>1. /\ Parents(<<"r", k>>) = {}
        /\ Parents(<<"e", k>>) = {[reg |-> <<"r", k>>, offset |-> 0, width |-> 32]}
    BY DEF Parents
  <2>2. /\ RegisterInfo(<<"r", k>>, 64, "gpr", Parents(<<"r", k>>)) \in Described
        /\ RegisterInfo(<<"e", k>>, 32, "gpr", Parents(<<"e", k>>)) \in Described
    BY KnownRegister
  <2> QED
    BY <2>1, <2>2 DEF Full64, Low32
<1>2. [k \in 1..16 |-> RegisterInfo(<<"xmm", k - 1>>, 128, "simd", {})] \in Seq(Described)
  <2>1. ASSUME NEW k \in 1..16
        PROVE  RegisterInfo(<<"xmm", k - 1>>, 128, "simd", {}) \in Described
    <3>1. k - 1 \in Nat /\ Parents(<<"xmm", k - 1>>) = {}
      BY DEF Parents
    <3> QED
      BY <3>1, KnownRegister
  <2> QED
    BY <2>1
<1>3. /\ [k \in 1..8 |-> Low32(k - 1)] \in Seq(Described)
      /\ [k \in 1..8 |-> Full64(k - 1)] \in Seq(Described)
  <2>1. \A k \in 1..8 : Low32(k - 1) \in Described /\ Full64(k - 1) \in Described
    BY <1>1
  <2> QED
    BY <2>1
<1>4. [k \in 1..16 |-> LET n == 8 + (k - 1) \div 2 IN IF k % 2 = 1 THEN Full64(n) ELSE Low32(n)]
        \in Seq(Described)
  <2>1. \A k \in 1..16 : 8 + (k - 1) \div 2 \in Nat
    OBVIOUS
  <2>2. \A k \in 1..16 : (LET n == 8 + (k - 1) \div 2 IN IF k % 2 = 1 THEN Full64(n) ELSE Low32(n))
                           \in Described
    BY <1>1, <2>1
  <2> QED
    BY <2>2
<1>5. <<RegisterInfo(<<"mxcsr", 0>>, 32, "mxcsr", {})>> \in Seq(Described)
  <2>1. Parents(<<"mxcsr", 0>>) = {}
    BY DEF Parents
  <2>2. RegisterInfo(<<"mxcsr", 0>>, 32, "mxcsr", {}) \in Described
    BY <2>1, KnownRegister
  <2> HIDE DEF Described
  <2> QED
    BY <2>2
<1>6. Registers \in Seq(Described)
  <2>1. \A s, t \in Seq(Described) : s \o t \in Seq(Described)
    OBVIOUS
  <2> HIDE DEF Described
  <2> QED
    BY <1>2, <1>3, <1>4, <1>5, <2>1, Zenon DEF Registers
<1> QED
  BY <1>6 DEF ToSet

LEMMA InfoParents ==
  ASSUME NEW name, RegisterNamed(name) # {}
  PROVE  Info(name).parent = Parents(name)
<1>1. Info(name) \in RegisterNamed(name)
  BY DEF Info
<1> QED
  <2>1. Info(name) \in ToSet(Registers) /\ Info(name).name = name
    BY <1>1 DEF RegisterNamed
  <2>2. \E n, width, bank : Info(name) = RegisterInfo(n, width, bank, Parents(n))
    BY <2>1, RegistersKnown DEF Described
  <2> QED
    BY <2>1, <2>2 DEF RegisterInfo

-----------------------------------------------------------------------------
(* canonicalize keeps the flip-flops, and has an answer exactly for the    *)
(* slices that can be placed.                                              *)
Canonical(slice) == RegisterSlice(Holders(slice.reg), slice.bits)

LEMMA PlaceableValid ==
  ASSUME NEW r \in BitRange
  PROVE  Valid(r) <=> r.width > 0 /\ r.offset + r.width < RangeLimit
<1> DEFINE sum == r.offset + r.width
<1>1. /\ r.offset \in Nat /\ r.width \in Nat /\ RangeLimit \in Nat \ {0}
      /\ r.offset < RangeLimit /\ r.width < RangeLimit
  BY RangeLimitAssumption DEF BitRange, Range32
<1>2. sum < RangeLimit => sum % RangeLimit = sum
  BY <1>1
<1>3. sum >= RangeLimit => sum % RangeLimit = sum - RangeLimit
  BY <1>1
<1> QED
  BY <1>1, <1>2, <1>3 DEF Valid, EndBit

LEMMA CanonicalSlicesExact ==
  ASSUME NEW l \in Location, l.kind = "register"
  PROVE  /\ Placeable(l) => CanonicalSlices(l) = {Canonical(l)} /\ Valid(l.bits)
         /\ ~Placeable(l) => CanonicalSlices(l) = {}
<1>1. l.reg \in STRING \X Nat /\ l.bits \in BitRange /\ l = RegisterSlice(l.reg, l.bits)
  BY DEF Location, RegisterSlice
<1>2. l.bits.offset \in Nat /\ l.bits.width \in Nat
      /\ l.bits = [offset |-> l.bits.offset, width |-> l.bits.width]
  BY <1>1, RangeLimitAssumption DEF BitRange, Range32
<1>3. Placeable(l) <=> /\ RegisterNamed(l.reg) # {} /\ Valid(l.bits)
                       /\ l.reg[1] = "e" => l.bits.offset + l.bits.width <= 32
  BY <1>1, <1>2, PlaceableValid DEF Placeable
<1>4. CASE RegisterNamed(l.reg) = {} \/ ~Valid(l.bits)
  BY <1>3, <1>4 DEF CanonicalSlices
<1>5. CASE RegisterNamed(l.reg) # {} /\ Valid(l.bits) /\ l.reg[1] # "e"
  <2>1. CanonicalSlices(l) = {l}
    BY <1>5, InfoParents DEF CanonicalSlices, Parents
  <2>2. Canonical(l) = l
    BY <1>1, <1>5 DEF Canonical, Holders
  <2> QED
    BY <1>3, <1>5, <2>1, <2>2
<1>6. CASE RegisterNamed(l.reg) # {} /\ Valid(l.bits) /\ l.reg[1] = "e"
  <2> DEFINE p == [reg |-> <<"r", l.reg[2]>>, offset |-> 0, width |-> 32]
  <2>1. Info(l.reg).parent = {p}
    BY <1>6, InfoParents DEF Parents
  <2>2. CanonicalSlices(l) =
          {RegisterSlice(q.reg, [l.bits EXCEPT !.offset = @ + q.offset]) :
             q \in {q \in {p} : ~(EndBit(l.bits) > q.width)}}
    BY <1>6, <2>1 DEF CanonicalSlices
  <2>3. EndBit(l.bits) = l.bits.offset + l.bits.width
    BY <1>1, <1>6, ValidEnds
  <2>4. RegisterSlice(p.reg, [l.bits EXCEPT !.offset = @ + p.offset]) = Canonical(l)
    BY <1>2, <1>6 DEF Canonical, Holders, RegisterSlice
  <2>5. ~(EndBit(l.bits) > p.width) <=> l.bits.offset + l.bits.width <= 32
    BY <1>2, <2>3
  <2> QED
    BY <1>3, <1>6, <2>2, <2>4, <2>5
<1> QED
  BY <1>4, <1>5, <1>6

(* The flip-flops of two slices of one register lie as their bits do, and  *)
(* slices of different registers share none.                               *)
LEMMA FlipFlopsOf ==
  ASSUME NEW l \in Location, NEW r \in Location, Placeable(l), Placeable(r)
  PROVE  /\ Holders(l.reg) = Holders(r.reg) =>
              /\ FlipFlops(l) \subseteq FlipFlops(r) <=> BitsOf(l.bits) \subseteq BitsOf(r.bits)
              /\ FlipFlops(l) \cap FlipFlops(r) = {} <=> BitsOf(l.bits) \cap BitsOf(r.bits) = {}
         /\ Holders(l.reg) # Holders(r.reg) => FlipFlops(l) \cap FlipFlops(r) = {}
         /\ FlipFlops(l) # {}
<1>1. /\ FlipFlops(l) = {<<Holders(l.reg), b>> : b \in BitsOf(l.bits)}
      /\ FlipFlops(r) = {<<Holders(r.reg), b>> : b \in BitsOf(r.bits)}
  BY DEF FlipFlops, BitsOf
<1>2. BitsOf(l.bits) # {}
  <2>1. l.bits.offset \in Nat /\ l.bits.width \in Nat /\ l.bits.width > 0
    BY RangeLimitAssumption DEF Placeable, Location, BitRange, Range32
  <2>2. l.bits.offset \in BitsOf(l.bits)
    BY <2>1 DEF BitsOf
  <2> QED
    BY <2>2
<1>3. /\ \A b : <<Holders(l.reg), b>> \in FlipFlops(l) <=> b \in BitsOf(l.bits)
      /\ \A b : <<Holders(r.reg), b>> \in FlipFlops(r) <=> b \in BitsOf(r.bits)
  BY <1>1
<1>4. /\ \A x \in FlipFlops(l) : \E b : x = <<Holders(l.reg), b>>
      /\ \A x \in FlipFlops(r) : \E b : x = <<Holders(r.reg), b>>
  BY <1>1
<1>5. FlipFlops(l) # {}
  BY <1>1, <1>2
<1>6. ASSUME Holders(l.reg) = Holders(r.reg)
      PROVE  /\ FlipFlops(l) \subseteq FlipFlops(r) <=> BitsOf(l.bits) \subseteq BitsOf(r.bits)
             /\ FlipFlops(l) \cap FlipFlops(r) = {} <=> BitsOf(l.bits) \cap BitsOf(r.bits) = {}
  <2>1. FlipFlops(l) \subseteq FlipFlops(r) => BitsOf(l.bits) \subseteq BitsOf(r.bits)
    BY <1>3, <1>6
  <2>2. BitsOf(l.bits) \subseteq BitsOf(r.bits) => FlipFlops(l) \subseteq FlipFlops(r)
    BY <1>3, <1>4, <1>6
  <2>3. FlipFlops(l) \cap FlipFlops(r) = {} => BitsOf(l.bits) \cap BitsOf(r.bits) = {}
    BY <1>3, <1>6
  <2>4. BitsOf(l.bits) \cap BitsOf(r.bits) = {} => FlipFlops(l) \cap FlipFlops(r) = {}
    BY <1>3, <1>4, <1>6
  <2> QED
    BY <2>1, <2>2, <2>3, <2>4
<1>7. ASSUME Holders(l.reg) # Holders(r.reg)
      PROVE  FlipFlops(l) \cap FlipFlops(r) = {}
  BY <1>4, <1>7
<1> QED
  BY <1>5, <1>6, <1>7

LEMMA RelateExact ==
  ASSUME NEW l \in Location, NEW r \in Location, l.kind = "register", r.kind = "register",
         Placeable(l), Placeable(r)
  PROVE  Relate(l, r) = LET a == FlipFlops(l)  b == FlipFlops(r)
                        IN CASE a = b -> "equal"
                             [] b \subseteq a /\ a # b -> "contains"
                             [] a \subseteq b /\ a # b -> "contained_by"
                             [] a \cap b = {} -> "disjoint"
                             [] OTHER -> "overlaps"
<1> DEFINE a == FlipFlops(l)
           b == FlipFlops(r)
<1>1. CanonicalSlices(l) = {Canonical(l)} /\ CanonicalSlices(r) = {Canonical(r)}
  BY CanonicalSlicesExact
<1>2. /\ l.bits \in BitRange /\ r.bits \in BitRange /\ Valid(l.bits) /\ Valid(r.bits)
  BY CanonicalSlicesExact DEF Location
<1>3. Relate(l, r) = IF Holders(l.reg) # Holders(r.reg) THEN "disjoint"
                     ELSE RelateBits(l.bits, r.bits)
  <2>1. /\ (CHOOSE c \in CanonicalSlices(l) : TRUE) = Canonical(l)
        /\ (CHOOSE c \in CanonicalSlices(r) : TRUE) = Canonical(r)
    BY <1>1
  <2>2. /\ Canonical(l).reg = Holders(l.reg) /\ Canonical(l).bits = l.bits
        /\ Canonical(r).reg = Holders(r.reg) /\ Canonical(r).bits = r.bits
    BY DEF Canonical, RegisterSlice
  <2> QED
    BY <1>1, <2>1, <2>2 DEF Relate
<1>4. CASE Holders(l.reg) # Holders(r.reg)
  <2>1. a \cap b = {} /\ a # {} /\ b # {}
    BY <1>4, FlipFlopsOf
  <2> HIDE DEF a, b
  <2>2. a # b /\ ~(b \subseteq a) /\ ~(a \subseteq b)
    BY <2>1
  <2> QED
    BY <1>3, <1>4, <2>1, <2>2 DEF a, b
<1>5. CASE Holders(l.reg) = Holders(r.reg)
  <2>1. /\ b \subseteq a <=> ContainsRange(l.bits, r.bits)
        /\ a \subseteq b <=> ContainsRange(r.bits, l.bits)
        /\ a \cap b # {} <=> OverlapsRange(l.bits, r.bits)
    BY <1>2, <1>5, FlipFlopsOf, ContainsExact, OverlapsExact
  <2>2. l.bits = r.bits <=> ContainsRange(l.bits, r.bits) /\ ContainsRange(r.bits, l.bits)
    <3>1. /\ l.bits = [offset |-> l.bits.offset, width |-> l.bits.width]
          /\ r.bits = [offset |-> r.bits.offset, width |-> r.bits.width]
          /\ l.bits.offset \in Nat /\ l.bits.width \in Nat
          /\ r.bits.offset \in Nat /\ r.bits.width \in Nat
      BY <1>2, RangeLimitAssumption DEF BitRange, Range32
    <3>2. /\ EndBit(l.bits) = l.bits.offset + l.bits.width
          /\ EndBit(r.bits) = r.bits.offset + r.bits.width
      BY <1>2, ValidEnds
    <3> QED
      BY <1>2, <3>1, <3>2 DEF ContainsRange, Valid
  <2> HIDE DEF a, b
  <2>3. Relate(l, r) = RelateBits(l.bits, r.bits)
    BY <1>3, <1>5
  <2>4. a # {} /\ b # {}
    BY FlipFlopsOf DEF a, b
  <2>5. a = b <=> b \subseteq a /\ a \subseteq b
    OBVIOUS
  <2>6. Relate(l, r) = CASE a = b -> "equal"
                         [] b \subseteq a /\ a # b -> "contains"
                         [] a \subseteq b /\ a # b -> "contained_by"
                         [] a \cap b = {} -> "disjoint"
                         [] OTHER -> "overlaps"
    <3>1. CASE a = b
      <4>1. b \subseteq a /\ a \subseteq b
        BY <3>1
      <4>2. l.bits = r.bits
        BY <2>1, <2>2, <4>1
      <4>3. Relate(l, r) = "equal"
        BY <2>3, <4>2 DEF RelateBits
      <4> QED
        <5>1. a \cap b # {}
          BY <2>4, <3>1
        <5> QED
          BY <3>1, <4>3, <5>1
    <3>2. CASE a # b /\ b \subseteq a
      <4>1. ContainsRange(l.bits, r.bits) /\ l.bits # r.bits
        BY <2>1, <2>2, <2>5, <3>2
      <4>2. Relate(l, r) = "contains"
        BY <2>3, <4>1 DEF RelateBits
      <4> QED
        <5>1. a \cap b # {} /\ ~(a \subseteq b)
          BY <2>5, <2>4, <3>2
        <5> QED
          BY <3>2, <4>2, <5>1
    <3>3. CASE a # b /\ a \subseteq b
      <4>1. /\ ContainsRange(r.bits, l.bits) /\ ~ContainsRange(l.bits, r.bits)
            /\ l.bits # r.bits /\ ~(b \subseteq a)
        BY <2>1, <2>2, <2>5, <3>3
      <4>2. Relate(l, r) = "contained_by"
        BY <2>3, <4>1 DEF RelateBits
      <4> QED
        <5>1. a \cap b # {} /\ a # b
          BY <2>4, <3>3
        <5> QED
          BY <3>3, <4>1, <4>2, <5>1
    <3>4. CASE ~(b \subseteq a) /\ ~(a \subseteq b)
      <4>1. a # b /\ l.bits # r.bits
        BY <2>1, <2>2, <3>4
      <4>2. CASE a \cap b = {}
        BY <2>1, <2>3, <3>4, <4>1, <4>2 DEF RelateBits
      <4>3. CASE a \cap b # {}
        BY <2>1, <2>3, <3>4, <4>1, <4>3 DEF RelateBits
      <4> QED
        BY <4>2, <4>3
    <3> QED
      BY <2>5, <3>1, <3>2, <3>3, <3>4
  <2> QED
    BY <2>6 DEF a, b
<1> QED
  BY <1>4, <1>5

-----------------------------------------------------------------------------
Asks == lhs \in Locations /\ rhs \in Locations /\ RelationExact

(* relate says of any two locations how their flip-flops lie, for every    *)
(* pair of aliases and ranges, also those at the limits of the integers,   *)
(* and answers "unknown" only where nothing can be said.                   *)
THEOREM RelationIsExact == RelateSpec => []RelationExact
<1>1. RelateInit => Asks
  BY DEF RelateInit, Asks, RelationExact
<1>2. Asks /\ [RelateNext]_relateVars => Asks'
  <2> SUFFICES ASSUME Asks, [RelateNext]_relateVars PROVE Asks'
    OBVIOUS
  <2>1. CASE UNCHANGED relateVars
    BY <2>1 DEF relateVars, Asks, RelationExact, ExactRelation
  <2>2. CASE RelateNext
    <3>1. PICK r \in Locations : rhs' = r /\ relation' = Relate(lhs, r) /\ lhs' = lhs
      BY <2>2 DEF RelateNext, Ask
    <3>2. lhs \in Location /\ r \in Location
      BY LocationsAssumption DEF Asks
    <3>3. relation' = ExactRelation'
      <4>1. CASE lhs.kind = "register" /\ r.kind = "register" /\ Placeable(lhs) /\ Placeable(r)
        BY <3>1, <3>2, <4>1, RelateExact DEF ExactRelation
      <4>2. CASE lhs.kind = "register" /\ r.kind = "register" /\ ~(Placeable(lhs) /\ Placeable(r))
        BY <3>1, <3>2, <4>2, CanonicalSlicesExact DEF ExactRelation, Relate
      <4>3. CASE lhs.kind # "register" \/ r.kind # "register"
        BY <3>1, <3>2, <4>3 DEF ExactRelation, Relate, Placeable
      <4> QED
        BY <4>1, <4>2, <4>3
    <3> QED
      BY <3>1, <3>3 DEF Asks, RelationExact
  <2> QED
    BY <2>1, <2>2
<1>3. Asks => RelationExact
  BY DEF Asks
<1> QED
  BY <1>1, <1>2, <1>3, PTL DEF RelateSpec
-----------------------------------------------------------------------------
(* Tokens.                                                                 *)

LEMMA LeastExists ==
  ASSUME NEW S \in SUBSET Nat, S # {}
  PROVE  \E x \in S : \A y \in S : x <= y
<1>1. PICK Below : Below = OpToRel(<, Nat)
  OBVIOUS
<1>2. IsWellFoundedOn(Below, Nat)
  BY <1>1, NatLessThanWellFounded
<1>3. \A j, k \in Nat : j < k => <<j, k>> \in Below
  BY <1>1 DEF OpToRel
<1>4. PICK x \in S : \A y \in S : ~(<<y, x>> \in Below)
  BY <1>2, WFMin
<1>5. ASSUME NEW y \in S
      PROVE  x <= y
  <2>1. x \in Nat /\ y \in Nat /\ ~(y < x)
    BY <1>3, <1>4
  <2> QED
    BY <2>1
<1> QED
  BY <1>5

-----------------------------------------------------------------------------
(* Text, words and where a class of characters ends.                       *)
Text == text \in Seq(Characters) /\ index \in 0..Len(text)

LEMMA TextIndex ==
  ASSUME Text
  PROVE  /\ Len(text) \in Nat /\ DOMAIN text = 1..Len(text) /\ index \in Nat
         /\ index <= Len(text) /\ \A k \in 1..Len(text) : text[k] \in Characters
BY DEF Text

LEMMA AfterEnds ==
  ASSUME Text, NEW class, NEW from \in 0..Len(text)
  PROVE  /\ After(class, from) \in from..Len(text)
         /\ \A k \in (from + 1)..After(class, from) : text[k] \in class
         /\ After(class, from) < Len(text) => text[After(class, from) + 1] \notin class
<1> DEFINE S == {k \in from..Len(text) : k = Len(text) \/ text[k + 1] \notin class}
<1>1. Len(text) \in Nat /\ from \in Nat /\ from <= Len(text)
  BY TextIndex
<1>2. Len(text) \in S /\ S \in SUBSET Nat
  BY <1>1
<1>3. PICK least \in S : \A y \in S : least <= y
  BY <1>2, LeastExists
<1>4. /\ After(class, from) \in S
      /\ \A y \in S : After(class, from) <= y
  BY <1>3 DEF After, Min
<1>5. ASSUME NEW k \in (from + 1)..After(class, from), text[k] \notin class
      PROVE  FALSE
  <2>1. /\ After(class, from) \in from..Len(text) /\ k \in Int
        /\ k - 1 \in from..Len(text) /\ (k - 1) + 1 = k
    BY <1>1, <1>4
  <2>2. k - 1 \in S
    BY <1>5, <2>1
  <2>3. After(class, from) <= k - 1
    BY <1>4, <2>2
  <2>4. After(class, from) \in Int /\ k <= After(class, from)
    BY <1>1, <2>1
  <2> QED
    BY <2>1, <2>3, <2>4
<1> QED
  BY <1>1, <1>4, <1>5

LEMMA WordAt ==
  ASSUME Text, NEW b \in Nat, NEW e \in Nat, b < e, e <= Len(text)
  PROVE  /\ Len(TextOf(b, e)) = e - b /\ TextOf(b, e) # <<>>
         /\ DOMAIN TextOf(b, e) = 1..(e - b)
         /\ \A k \in 1..(e - b) : TextOf(b, e)[k] = text[b + k]
         /\ \A S : ToSet(TextOf(b, e)) \subseteq S <=> \A k \in (b + 1)..e : text[k] \in S
<1> DEFINE w == TextOf(b, e)
<1>1. text \in Seq(Characters) /\ Len(text) \in Nat
  BY TextIndex DEF Text
<1>2. Len(w) = e - b /\ DOMAIN w = 1..(e - b) /\ \A k \in 1..(e - b) : w[k] = text[b + k]
  BY <1>1 DEF TextOf
<1>3. w # <<>>
  BY <1>2
<1> HIDE DEF w
<1>4. ASSUME NEW S
      PROVE  ToSet(w) \subseteq S <=> \A k \in (b + 1)..e : text[k] \in S
  <2>1. ASSUME ToSet(w) \subseteq S, NEW k \in (b + 1)..e
        PROVE  text[k] \in S
    <3>1. k - b \in 1..(e - b) /\ b + (k - b) = k
      OBVIOUS
    <3>2. w[k - b] \in ToSet(w) /\ w[k - b] = text[k]
      BY <1>2, <3>1 DEF ToSet
    <3> QED
      BY <2>1, <3>2
  <2>2. ASSUME \A k \in (b + 1)..e : text[k] \in S, NEW x \in ToSet(w)
        PROVE  x \in S
    <3>1. PICK k \in 1..(e - b) : x = w[k]
      BY <1>2 DEF ToSet
    <3>2. b + k \in (b + 1)..e
      OBVIOUS
    <3> QED
      BY <1>2, <2>2, <3>1, <3>2
  <2> QED
    BY <2>1, <2>2
<1> QED
  BY <1>2, <1>3, <1>4 DEF w

(* What makes an integer and an identifier, in terms of the text.          *)
IntegerAt(b, e) ==
  /\ text[b + 1] \in Digits
  /\ \/ \A k \in (b + 1)..e : text[k] \in Digits
     \/ /\ e - b > 1 /\ text[b + 1] = "0" /\ text[b + 2] = "x"
        /\ \A k \in (b + 3)..e : text[k] \in HexDigits

LEMMA IntegerWord ==
  ASSUME Text, NEW b \in Nat, NEW e \in Nat, b < e, e <= Len(text)
  PROVE  IsWord("integer", TextOf(b, e)) <=> IntegerAt(b, e)
<1> DEFINE w == TextOf(b, e)
<1>1. /\ Len(w) = e - b /\ w # <<>> /\ \A k \in 1..(e - b) : w[k] = text[b + k]
      /\ ToSet(w) \subseteq Digits <=> \A k \in (b + 1)..e : text[k] \in Digits
  BY WordAt
<1>2. IsWord("integer", w) <=> IsInteger(w)
  BY DEF IsWord
<1> HIDE DEF w
<1>3. w[1] = text[b + 1] /\ (e - b > 1 => w[2] = text[b + 2])
  BY <1>1
<1>4. ASSUME e - b > 1
      PROVE  (\A k \in 3..Len(w) : w[k] \in HexDigits)
               <=> (\A k \in (b + 3)..e : text[k] \in HexDigits)
  <2>1. ASSUME \A k \in 3..Len(w) : w[k] \in HexDigits, NEW k \in (b + 3)..e
        PROVE  text[k] \in HexDigits
    <3>1. k - b \in 3..Len(w) /\ k - b \in 1..(e - b) /\ b + (k - b) = k
      BY <1>1
    <3> QED
      BY <1>1, <2>1, <3>1
  <2>2. ASSUME \A k \in (b + 3)..e : text[k] \in HexDigits, NEW k \in 3..Len(w)
        PROVE  w[k] \in HexDigits
    <3>1. b + k \in (b + 3)..e /\ k \in 1..(e - b)
      BY <1>1
    <3> QED
      BY <1>1, <2>2, <3>1
  <2> QED
    BY <2>1, <2>2
<1>5. IsInteger(w) <=> IntegerAt(b, e)
  BY <1>1, <1>3, <1>4 DEF IsInteger, IntegerAt
<1> QED
  BY <1>2, <1>5 DEF w

LEMMA IdentifierWord ==
  ASSUME Text, NEW b \in Nat, NEW e \in Nat, b < e, e <= Len(text)
  PROVE  IsWord("identifier", TextOf(b, e)) <=>
           text[b + 1] \in Letters /\ \A k \in (b + 1)..e : text[k] \in Letters \cup Digits
<1> DEFINE w == TextOf(b, e)
<1>1. /\ w # <<>> /\ w[1] = text[b + 1]
      /\ ToSet(w) \subseteq Letters \cup Digits <=> \A k \in (b + 1)..e : text[k] \in Letters \cup Digits
  <2>1. 1 \in 1..(e - b)
    OBVIOUS
  <2> QED
    BY <2>1, WordAt
<1>2. IsWord("identifier", w) <=> IsIdentifier(w)
  BY DEF IsWord
<1> HIDE DEF w
<1> QED
  BY <1>1, <1>2 DEF IsIdentifier, w

(* Words of one character.                                                 *)
LEMMA OneCharacter ==
  ASSUME Text, NEW b \in Nat, NEW e \in Nat, b < e, e <= Len(text), NEW c
  PROVE  TextOf(b, e) = <<c>> <=> e = b + 1 /\ text[b + 1] = c
<1> DEFINE w == TextOf(b, e)
<1>1. Len(w) = e - b /\ DOMAIN w = 1..(e - b) /\ \A k \in 1..(e - b) : w[k] = text[b + k]
  BY WordAt
<1>2. w \in Seq(Characters)
  BY TextIndex DEF TextOf, Text
<1> HIDE DEF w
<1>3. ASSUME w = <<c>>
      PROVE  e = b + 1 /\ text[b + 1] = c
  BY <1>1, <1>3
<1>4. ASSUME e = b + 1, text[b + 1] = c
      PROVE  w = <<c>>
  <2>1. Len(w) = 1 /\ w[1] = c
    BY <1>1, <1>4
  <2> QED
    BY <1>2, <2>1
<1> QED
  BY <1>3, <1>4 DEF w

LEMMA NewlineWord ==
  ASSUME Text, NEW b \in Nat, NEW e \in Nat, b < e, e <= Len(text)
  PROVE  IsWord("newline", TextOf(b, e)) <=> e = b + 1 /\ text[b + 1] = "newline"
<1>1. IsWord("newline", TextOf(b, e)) <=> TextOf(b, e) = <<"newline">>
  BY DEF IsWord
<1> QED
  BY <1>1, OneCharacter

LEMMA SingleWord ==
  ASSUME Text, NEW b \in Nat, NEW e \in Nat, b < e, e <= Len(text), NEW kind \in DOMAIN Singles
  PROVE  IsWord(kind, TextOf(b, e)) <=> e = b + 1 /\ text[b + 1] = Singles[kind]
<1>1. DOMAIN Singles = {"comma", "plus", "minus", "left_bracket", "right_bracket"}
  BY DEF Singles
<1>2. IsWord(kind, TextOf(b, e)) <=> TextOf(b, e) = <<Singles[kind]>>
  BY <1>1 DEF IsWord
<1> QED
  BY <1>2, OneCharacter

-----------------------------------------------------------------------------
(* Lines and columns.                                                      *)
LEMMA NewlinesFinite ==
  ASSUME NEW n \in Nat
  PROVE  /\ Newlines(n) \subseteq 1..n /\ IsFiniteSet(Newlines(n))
         /\ Cardinality(Newlines(n)) \in Nat
<1>1. Newlines(n) \subseteq 1..n
  BY DEF Newlines
<1>2. IsFiniteSet(Newlines(n))
  BY <1>1, FS_Interval, FS_Subset
<1>3. Cardinality(Newlines(n)) \in Nat
  BY <1>2, FS_CardinalityType
<1> QED
  BY <1>1, <1>2, <1>3

LEMMA GreatestExists ==
  ASSUME NEW n \in Nat, NEW S \in SUBSET (0..n), S # {}
  PROVE  Max(S) \in S /\ \A y \in S : y <= Max(S)
<1> DEFINE Above == {d \in 0..n : n - d \in S}
<1>1. Above \in SUBSET Nat /\ Above # {}
  <2>1. PICK y : y \in S
    OBVIOUS
  <2>2. y \in 0..n /\ n - y \in 0..n /\ n - (n - y) = y
    BY <2>1
  <2>3. n - y \in Above
    BY <2>1, <2>2
  <2> QED
    BY <2>3
<1>2. PICK d \in Above : \A y \in Above : d <= y
  BY <1>1, LeastExists
<1>3. n - d \in S /\ d \in 0..n
  BY <1>2
<1>4. ASSUME NEW y \in S
      PROVE  n - d >= y
  <2>1. y \in 0..n /\ n - y \in 0..n /\ n - (n - y) = y
    OBVIOUS
  <2>2. n - y \in Above
    BY <2>1
  <2>3. d <= n - y
    BY <1>2, <2>2
  <2> QED
    BY <1>3, <2>1, <2>3
<1>5. Max(S) \in S /\ \A y \in S : Max(S) >= y
  BY <1>3, <1>4 DEF Max
<1>6. \A y \in S : y \in Int
  OBVIOUS
<1> QED
  BY <1>5, <1>6

LEMMA LastNewline ==
  ASSUME NEW n \in Nat
  PROVE  /\ Max({0} \cup Newlines(n)) \in 0..n
         /\ \A k \in {0} \cup Newlines(n) : k <= Max({0} \cup Newlines(n))
<1> DEFINE S == {0} \cup Newlines(n)
<1>1. S \in SUBSET (0..n) /\ S # {}
  BY NewlinesFinite
<1> HIDE DEF S
<1>2. Max(S) \in S /\ \A y \in S : y <= Max(S)
  BY <1>1, GreatestExists
<1> QED
  BY <1>1, <1>2 DEF S

(* The position goes on by the characters of a line ...                    *)
LEMMA PositionGoesOn ==
  ASSUME NEW b \in Nat, NEW e \in Nat, b <= e, \A k \in (b + 1)..e : text[k] # "newline",
         NEW l, NEW c, Position(b, l, c) = PositionAt(b)
  PROVE  Position(e, l, c + e - b) = PositionAt(e)
<1>1. Newlines(e) = Newlines(b)
  BY DEF Newlines
<1>2. /\ l = Cardinality(Newlines(b)) /\ c = b - Max({0} \cup Newlines(b))
  BY DEF Position, PositionAt
<1>3. Max({0} \cup Newlines(b)) \in 0..b
  BY LastNewline
<1>4. c + e - b = e - Max({0} \cup Newlines(b))
  BY <1>2, <1>3
<1> QED
  BY <1>1, <1>2, <1>4 DEF Position, PositionAt

(* ... and starts anew with the next one.                                  *)
LEMMA PositionNextLine ==
  ASSUME NEW b \in Nat, text[b + 1] = "newline", NEW l, NEW c, Position(b, l, c) = PositionAt(b)
  PROVE  Position(b + 1, l + 1, 0) = PositionAt(b + 1)
<1>1. Newlines(b + 1) = Newlines(b) \cup {b + 1}
  BY DEF Newlines
<1>2. l = Cardinality(Newlines(b))
  BY DEF Position, PositionAt
<1>3. Cardinality(Newlines(b + 1)) = l + 1
  <2>1. IsFiniteSet(Newlines(b)) /\ b + 1 \notin Newlines(b)
    BY NewlinesFinite
  <2> QED
    BY <1>1, <1>2, <2>1, FS_AddElement
<1>4. Max({0} \cup Newlines(b + 1)) = b + 1
  <2>1. /\ Max({0} \cup Newlines(b + 1)) \in 0..(b + 1)
        /\ \A k \in {0} \cup Newlines(b + 1) : k <= Max({0} \cup Newlines(b + 1))
    BY LastNewline, b + 1 \in Nat
  <2>2. b + 1 \in Newlines(b + 1)
    BY <1>1
  <2> QED
    BY <2>1, <2>2
<1> QED
  BY <1>3, <1>4 DEF Position, PositionAt

-----------------------------------------------------------------------------
(* The invariant.  Positions are carried with their numbers.               *)
Known == {"space", "newline"} \cup Digits \cup Letters \cup {Singles[k] : k \in DOMAIN Singles}
Foreign == Characters \ Known
Positions == [byte_offset : Nat, line : Nat, column : Nat]
Kinds == DOMAIN Singles \cup {"newline", "integer", "identifier"}
TokenType == [kind : Kinds, begin : Positions, end : Positions]

(* A token is a longest word, at its place.                                *)
Fits(t) ==
  LET b == t.begin.byte_offset  e == t.end.byte_offset
  IN /\ b < e /\ e <= index
     /\ IsWord(t.kind, TextOf(b, e)) /\ (e < Len(text) => ~IsWord(t.kind, TextOf(b, e + 1)))
     /\ t.begin = PositionAt(b) /\ t.end = PositionAt(e)

(* A character is in a token.                                              *)
Within(c) == \E k \in DOMAIN tokens : c \in (tokens[k].begin.byte_offset + 1)..tokens[k].end.byte_offset

ReadSoFar ==
  /\ Text /\ failed \in BOOLEAN /\ Here = PositionAt(index)
  /\ tokens \in Seq(TokenType)
  /\ \A k \in DOMAIN tokens : Fits(tokens[k])
  /\ \A k \in DOMAIN tokens : k > 1 => tokens[k - 1].end.byte_offset <= tokens[k].begin.byte_offset
  /\ ~failed => \A c \in 1..index : (Within(c) \/ text[c] = "space") /\ text[c] \notin Foreign
  /\ failed => tokens = <<>> /\ index < Len(text) /\ text[index + 1] \in Foreign

LEMMA HereTyped ==
  ASSUME NEW b \in Nat, NEW p, p = PositionAt(b)
  PROVE  p \in Positions /\ p.byte_offset = b
<1>1. Cardinality(Newlines(b)) \in Nat /\ Max({0} \cup Newlines(b)) \in 0..b
  BY NewlinesFinite, LastNewline
<1> DEFINE m == Max({0} \cup Newlines(b))
<1>2. b - m \in Nat
  BY <1>1
<1> HIDE DEF m
<1> QED
  BY <1>1, <1>2 DEF PositionAt, Position, Positions, m

(* What reading one token comes to.                                        *)
LEMMA TokenRead ==
  ASSUME ReadSoFar, ~failed, NEW kind \in Kinds, NEW end \in (index + 1)..Len(text),
         NEW l, NEW c, Position(end, l, c) = PositionAt(end),
         IsWord(kind, TextOf(index, end)), end < Len(text) => ~IsWord(kind, TextOf(index, end + 1)),
         \A k \in (index + 1)..end : text[k] \notin Foreign,
         tokens' = Append(tokens, Token(kind, Here, Position(end, l, c))),
         index' = end, line' = l, column' = c, UNCHANGED <<text, failed>>
  PROVE  ReadSoFar'
<1> DEFINE t == Token(kind, Here, Position(end, l, c))
<1>1. /\ Text /\ Len(text) \in Nat /\ index \in Nat /\ tokens \in Seq(TokenType) /\ end \in Nat
      /\ Here = PositionAt(index)
  BY TextIndex DEF ReadSoFar
<1>2. Here \in Positions /\ Position(end, l, c) \in Positions
  BY <1>1, HereTyped
<1>3. /\ t \in TokenType /\ t.kind = kind /\ t.begin = Here /\ t.end = Position(end, l, c)
      /\ t.begin.byte_offset = index /\ t.end.byte_offset = end
  BY <1>2 DEF Token, TokenType, Here, Position
<1> HIDE DEF t
<1>4. /\ tokens' \in Seq(TokenType) /\ DOMAIN tokens' = 1..(Len(tokens) + 1)
      /\ DOMAIN tokens = 1..Len(tokens) /\ Len(tokens) \in Nat
      /\ tokens'[Len(tokens) + 1] = t /\ \A k \in DOMAIN tokens : tokens'[k] = tokens[k]
  BY <1>1, <1>3 DEF t
<1>5. \A k \in DOMAIN tokens' : k \in DOMAIN tokens \/ k = Len(tokens) + 1
  BY <1>4
<1>6. Text' /\ failed' \in BOOLEAN /\ Here' = PositionAt(index)'
  BY <1>1 DEF ReadSoFar, Text, Here, PositionAt, Newlines
<1>7. \A k \in DOMAIN tokens : tokens[k].end.byte_offset <= index
  BY DEF ReadSoFar, Fits
<1>8. ASSUME NEW k \in DOMAIN tokens'
      PROVE  Fits(tokens[k])'
  <2>1. CASE k \in DOMAIN tokens
    <3>1. Fits(tokens[k])
      BY <2>1 DEF ReadSoFar
    <3>2. tokens[k] \in TokenType
      BY <1>1, <2>1
    <3>3. tokens[k].begin.byte_offset \in Nat /\ tokens[k].end.byte_offset \in Nat
      BY <3>2 DEF TokenType, Positions
    <3> QED
      BY <1>1, <1>4, <2>1, <3>1, <3>3 DEF Fits, TextOf, PositionAt, Newlines
  <2>2. CASE k = Len(tokens) + 1
    <3>1. /\ tokens'[k].kind = kind /\ tokens'[k].begin = Here
          /\ tokens'[k].end = Position(end, l, c)
          /\ tokens'[k].begin.byte_offset = index /\ tokens'[k].end.byte_offset = end
      BY <1>3, <1>4, <2>2
    <3>2. index < end /\ end <= index'
      BY <1>1
    <3>3. IsWord(kind, SubSeq(text, index + 1, end))
      BY DEF TextOf
    <3>4. end < Len(text) => ~IsWord(kind, SubSeq(text, index + 1, end + 1))
      BY DEF TextOf
    <3>5. Here = PositionAt(index) /\ Position(end, l, c) = PositionAt(end)
      BY <1>1
    <3> QED
      BY <3>1, <3>2, <3>3, <3>4, <3>5 DEF Fits, TextOf, PositionAt, Newlines
  <2> QED
    BY <1>5, <2>1, <2>2
<1>9. ASSUME NEW k \in DOMAIN tokens', k > 1
      PROVE  tokens'[k - 1].end.byte_offset <= tokens'[k].begin.byte_offset
  <2>1. k - 1 \in DOMAIN tokens /\ tokens'[k - 1] = tokens[k - 1]
    BY <1>4, <1>9
  <2>2. CASE k \in DOMAIN tokens
    BY <1>4, <1>9, <2>1, <2>2 DEF ReadSoFar
  <2>3. CASE k = Len(tokens) + 1
    BY <1>3, <1>4, <1>7, <2>1, <2>3
  <2> QED
    BY <1>5, <2>2, <2>3
<1>10. ASSUME NEW i \in 1..end
      PROVE  (Within(i)' \/ text[i] = "space") /\ text[i] \notin Foreign
  <2>1. CASE i \in 1..index
    <3>1. (Within(i) \/ text[i] = "space") /\ text[i] \notin Foreign
      BY <2>1 DEF ReadSoFar
    <3>2. Within(i) => Within(i)'
      BY <1>4 DEF Within
    <3> QED
      BY <3>1, <3>2
  <2>2. CASE i \in (index + 1)..end
    <3>1. Len(tokens) + 1 \in DOMAIN tokens'
      BY <1>4, Z3
    <3> QED
      BY <1>3, <1>4, <2>2, <3>1 DEF Within
  <2> QED
    BY <1>1, <2>1, <2>2
<1> QED
  BY <1>4, <1>6, <1>8, <1>9, <1>10 DEF ReadSoFar, Foreign

-----------------------------------------------------------------------------
(* The actions.                                                            *)
LEMMA MoreToRead ==
  ASSUME ReadSoFar, More
  PROVE  /\ Text /\ ~failed /\ index \in Nat /\ Len(text) \in Nat /\ index + 1 \in 1..Len(text)
         /\ index \in 0..Len(text) /\ Here = PositionAt(index)
         /\ Position(index, line, column) = PositionAt(index)
         /\ Character = text[index + 1] /\ Character \in Characters
BY TextIndex DEF ReadSoFar, More, Character, Here

LEMMA SpaceReads ==
  ASSUME ReadSoFar, Space
  PROVE  ReadSoFar'
<1>1. /\ More /\ Character = "space" /\ index' = index + 1 /\ column' = column + 1
      /\ UNCHANGED <<text, line, tokens, failed>>
  BY DEF Space
<1>2. /\ Text /\ ~failed /\ index \in Nat /\ Len(text) \in Nat /\ index + 1 \in 1..Len(text)
      /\ Position(index, line, column) = PositionAt(index) /\ text[index + 1] = "space"
  BY <1>1, MoreToRead
<1>3. Position(index + 1, line, column + (index + 1) - index) = PositionAt(index + 1)
  BY <1>2, PositionGoesOn
<1>4. column + (index + 1) - index = column + 1
  <2>1. column \in Int
    BY <1>2, HereTyped DEF Positions, Position
  <2> QED
    BY <1>2, <2>1
<1>5. Text' /\ Here' = PositionAt(index)'
  BY <1>1, <1>2, <1>3, <1>4 DEF Text, Here, PositionAt, Newlines, Position
<1>6. ASSUME NEW k \in DOMAIN tokens
      PROVE  Fits(tokens[k])'
  <2>1. Fits(tokens[k]) /\ tokens[k] \in TokenType
    BY DEF ReadSoFar
  <2>2. tokens[k].end.byte_offset \in Nat
    BY <2>1 DEF TokenType, Positions
  <2> QED
    BY <1>1, <1>2, <2>1, <2>2 DEF Fits, TextOf, PositionAt, Newlines
<1>7. ASSUME NEW c \in 1..(index + 1)
      PROVE  (Within(c)' \/ text[c] = "space") /\ text[c] \notin Foreign
  <2>1. CASE c \in 1..index
    BY <1>1, <1>2, <2>1 DEF ReadSoFar, Within
  <2>2. CASE c = index + 1
    BY <1>2, <2>2 DEF Foreign, Known
  <2> QED
    BY <1>2, <2>1, <2>2
<1> QED
  BY <1>1, <1>2, <1>5, <1>6, <1>7 DEF ReadSoFar, Foreign

LEMMA NewlineReads ==
  ASSUME ReadSoFar, Newline
  PROVE  ReadSoFar'
<1>1. /\ More /\ Character = "newline" /\ index' = index + 1 /\ line' = line + 1 /\ column' = 0
      /\ tokens' = Append(tokens, Token("newline", Here, Position(index + 1, line + 1, 0)))
      /\ UNCHANGED <<text, failed>>
  BY DEF Newline
<1>2. /\ Text /\ ~failed /\ index \in Nat /\ Len(text) \in Nat /\ index + 1 \in 1..Len(text)
      /\ Position(index, line, column) = PositionAt(index) /\ text[index + 1] = "newline"
  BY <1>1, MoreToRead
<1>3. Position(index + 1, line + 1, 0) = PositionAt(index + 1)
  BY <1>2, PositionNextLine
<1>4. IsWord("newline", TextOf(index, index + 1))
  BY <1>2, NewlineWord
<1>5. index + 1 < Len(text) => ~IsWord("newline", TextOf(index, index + 2))
  BY <1>2, NewlineWord
<1>6. \A k \in (index + 1)..(index + 1) : text[k] \notin Foreign
  BY <1>2 DEF Foreign, Known
<1>7. "newline" \in Kinds /\ index + 1 \in (index + 1)..Len(text) /\ (index + 1) + 1 = index + 2
  BY <1>2 DEF Kinds
<1> QED
  BY <1>1, <1>2, <1>3, <1>4, <1>5, <1>6, <1>7, TokenRead

(* A token of characters that are no newlines.                             *)
LEMMA Emitted ==
  ASSUME ReadSoFar, More, NEW kind \in Kinds, NEW end \in (index + 1)..Len(text), Emit(kind, end),
         IsWord(kind, TextOf(index, end)), end < Len(text) => ~IsWord(kind, TextOf(index, end + 1)),
         \A k \in (index + 1)..end : text[k] \in Known \ {"newline"}
  PROVE  ReadSoFar'
<1> DEFINE after == column + end - index
<1>1. /\ index' = end /\ column' = after /\ line' = line
      /\ tokens' = Append(tokens, Token(kind, Here, Position(end, line, after)))
      /\ UNCHANGED <<text, failed>>
  BY DEF Emit
<1>2. /\ ~failed /\ index \in Nat /\ Len(text) \in Nat
      /\ Position(index, line, column) = PositionAt(index)
  BY MoreToRead
<1>3. end \in Nat /\ index <= end
  BY <1>2
<1>4. Position(end, line, after) = PositionAt(end)
  BY <1>2, <1>3, PositionGoesOn
<1>5. \A k \in (index + 1)..end : text[k] \notin Foreign
  BY DEF Foreign
<1> HIDE DEF after
<1> QED
  BY <1>1, <1>2, <1>4, <1>5, TokenRead

LEMMA SingleReads ==
  ASSUME ReadSoFar, Single
  PROVE  ReadSoFar'
<1>1. PICK kind \in SingleKind(Character) : Emit(kind, index + 1)
  BY DEF Single
<1>2. /\ More /\ Text /\ index \in Nat /\ Len(text) \in Nat /\ index + 1 \in 1..Len(text)
      /\ Character = text[index + 1]
  BY MoreToRead DEF Single
<1>3. kind \in DOMAIN Singles /\ Singles[kind] = text[index + 1]
  BY <1>2 DEF SingleKind
<1>4. IsWord(kind, TextOf(index, index + 1))
  BY <1>2, <1>3, SingleWord
<1>5. index + 1 < Len(text) => ~IsWord(kind, TextOf(index, index + 2))
  BY <1>2, <1>3, SingleWord
<1>6. Singles[kind] # "newline"
  <2>1. kind \in {"comma", "plus", "minus", "left_bracket", "right_bracket"}
    BY <1>3 DEF Singles
  <2>2. /\ Singles["comma"] = "," /\ Singles["plus"] = "+" /\ Singles["minus"] = "-"
        /\ Singles["left_bracket"] = "[" /\ Singles["right_bracket"] = "]"
    BY DEF Singles
  <2> QED
    BY <2>1, <2>2
<1>7. text[index + 1] \in Known \ {"newline"}
  BY <1>3, <1>6 DEF Known
<1>8. /\ kind \in Kinds /\ index + 1 \in (index + 1)..Len(text) /\ (index + 1) + 1 = index + 2
      /\ \A k \in (index + 1)..(index + 1) : k = index + 1
  BY <1>2, <1>3 DEF Kinds
<1>9. \A k \in (index + 1)..(index + 1) : text[k] \in Known \ {"newline"}
  BY <1>7, <1>8
<1> QED
  BY <1>1, <1>2, <1>4, <1>5, <1>8, <1>9, Emitted

LEMMA IntegerReads ==
  ASSUME ReadSoFar, Integer
  PROVE  ReadSoFar'
<1> DEFINE end == IntegerEnd(index)
<1>1. More /\ Character \in Digits /\ Emit("integer", end)
  BY DEF Integer
<1>2. /\ Text /\ index \in Nat /\ Len(text) \in Nat /\ index + 1 \in 1..Len(text)
      /\ index \in 0..Len(text) /\ text[index + 1] \in Digits
  BY <1>1, MoreToRead
<1>3. /\ end \in (index + 1)..Len(text) /\ IntegerAt(index, end)
      /\ end < Len(text) => ~IntegerAt(index, end + 1)
      /\ \A k \in (index + 1)..end : text[k] \in Known \ {"newline"}
  <2>1. CASE Prefixed(index)
    <3>1. /\ index + 2 \in 0..Len(text) /\ text[index + 1] = "0" /\ text[index + 2] = "x"
      BY <1>2, <2>1 DEF Prefixed
    <3>2. end = After(HexDigits, index + 2)
      BY <2>1 DEF IntegerEnd
    <3>3. /\ end \in (index + 2)..Len(text)
          /\ \A k \in ((index + 2) + 1)..end : text[k] \in HexDigits
          /\ end < Len(text) => text[end + 1] \notin HexDigits
      BY <1>2, <3>1, <3>2, AfterEnds
    <3> HIDE DEF end
    <3>4. end \in Nat /\ end - index > 1 /\ (index + 2) + 1 = index + 3 /\ "x" \notin Digits
      BY <1>2, <3>3 DEF Digits
    <3>5. IntegerAt(index, end)
      BY <1>2, <3>1, <3>3, <3>4 DEF IntegerAt
    <3>6. ASSUME end < Len(text), IntegerAt(index, end + 1)
          PROVE  FALSE
      <4>1. index + 2 \in (index + 1)..(end + 1) /\ end + 1 \in (index + 3)..(end + 1)
        BY <1>2, <3>4
      <4> QED
        BY <3>1, <3>3, <3>4, <3>6, <4>1 DEF IntegerAt
    <3>7. ASSUME NEW k \in (index + 1)..end
          PROVE  text[k] \in Known \ {"newline"}
      <4>1. k = index + 1 \/ k = index + 2 \/ k \in (index + 3)..end
        BY <1>2, <3>4
      <4>2. text[k] \in {"0", "x"} \cup HexDigits
        BY <3>1, <3>3, <3>4, <4>1
      <4> QED
        BY <4>2 DEF Known, HexDigits, Digits, Letters
    <3> QED
      BY <1>2, <3>3, <3>4, <3>5, <3>6, <3>7
  <2>2. CASE ~Prefixed(index)
    <3>1. end = After(Digits, index)
      BY <2>2 DEF IntegerEnd
    <3>2. /\ end \in index..Len(text)
          /\ \A k \in (index + 1)..end : text[k] \in Digits
          /\ end < Len(text) => text[end + 1] \notin Digits
      BY <1>2, <3>1, AfterEnds
    <3> HIDE DEF end
    <3>3. end \in (index + 1)..Len(text)
      BY <1>2, <3>2
    <3>4. IntegerAt(index, end)
      BY <1>2, <3>2 DEF IntegerAt
    <3>5. ASSUME end < Len(text), IntegerAt(index, end + 1)
          PROVE  FALSE
      <4>1. end + 1 \in (index + 1)..(end + 1) /\ index + 1 < Len(text)
        BY <1>2, <3>3, <3>5
      <4>2. text[end + 1] \notin Digits
        BY <3>2, <3>5
      <4>3. text[index + 1] = "0" /\ text[index + 2] = "x"
        BY <3>5, <4>1, <4>2 DEF IntegerAt
      <4> QED
        BY <2>2, <4>1, <4>3 DEF Prefixed
    <3>6. \A k \in (index + 1)..end : text[k] \in Known \ {"newline"}
      BY <3>2 DEF Known, Digits
    <3> QED
      BY <3>3, <3>4, <3>5, <3>6
  <2> QED
    BY <2>1, <2>2
<1> HIDE DEF end
<1>4. end \in Nat /\ index < end /\ end <= Len(text)
  BY <1>2, <1>3
<1>5. IsWord("integer", TextOf(index, end))
  BY <1>2, <1>3, <1>4, IntegerWord
<1>6. ASSUME end < Len(text)
      PROVE  ~IsWord("integer", TextOf(index, end + 1))
  <2>1. end + 1 \in Nat /\ index < end + 1 /\ end + 1 <= Len(text)
    BY <1>2, <1>4, <1>6
  <2> QED
    BY <1>2, <1>3, <1>6, <2>1, IntegerWord
<1>7. "integer" \in Kinds
  BY DEF Kinds
<1> QED
  BY <1>1, <1>3, <1>5, <1>6, <1>7, Emitted

LEMMA IdentifierReads ==
  ASSUME ReadSoFar, Identifier
  PROVE  ReadSoFar'
<1> DEFINE class == Letters \cup Digits
           end == After(class, index)
<1>1. More /\ Character \in Letters /\ Emit("identifier", end)
  BY DEF Identifier
<1>2. /\ Text /\ index \in Nat /\ Len(text) \in Nat /\ index + 1 \in 1..Len(text)
      /\ index \in 0..Len(text) /\ text[index + 1] \in Letters
  BY <1>1, MoreToRead
<1>3. /\ end \in index..Len(text)
      /\ \A k \in (index + 1)..end : text[k] \in class
      /\ end < Len(text) => text[end + 1] \notin class
  BY <1>2, AfterEnds
<1> HIDE DEF end
<1>4. end \in (index + 1)..Len(text) /\ end \in Nat /\ index < end /\ end <= Len(text)
  BY <1>2, <1>3
<1>5. IsWord("identifier", TextOf(index, end))
  BY <1>2, <1>3, <1>4, IdentifierWord
<1>6. ASSUME end < Len(text)
      PROVE  ~IsWord("identifier", TextOf(index, end + 1))
  <2>1. end + 1 \in Nat /\ index < end + 1 /\ end + 1 <= Len(text) /\ end + 1 \in (index + 1)..(end + 1)
    BY <1>2, <1>4, <1>6
  <2> QED
    BY <1>2, <1>3, <1>6, <2>1, IdentifierWord
<1>7. \A k \in (index + 1)..end : text[k] \in Known \ {"newline"}
  BY <1>3 DEF Known, Letters, Digits
<1>8. "identifier" \in Kinds
  BY DEF Kinds
<1> QED
  BY <1>1, <1>4, <1>5, <1>6, <1>7, <1>8, Emitted

LEMMA UnsupportedReads ==
  ASSUME ReadSoFar, Unsupported
  PROVE  ReadSoFar'
<1>1. /\ More /\ Character \notin {"space", "newline"} \cup Digits \cup Letters
      /\ SingleKind(Character) = {} /\ failed' = TRUE /\ tokens' = <<>>
      /\ UNCHANGED <<text, index, line, column>>
  BY DEF Unsupported
<1>2. /\ Text /\ index \in Nat /\ Len(text) \in Nat /\ index + 1 \in 1..Len(text)
      /\ text[index + 1] = Character /\ Character \in Characters
  BY <1>1, MoreToRead
<1>3. text[index + 1] \in Foreign
  BY <1>1, <1>2 DEF Foreign, Known, SingleKind
<1>4. tokens' \in Seq(TokenType) /\ DOMAIN tokens' = {}
  BY <1>1
<1>5. Text' /\ Here' = PositionAt(index)' /\ index < Len(text)
  BY <1>1, <1>2 DEF ReadSoFar, Text, Here, PositionAt, Newlines, Position
<1> QED
  BY <1>1, <1>3, <1>4, <1>5 DEF ReadSoFar, Foreign

LEMMA NothingRead ==
  ASSUME Init
  PROVE  ReadSoFar
<1>1. PICK n \in 0..MaxLength : text \in [1..n -> Characters]
  BY DEF Init
<1>2. text \in Seq(Characters) /\ Len(text) = n /\ n \in Nat
  BY <1>1
<1>3. index = 0 /\ line = 0 /\ column = 0 /\ tokens = <<>> /\ failed = FALSE
  BY DEF Init
<1>4. Newlines(0) = {}
  BY DEF Newlines
<1>5. Max({0} \cup Newlines(0)) = 0 /\ Cardinality(Newlines(0)) = 0
  BY <1>4, LastNewline, FS_EmptySet
<1>6. Here = PositionAt(index)
  BY <1>3, <1>5 DEF Here, PositionAt
<1>7. tokens \in Seq(TokenType) /\ DOMAIN tokens = {}
  BY <1>3
<1>8. Text
  BY <1>2, <1>3 DEF Text
<1>9. failed \in BOOLEAN /\ ~failed
  BY <1>3
<1>10. \A c \in 1..index : FALSE
  BY <1>3
<1> QED
  BY <1>3, <1>6, <1>7, <1>8, <1>9, <1>10 DEF ReadSoFar

LEMMA StillRead ==
  ASSUME ReadSoFar, [Next]_vars
  PROVE  ReadSoFar'
<1>1. CASE UNCHANGED vars
  <2>1. UNCHANGED <<text, index, line, column, tokens, failed>>
    BY <1>1 DEF vars
  <2>2. Text' /\ Here' = PositionAt(index)'
    BY <2>1 DEF ReadSoFar, Text, Here, PositionAt, Newlines, Position
  <2>3. ASSUME NEW k \in DOMAIN tokens
        PROVE  Fits(tokens[k])'
    <3>1. Fits(tokens[k])
      BY DEF ReadSoFar
    <3> QED
      BY <2>1, <3>1 DEF Fits, TextOf, PositionAt, Newlines
  <2>4. \A c : Within(c) => Within(c)'
    BY <2>1 DEF Within
  <2> QED
    BY <2>1, <2>2, <2>3, <2>4 DEF ReadSoFar, Foreign
<1> QED
  BY <1>1, SpaceReads, NewlineReads, SingleReads, IntegerReads, IdentifierReads, UnsupportedReads
  DEF Next

LEMMA ReadMeansExact ==
  ASSUME ReadSoFar
  PROVE  TokensExact
<1>1. LongestWords
  <2>1. \A k \in DOMAIN tokens : Fits(tokens[k])
    BY DEF ReadSoFar
  <2>2. \A k \in DOMAIN tokens :
          k > 1 => tokens[k - 1].end.byte_offset <= tokens[k].begin.byte_offset
    BY DEF ReadSoFar
  <2>3. ~failed => \A c \in 1..index : Within(c) \/ text[c] = "space"
    BY DEF ReadSoFar
  <2> QED
    BY <2>1, <2>2, <2>3 DEF LongestWords, Fits, Within
<1>2. PositionsExact
  <2>1. ASSUME NEW k \in DOMAIN tokens
        PROVE  /\ tokens[k].begin = PositionAt(tokens[k].begin.byte_offset)
               /\ tokens[k].end = PositionAt(tokens[k].end.byte_offset)
    BY DEF ReadSoFar, Fits
  <2> QED
    BY <2>1 DEF PositionsExact
<1>3. RefusedForACharacter
  <2>1. failed => text[index + 1] \in Foreign
    BY DEF ReadSoFar
  <2>2. ASSUME ~failed, index = Len(text)
        PROVE  ToSet(text) \cap Foreign = {}
    <3>1. DOMAIN text = 1..Len(text)
      BY TextIndex DEF ReadSoFar
    <3> QED
      BY <2>2, <3>1 DEF ReadSoFar, ToSet
  <2> QED
    BY <2>1, <2>2 DEF RefusedForACharacter, Foreign, Known
<1> QED
  BY <1>1, <1>2, <1>3 DEF TokensExact

(* For a text of any characters and length: every token is a longest word  *)
(* of its kind at its line and column, only spaces are passed over, and    *)
(* the text is refused exactly for a character no token starts with.       *)
THEOREM TokensAreExact == Spec => []TokensExact
<1>1. Init => ReadSoFar
  BY NothingRead
<1>2. ReadSoFar /\ [Next]_vars => ReadSoFar'
  BY StillRead
<1>3. ReadSoFar => TokensExact
  BY ReadMeansExact
<1> QED
  BY <1>1, <1>2, <1>3, PTL DEF Spec

-----------------------------------------------------------------------------
(* Lines and their words.                                                  *)
Pieces(rest) ==
  [k \in 1..(Commas(rest, Len(rest)) + 1) |-> Picked(rest, WordPlaces(rest, k))]

LEMMA WordsAre ==
  ASSUME NEW rest
  PROVE  Words(rest) = IF rest = <<>> THEN <<>> ELSE Pieces(rest)
BY DEF Words, Pieces

LEMMA CommasCounted ==
  ASSUME NEW S, NEW rest \in Seq(S), NEW i \in 0..Len(rest)
  PROVE  /\ Commas(rest, i) \in Nat
         /\ \A j \in 0..i : Commas(rest, j) <= Commas(rest, i)
         /\ Commas(rest, 0) = 0
<1> DEFINE C(j) == {k \in 1..j : rest[k].kind = "comma"}
<1>1. \A j \in 0..Len(rest) : IsFiniteSet(C(j)) /\ Cardinality(C(j)) \in Nat
  <2> TAKE j \in 0..Len(rest)
  <2>1. IsFiniteSet(1..j)
    BY FS_Interval
  <2> QED
    BY <2>1, FS_Subset, FS_CardinalityType
<1>2. \A j \in 0..i : Cardinality(C(j)) <= Cardinality(C(i))
  <2> TAKE j \in 0..i
  <2>1. C(j) \in SUBSET C(i)
    OBVIOUS
  <2> QED
    BY <1>1, <2>1, FS_Subset
<1>3. C(0) = {}
  OBVIOUS
<1>4. \A j : Commas(rest, j) = Cardinality(C(j))
  BY DEF Commas
<1> HIDE DEF C
<1> QED
  BY <1>1, <1>2, <1>3, <1>4, FS_EmptySet

LEMMA CommasGrow ==
  ASSUME NEW S, NEW rest \in Seq(S), NEW t \in S
  PROVE  /\ \A i \in 0..Len(rest) : Commas(Append(rest, t), i) = Commas(rest, i)
         /\ Commas(Append(rest, t), Len(rest) + 1) =
              Commas(rest, Len(rest)) + (IF t.kind = "comma" THEN 1 ELSE 0)
<1> DEFINE n == Len(rest)
           u == Append(rest, t)
           C(s, j) == {k \in 1..j : s[k].kind = "comma"}
<1>1. /\ n \in Nat /\ u[n + 1] = t /\ \A k \in 1..n : u[k] = rest[k]
  OBVIOUS
<1>2. \A s, j : Commas(s, j) = Cardinality(C(s, j))
  BY DEF Commas
<1> HIDE DEF n, u
<1>3. \A i \in 0..n : C(u, i) = C(rest, i)
  BY <1>1
<1>4. C(u, n + 1) = IF t.kind = "comma" THEN C(rest, n) \cup {n + 1} ELSE C(rest, n)
  <2>1. \A k : k \in 1..(n + 1) <=> k \in 1..n \/ k = n + 1
    BY <1>1
  <2>2. \A k : k \in C(u, n + 1) <=> k \in C(rest, n) \/ (k = n + 1 /\ t.kind = "comma")
    BY <1>1, <2>1
  <2> QED
    BY <2>2
<1>5. IsFiniteSet(C(rest, n)) /\ n + 1 \notin C(rest, n)
  <2>1. IsFiniteSet(1..n) /\ n + 1 \notin 1..n
    BY <1>1, FS_Interval
  <2>2. C(rest, n) \in SUBSET (1..n)
    OBVIOUS
  <2> HIDE DEF C
  <2> QED
    BY <2>1, <2>2, FS_Subset
<1> HIDE DEF C
<1>6. Cardinality(C(rest, n) \cup {n + 1}) = Cardinality(C(rest, n)) + 1
  BY <1>5, FS_AddElement
<1>7. Cardinality(C(rest, n)) \in Nat
  BY <1>5, FS_CardinalityType
<1> QED
  BY <1>2, <1>3, <1>4, <1>6, <1>7 DEF n, u

(* A sequence and one element more.                                        *)
Behind(longer, s, e, S) ==
  /\ longer \in Seq(S) /\ longer \in [1..(Len(s) + 1) -> S] /\ Len(longer) = Len(s) + 1
  /\ longer[Len(s) + 1] = e /\ \A k \in 1..Len(s) : longer[k] = s[k]

LEMMA AppendIs ==
  ASSUME NEW S, NEW s \in Seq(S), NEW e \in S
  PROVE  Behind(Append(s, e), s, e, S)
<1>1. /\ Append(s, e) \in Seq(S) /\ Len(Append(s, e)) = Len(s) + 1
      /\ Append(s, e)[Len(s) + 1] = e /\ \A k \in 1..Len(s) : Append(s, e)[k] = s[k]
  OBVIOUS
<1>2. Append(s, e) \in [1..(Len(s) + 1) -> S]
  BY <1>1, LenProperties
<1> QED
  BY <1>1, <1>2 DEF Behind

(* A comma begins a word, any other token goes on with the last one.       *)
LEMMA PiecesGrow ==
  ASSUME NEW S, NEW rest \in Seq(S), NEW t \in S
  PROVE  /\ Pieces(rest) \in Seq(Seq(S)) /\ Len(Pieces(rest)) = Commas(rest, Len(rest)) + 1
         /\ Len(Pieces(rest)) \in Nat \ {0}
         /\ t.kind = "comma" => Pieces(Append(rest, t)) = Append(Pieces(rest), <<>>)
         /\ t.kind # "comma" =>
              Pieces(Append(rest, t)) =
                [Pieces(rest) EXCEPT ![Len(Pieces(rest))] = Append(@, t)]
<1> DEFINE n == Len(rest)
           c == Commas(rest, n)
           u == Append(rest, t)
           At(s, k) == WordPlaces(s, k)
<1>1. /\ n \in Nat /\ u \in Seq(S) /\ Len(u) = n + 1 /\ DOMAIN rest = 1..n /\ DOMAIN u = 1..(n + 1)
      /\ u[n + 1] = t /\ \A k \in 1..n : u[k] = rest[k]
  OBVIOUS
<1>2. /\ c \in Nat
      /\ \A i \in 0..n : Commas(rest, i) \in Nat /\ Commas(rest, i) <= c
  BY CommasCounted
<1>3. /\ \A i \in 0..n : Commas(u, i) = Commas(rest, i)
      /\ Commas(u, n + 1) = c + (IF t.kind = "comma" THEN 1 ELSE 0)
  BY CommasGrow
<1>4. \A s, k : At(s, k) = {i \in DOMAIN s : s[i].kind # "comma" /\ Commas(s, i) = k - 1}
  BY DEF WordPlaces
<1> HIDE DEF n, c, u
<1>5. \A k \in 1..(c + 1) : At(rest, k) \in SUBSET (1..n)
  BY <1>1, <1>4
<1>6. \A k \in 1..(c + 1) : /\ Picked(rest, At(rest, k)) \in Seq(S)
                            /\ Picked(u, At(rest, k)) = Picked(rest, At(rest, k))
                            /\ Picked(u, At(rest, k) \cup {n + 1}) = Append(Picked(rest, At(rest, k)), t)
  <2>1. \A at \in SUBSET (1..Len(rest)) : Grows(S, rest, t, at)
    BY PickedGrows
  <2> HIDE DEF At
  <2> QED
    BY <1>5, <2>1 DEF n, u, Grows
<1>7. \A k \in 1..(c + 1) :
        At(u, k) = IF t.kind # "comma" /\ k = c + 1 THEN At(rest, k) \cup {n + 1} ELSE At(rest, k)
  <2> TAKE k \in 1..(c + 1)
  <2>1. \A i : i \in 1..(n + 1) <=> i \in 1..n \/ i = n + 1
    BY <1>1
  <2>2. \A i \in 1..n : i \in At(u, k) <=> i \in At(rest, k)
    BY <1>1, <1>3, <1>4
  <2>3. n + 1 \in At(u, k) <=> t.kind # "comma" /\ k = c + 1
    BY <1>1, <1>2, <1>3, <1>4
  <2>4. At(u, k) \subseteq 1..(n + 1) /\ At(rest, k) \subseteq 1..n
    BY <1>1, <1>4
  <2> HIDE DEF At
  <2>5. CASE t.kind # "comma" /\ k = c + 1
    <3>1. \A i : i \in At(u, k) <=> i \in At(rest, k) \/ i = n + 1
      BY <2>1, <2>2, <2>3, <2>4, <2>5
    <3> QED
      BY <2>5, <3>1
  <2>6. CASE ~(t.kind # "comma" /\ k = c + 1)
    <3>1. \A i : i \in At(u, k) <=> i \in At(rest, k)
      BY <1>1, <2>1, <2>2, <2>3, <2>4, <2>6
    <3> QED
      BY <2>6, <3>1
  <2> QED
    BY <2>5, <2>6
<1>8. At(u, c + 2) = {}
  BY <1>1, <1>2, <1>3, <1>4
<1> HIDE DEF At
<1>9. /\ Pieces(rest) = [k \in 1..(c + 1) |-> Picked(rest, At(rest, k))]
      /\ t.kind = "comma" => Pieces(u) = [k \in 1..(c + 2) |-> Picked(u, At(u, k))]
      /\ t.kind # "comma" => Pieces(u) = [k \in 1..(c + 1) |-> Picked(u, At(u, k))]
  BY <1>1, <1>2, <1>3 DEF Pieces, n, c, At
<1>10. /\ Pieces(rest) \in Seq(Seq(S)) /\ Len(Pieces(rest)) = c + 1
       /\ \A k \in 1..(c + 1) : Pieces(rest)[k] = Picked(rest, At(rest, k))
  <2> DEFINE f(k) == Picked(rest, At(rest, k))
  <2>1. \A k \in 1..(c + 1) : f(k) \in Seq(S)
    BY <1>6
  <2>2. Pieces(rest) = [k \in 1..(c + 1) |-> f(k)]
    BY <1>9
  <2> HIDE DEF f
  <2>3. \A k \in 1..(c + 1) : Pieces(rest)[k] = f(k)
    BY <2>2
  <2>4. Pieces(rest) \in Seq(Seq(S)) /\ Len(Pieces(rest)) = c + 1
    BY <1>2, <2>1, <2>2
  <2> QED
    BY <2>3, <2>4 DEF f
<1>11. ASSUME t.kind = "comma"
       PROVE  Pieces(u) = Append(Pieces(rest), <<>>)
  <2>1. Picked(u, At(u, c + 2)) = <<>>
    BY <1>8, PickedNothing
  <2>2. \A k \in 1..(c + 1) : Pieces(u)[k] = Pieces(rest)[k]
    <3> TAKE k \in 1..(c + 1)
    <3>1. k \in 1..(c + 2) /\ At(u, k) = At(rest, k)
      BY <1>2, <1>7, <1>11
    <3>2. Pieces(u)[k] = Picked(u, At(rest, k))
      BY <1>9, <1>11, <3>1
    <3> QED
      BY <1>6, <1>9, <3>2
  <2>3. Pieces(u)[c + 2] = <<>>
    BY <1>2, <1>9, <1>11, <2>1
  <2> DEFINE p == Pieces(rest)
  <2>4. p \in Seq(Seq(S)) /\ <<>> \in Seq(S) /\ Len(p) = c + 1
    BY <1>10
  <2>5. Pieces(u) = [k \in 1..(c + 2) |-> Pieces(u)[k]]
    BY <1>9, <1>11
  <2> HIDE DEF p
  <2> DEFINE a == Append(p, <<>>)
  <2>6. a \in [1..(c + 2) -> Seq(S)] /\ a[c + 2] = <<>> /\ \A k \in 1..(c + 1) : a[k] = p[k]
    <3> HIDE DEF a
    <3>1. Behind(a, p, <<>>, Seq(S))
      BY <2>4, AppendIs DEF a
    <3> QED
      BY <1>2, <2>4, <3>1 DEF Behind
  <2>7. \A k \in 1..(c + 2) : k \in 1..(c + 1) \/ k = c + 2
    BY <1>2
  <2> HIDE DEF a
  <2>8. \A k \in 1..(c + 2) : Pieces(u)[k] = a[k]
    BY <2>2, <2>3, <2>6, <2>7 DEF p
  <2>9. Pieces(u) = a
    BY <2>5, <2>6, <2>8
  <2> QED
    BY <2>9 DEF a, p
<1>12. ASSUME t.kind # "comma"
       PROVE  Pieces(u) = [Pieces(rest) EXCEPT ![c + 1] = Append(@, t)]
  <2>1. \A k \in 1..(c + 1) :
          Pieces(u)[k] = IF k = c + 1 THEN Append(Pieces(rest)[k], t) ELSE Pieces(rest)[k]
    BY <1>2, <1>6, <1>7, <1>9, <1>10, <1>12
  <2>2. Pieces(u) = [k \in 1..(c + 1) |-> Pieces(u)[k]]
    BY <1>9, <1>12
  <2>3. DOMAIN Pieces(rest) = 1..(c + 1)
    BY <1>9
  <2> QED
    BY <1>2, <2>1, <2>2, <2>3
<1> QED
  BY <1>2, <1>10, <1>11, <1>12 DEF n, c, u

-----------------------------------------------------------------------------
(* The beginnings of operands are what a continuation makes one of.        *)
NameToken == [kind |-> "identifier", name |-> ""]
ZeroToken == [kind |-> "integer", value |-> 0]
CloseToken == Symbol("right_bracket")
AnyToken == Tokens \cup {Symbol("end"), NameToken, ZeroToken, CloseToken}

Opened(w) == w[1].kind = "left_bracket"
Based(w) == Opened(w) /\ w[2].kind = "identifier"
Signed(w) == Based(w) /\ w[3].kind \in {"plus", "minus"}
Displaced(w) == Signed(w) /\ w[4].kind = "integer" /\ w[4].value \in 0..MaxDisplacement
OneToken(w) ==
  w[1].kind = "identifier" \/ (w[1].kind = "integer" /\ w[1].value \in 0..MaxUnsigned)
Whole(w) ==
  \/ Len(w) = 1 /\ OneToken(w)
  \/ Len(w) = 3 /\ Based(w) /\ w[3].kind = "right_bracket"
  \/ Len(w) = 5 /\ Displaced(w) /\ w[5].kind = "right_bracket"
Begun(w) ==
  \/ Len(w) = 0 \/ Whole(w)
  \/ Len(w) = 1 /\ Opened(w)
  \/ Len(w) = 2 /\ Based(w)
  \/ Len(w) = 3 /\ Signed(w)
  \/ Len(w) = 4 /\ Displaced(w)

AreFive(s, a, b, c, d, e) == s = <<a, b, c, d, e>>

LEMMA LegalIsWhole ==
  ASSUME NEW w \in Seq(AnyToken)
  PROVE  LegalOperand(w) <=> Whole(w)
<1> DEFINE kinds == [k \in DOMAIN w |-> w[k].kind]
<1>1. Len(w) \in Nat /\ DOMAIN w = 1..Len(w)
  BY LenProperties
<1>2. \A a : kinds = <<a>> <=> Len(w) = 1 /\ w[1].kind = a
  BY <1>1
<1>3. \A a, b, c : kinds = <<a, b, c>> <=>
        Len(w) = 3 /\ w[1].kind = a /\ w[2].kind = b /\ w[3].kind = c
  BY <1>1
<1>4. \A a, b, c, d, e : AreFive(kinds, a, b, c, d, e) <=>
        Len(w) = 5 /\ w[1].kind = a /\ w[2].kind = b /\ w[3].kind = c /\ w[4].kind = d /\ w[5].kind = e
  BY <1>1 DEF AreFive
<1>5. kinds \in {<<"left_bracket", "identifier", s, "integer", "right_bracket">> :
                   s \in {"plus", "minus"}}
        <=> \E s \in {"plus", "minus"} :
              kinds = <<"left_bracket", "identifier", s, "integer", "right_bracket">>
  BY Zenon
<1>6. LegalOperand(w) <=>
        \/ kinds = <<"identifier">>
        \/ kinds = <<"integer">> /\ w[1].value \in 0..MaxUnsigned
        \/ kinds = <<"left_bracket", "identifier", "right_bracket">>
        \/ /\ \E s \in {"plus", "minus"} :
                kinds = <<"left_bracket", "identifier", s, "integer", "right_bracket">>
           /\ w[4].value \in 0..MaxDisplacement
  BY <1>5, Zenon DEF LegalOperand
<1> HIDE DEF kinds
<1>7. kinds = <<"identifier">> \/ (kinds = <<"integer">> /\ w[1].value \in 0..MaxUnsigned)
        <=> Len(w) = 1 /\ OneToken(w)
  <2>1. /\ kinds = <<"identifier">> <=> Len(w) = 1 /\ w[1].kind = "identifier"
        /\ kinds = <<"integer">> <=> Len(w) = 1 /\ w[1].kind = "integer"
    BY <1>2
  <2> QED
    BY <2>1, Zenon DEF OneToken
<1>8. kinds = <<"left_bracket", "identifier", "right_bracket">>
        <=> Len(w) = 3 /\ Based(w) /\ w[3].kind = "right_bracket"
  BY <1>3, Zenon DEF Based, Opened
<1>9. (\E s \in {"plus", "minus"} :
         kinds = <<"left_bracket", "identifier", s, "integer", "right_bracket">>)
        <=> Len(w) = 5 /\ Signed(w) /\ w[4].kind = "integer" /\ w[5].kind = "right_bracket"
  <2>1. \A s : kinds = <<"left_bracket", "identifier", s, "integer", "right_bracket">>
                <=> Len(w) = 5 /\ Based(w) /\ w[3].kind = s /\ w[4].kind = "integer"
                    /\ w[5].kind = "right_bracket"
    <3> TAKE s
    <3>1. AreFive(kinds, "left_bracket", "identifier", s, "integer", "right_bracket") <=>
            /\ Len(w) = 5 /\ w[1].kind = "left_bracket" /\ w[2].kind = "identifier"
            /\ w[3].kind = s /\ w[4].kind = "integer" /\ w[5].kind = "right_bracket"
      BY <1>4
    <3> QED
      BY <3>1, Zenon DEF AreFive, Based, Opened
  <2> QED
    BY <2>1, Zenon DEF Signed
<1> QED
  BY <1>6, <1>7, <1>8, <1>9, Zenon DEF Whole, Displaced

(* What a word and a continuation are together.                            *)
Continued(w) ==
  {w, Append(w, NameToken), Append(w, CloseToken), Append(Append(w, ZeroToken), CloseToken),
   Append(Append(w, NameToken), CloseToken)}

LEMMA ContinuedBy ==
  ASSUME NEW w \in Seq(AnyToken)
  PROVE  {w \o c : c \in Continuations} = Continued(w)
<1>1. Continuations = {<<>>, <<NameToken>>, <<CloseToken>>, <<ZeroToken, CloseToken>>,
                       <<NameToken, CloseToken>>}
  BY DEF Continuations, NameToken, ZeroToken, CloseToken
<1>2. NameToken \in AnyToken /\ CloseToken \in AnyToken /\ ZeroToken \in AnyToken
  BY DEF AnyToken
<1>3. \A a \in AnyToken : w \o <<a>> = Append(w, a)
  OBVIOUS
<1>4. \A a, b \in AnyToken : w \o <<a, b>> = Append(Append(w, a), b)
  <2> TAKE a, b \in AnyToken
  <2>1. <<a, b>> \in Seq(AnyToken) /\ Append(Append(w, a), b) \in Seq(AnyToken)
    OBVIOUS
  <2>2. Len(w \o <<a, b>>) = Len(w) + 2 /\ Len(Append(Append(w, a), b)) = Len(w) + 2
    OBVIOUS
  <2>3. \A k \in 1..(Len(w) + 2) : (w \o <<a, b>>)[k] = Append(Append(w, a), b)[k]
    OBVIOUS
  <2> QED
    BY <2>1, <2>2, <2>3
<1>5. w \o <<>> = w
  OBVIOUS
<1> HIDE DEF Continuations
<1> QED
  BY <1>1, <1>2, <1>3, <1>4, <1>5 DEF Continued

LEMMA BegunIsContinued ==
  ASSUME NEW w \in Seq(AnyToken)
  PROVE  (\E v \in Continued(w) : LegalOperand(v)) <=> Begun(w)
<1>1. /\ NameToken \in AnyToken /\ CloseToken \in AnyToken /\ ZeroToken \in AnyToken
      /\ NameToken.kind = "identifier" /\ CloseToken.kind = "right_bracket"
      /\ ZeroToken.kind = "integer" /\ ZeroToken.value = 0
  BY DEF AnyToken, NameToken, CloseToken, ZeroToken, Symbol
<1> DEFINE a == Append(w, NameToken)
           b == Append(w, CloseToken)
           c == Append(w, ZeroToken)
           d == Append(c, CloseToken)
           e == Append(a, CloseToken)
<1>2. /\ Behind(a, w, NameToken, AnyToken) /\ Behind(b, w, CloseToken, AnyToken)
      /\ Behind(c, w, ZeroToken, AnyToken)
  BY <1>1, AppendIs
<1>3. a \in Seq(AnyToken) /\ b \in Seq(AnyToken) /\ c \in Seq(AnyToken)
  BY <1>2 DEF Behind
<1>4. Behind(d, c, CloseToken, AnyToken) /\ Behind(e, a, CloseToken, AnyToken)
  BY <1>1, <1>3, AppendIs
<1>5. Continued(w) = {w, a, b, d, e}
  BY DEF Continued
<1> HIDE DEF a, b, c, d, e
<1>6. /\ LegalOperand(w) <=> Whole(w)
      /\ LegalOperand(a) <=> Whole(a)
      /\ LegalOperand(b) <=> Whole(b)
      /\ LegalOperand(d) <=> Whole(d)
      /\ LegalOperand(e) <=> Whole(e)
  BY <1>3, <1>4, LegalIsWhole DEF Behind
<1>7. Len(w) \in Nat /\ 0 \in 0..MaxDisplacement
  BY IntegersAssumption
<1>8. /\ Len(a) = Len(w) + 1 /\ a[Len(w) + 1] = NameToken /\ \A k \in 1..Len(w) : a[k] = w[k]
      /\ Len(b) = Len(w) + 1 /\ b[Len(w) + 1] = CloseToken /\ \A k \in 1..Len(w) : b[k] = w[k]
      /\ Len(d) = Len(w) + 2 /\ d[Len(w) + 1] = ZeroToken /\ d[Len(w) + 2] = CloseToken
      /\ \A k \in 1..Len(w) : d[k] = w[k]
      /\ Len(e) = Len(w) + 2 /\ e[Len(w) + 1] = NameToken /\ e[Len(w) + 2] = CloseToken
      /\ \A k \in 1..Len(w) : e[k] = w[k]
  BY <1>2, <1>4, <1>7 DEF Behind
<1> USE DEF Whole, OneToken, Displaced, Signed, Based, Opened
<1>13. Len(b) = Len(w) + 1 /\ Len(d) = Len(w) + 2 /\ Len(e) = Len(w) + 2
  BY <1>8
<1>9. Whole(a) <=> Len(w) = 0
  BY <1>1, <1>7, <1>8
<1>10. Whole(b) <=> \/ Len(w) = 2 /\ Based(w)
                    \/ Len(w) = 4 /\ Displaced(w)
  <2>1. CASE Len(w) = 0
    BY <1>1, <1>8, <2>1
  <2>2. CASE Len(w) = 2
    <3>1. Len(b) = 3 /\ b[1] = w[1] /\ b[2] = w[2] /\ b[3] = CloseToken
      BY <1>8, <2>2
    <3> QED
      BY <1>1, <2>2, <3>1
  <2>3. CASE Len(w) = 4
    <3>1. /\ Len(b) = 5 /\ b[1] = w[1] /\ b[2] = w[2] /\ b[3] = w[3] /\ b[4] = w[4]
          /\ b[5] = CloseToken
      BY <1>8, <2>3
    <3> QED
      BY <1>1, <2>3, <3>1
  <2>4. CASE ~(Len(w) = 0 \/ Len(w) = 2 \/ Len(w) = 4)
    <3>1. \A n \in Nat : ~(n = 0 \/ n = 2 \/ n = 4) => n + 1 # 1 /\ n + 1 # 3 /\ n + 1 # 5
      OBVIOUS
    <3>2. Len(b) # 1 /\ Len(b) # 3 /\ Len(b) # 5
      BY <1>7, <1>13, <2>4, <3>1, Zenon
    <3> QED
      BY <2>4, <3>2
  <2> QED
    BY <2>1, <2>2, <2>3, <2>4
<1>11. Whole(d) <=> Len(w) = 3 /\ Signed(w)
  <2>1. CASE Len(w) = 1
    <3>1. Len(d) = 3 /\ d[2] = ZeroToken
      BY <1>8, <2>1
    <3> QED
      BY <1>1, <2>1, <3>1
  <2>2. CASE Len(w) = 3
    <3>1. /\ Len(d) = 5 /\ d[1] = w[1] /\ d[2] = w[2] /\ d[3] = w[3]
          /\ d[4] = ZeroToken /\ d[5] = CloseToken
      BY <1>8, <2>2
    <3> QED
      BY <1>1, <1>7, <2>2, <3>1
  <2>3. CASE ~(Len(w) = 1 \/ Len(w) = 3)
    <3>1. \A n \in Nat : ~(n = 1 \/ n = 3) => n + 2 # 1 /\ n + 2 # 3 /\ n + 2 # 5
      OBVIOUS
    <3>2. Len(d) # 1 /\ Len(d) # 3 /\ Len(d) # 5
      BY <1>7, <1>13, <2>3, <3>1, Zenon
    <3> QED
      BY <2>3, <3>2
  <2> QED
    BY <2>1, <2>2, <2>3
<1>12. Whole(e) <=> Len(w) = 1 /\ Opened(w)
  <2>1. CASE Len(w) = 1
    <3>1. Len(e) = 3 /\ e[1] = w[1] /\ e[2] = NameToken /\ e[3] = CloseToken
      BY <1>8, <2>1
    <3> QED
      BY <1>1, <2>1, <3>1
  <2>2. CASE Len(w) = 3
    <3>1. Len(e) = 5 /\ e[4] = NameToken
      BY <1>8, <2>2
    <3> QED
      BY <1>1, <2>2, <3>1
  <2>3. CASE ~(Len(w) = 1 \/ Len(w) = 3)
    <3>1. \A n \in Nat : ~(n = 1 \/ n = 3) => n + 2 # 1 /\ n + 2 # 3 /\ n + 2 # 5
      OBVIOUS
    <3>2. Len(e) # 1 /\ Len(e) # 3 /\ Len(e) # 5
      BY <1>7, <1>13, <2>3, <3>1, Zenon
    <3> QED
      BY <2>3, <3>2
  <2> QED
    BY <2>1, <2>2, <2>3
<1> QED
  BY <1>5, <1>6, <1>9, <1>10, <1>11, <1>12 DEF Begun

-----------------------------------------------------------------------------
(* A line of a mnemonic, the whole words behind it and the word being      *)
(* read.                                                                   *)
InWord(line0, done, word) ==
  /\ line0 \in Seq(AnyToken) /\ line0 # <<>> /\ line0[1].kind = "identifier"
  /\ done \in Seq(Seq(AnyToken)) /\ word \in Seq(AnyToken)
  /\ Pieces(Tail(line0)) = Append(done, word)
  /\ \A k \in 1..Len(done) : LegalOperand(done[k])

LEMMA TailGrows ==
  ASSUME NEW S, NEW s \in Seq(S), NEW t \in S, s # <<>>
  PROVE  /\ Tail(s) \in Seq(S) /\ Tail(Append(s, t)) = Append(Tail(s), t)
         /\ Append(s, t) \in Seq(S) /\ Append(s, t) # <<>> /\ Append(s, t)[1] = s[1]
         /\ Tail(Append(s, t)) # <<>>
<1>1. Len(s) \in Nat \ {0}
  BY EmptySeq
<1>2. Tail(s) \in Seq(S) /\ Len(Tail(s)) = Len(s) - 1
      /\ \A i \in 1..Len(Tail(s)) : Tail(s)[i] = s[i + 1]
  BY HeadTailProperties
<1>3. Behind(Append(s, t), s, t, S) /\ Append(s, t) # <<>>
  BY AppendIs, AppendProperties
<1> DEFINE u == Append(s, t)
           v == Append(Tail(s), t)
<1>4. Behind(v, Tail(s), t, S) /\ v # <<>>
  BY <1>2, AppendIs, AppendProperties
<1>5. u \in Seq(S) /\ u # <<>> /\ Len(u) = Len(s) + 1
  BY <1>3 DEF Behind
<1> HIDE DEF u, v
<1>6. Tail(u) \in Seq(S) /\ Len(Tail(u)) = Len(s)
      /\ \A i \in 1..Len(s) : Tail(u)[i] = u[i + 1]
  BY <1>1, <1>5, HeadTailProperties
<1>7. v \in Seq(S) /\ Len(v) = Len(s)
  BY <1>1, <1>2, <1>4 DEF Behind
<1>8. \A i \in 1..Len(s) : Tail(u)[i] = v[i]
  <2> TAKE i \in 1..Len(s)
  <2>1. CASE i = Len(s)
    BY <1>1, <1>2, <1>3, <1>4, <1>6, <2>1 DEF Behind, u
  <2>2. CASE i # Len(s)
    <3>1. \A n \in Nat : \A j \in 1..n : j # n => j \in 1..(n - 1) /\ j + 1 \in 1..n
      OBVIOUS
    <3>2. i \in 1..Len(Tail(s)) /\ i + 1 \in 1..Len(s)
      BY <1>1, <1>2, <2>2, <3>1, Zenon
    <3> QED
      BY <1>2, <1>3, <1>4, <1>6, <3>2 DEF Behind, u
  <2> QED
    BY <2>1, <2>2
<1>9. Tail(u) = v
  BY <1>6, <1>7, <1>8, SeqEqual
<1>10. u[1] = s[1]
  BY <1>1, <1>3 DEF Behind, u
<1> QED
  BY <1>2, <1>4, <1>5, <1>9, <1>10 DEF u, v

(* The last element replaced.                                              *)
Replaced(s, a, b, S) == [Append(s, a) EXCEPT ![Len(Append(s, a))] = b] = Append(s, b)

LEMMA LastReplaced ==
  ASSUME NEW S, NEW s \in Seq(S), NEW a \in S, NEW b \in S
  PROVE  Replaced(s, a, b, S)
<1> DEFINE u == Append(s, a)
           v == Append(s, b)
<1>1. Behind(u, s, a, S) /\ Behind(v, s, b, S) /\ Len(s) \in Nat
  BY AppendIs
<1> HIDE DEF u, v
<1>2. u \in [1..(Len(s) + 1) -> S] /\ v \in [1..(Len(s) + 1) -> S] /\ Len(u) = Len(s) + 1
  BY <1>1 DEF Behind
<1>3. \A k \in 1..(Len(s) + 1) : v[k] = IF k = Len(s) + 1 THEN b ELSE u[k]
  BY <1>1 DEF Behind
<1>4. [u EXCEPT ![Len(s) + 1] = b] = v
  BY <1>2, <1>3
<1> QED
  BY <1>2, <1>4 DEF u, v, Replaced

LEMMA WordGrows ==
  ASSUME NEW line0, NEW done, NEW word, InWord(line0, done, word), NEW t \in AnyToken
  PROVE  /\ t.kind # "comma" => InWord(Append(line0, t), done, Append(word, t))
         /\ t.kind = "comma" /\ LegalOperand(word) =>
              InWord(Append(line0, t), Append(done, word), <<>>)
<1> DEFINE rest == Tail(line0)
<1>1. /\ line0 \in Seq(AnyToken) /\ line0 # <<>> /\ line0[1].kind = "identifier"
      /\ done \in Seq(Seq(AnyToken)) /\ word \in Seq(AnyToken)
      /\ Pieces(rest) = Append(done, word)
      /\ \A k \in 1..Len(done) : LegalOperand(done[k])
  BY DEF InWord
<1>2. /\ rest \in Seq(AnyToken) /\ Tail(Append(line0, t)) = Append(rest, t)
      /\ Append(line0, t) \in Seq(AnyToken) /\ Append(line0, t) # <<>>
      /\ Append(line0, t)[1] = line0[1]
  BY <1>1, TailGrows
<1> HIDE DEF rest
<1>3. /\ t.kind = "comma" => Pieces(Append(rest, t)) = Append(Pieces(rest), <<>>)
      /\ t.kind # "comma" =>
           Pieces(Append(rest, t)) = [Pieces(rest) EXCEPT ![Len(Pieces(rest))] = Append(@, t)]
  BY <1>2, PiecesGrow
<1>4. Append(word, t) \in Seq(AnyToken) /\ <<>> \in Seq(AnyToken)
  BY <1>1, AppendProperties
<1>5. Behind(Append(done, word), done, word, Seq(AnyToken))
  BY <1>1, AppendIs
<1>6. ASSUME t.kind # "comma"
      PROVE  InWord(Append(line0, t), done, Append(word, t))
  <2>1. Append(done, word)[Len(Append(done, word))] = word
    BY <1>5 DEF Behind
  <2>2. Pieces(Append(rest, t)) =
          [Append(done, word) EXCEPT ![Len(Append(done, word))] = Append(word, t)]
    BY <1>1, <1>3, <1>6, <2>1
  <2>3. Pieces(Append(rest, t)) = Append(done, Append(word, t))
    <3>1. Replaced(done, word, Append(word, t), Seq(AnyToken))
      BY <1>1, <1>4, LastReplaced
    <3> QED
      BY <2>2, <3>1 DEF Replaced
  <2> QED
    BY <1>1, <1>2, <1>4, <2>3 DEF InWord
<1>7. ASSUME t.kind = "comma", LegalOperand(word)
      PROVE  InWord(Append(line0, t), Append(done, word), <<>>)
  <2>1. Pieces(Append(rest, t)) = Append(Append(done, word), <<>>)
    BY <1>1, <1>3, <1>7
  <2>2. Append(done, word) \in Seq(Seq(AnyToken))
    BY <1>5 DEF Behind
  <2>3. \A k \in 1..Len(Append(done, word)) : LegalOperand(Append(done, word)[k])
    <3>1. Len(done) \in Nat /\ Len(Append(done, word)) = Len(done) + 1
      BY <1>1, <1>5, LenProperties DEF Behind
    <3>2. \A k \in 1..(Len(done) + 1) : k \in 1..Len(done) \/ k = Len(done) + 1
      BY <3>1
    <3> QED
      BY <1>1, <1>5, <1>7, <3>1, <3>2 DEF Behind
  <2> QED
    BY <1>1, <1>2, <1>4, <2>1, <2>2, <2>3 DEF InWord
<1> QED
  BY <1>6, <1>7

LEMMA WordBegins ==
  ASSUME NEW t \in AnyToken, t.kind = "identifier"
  PROVE  InWord(<<t>>, <<>>, <<>>)
<1>1. <<t>> \in Seq(AnyToken) /\ <<t>> # <<>> /\ <<t>>[1] = t /\ Tail(<<t>>) = <<>>
  OBVIOUS
<1>2. Pieces(<<>>) = <<<<>>>>
  <2>1. <<>> \in Seq(AnyToken) /\ Len(<<>>) = 0
    BY EmptySeq
  <2>2. Commas(<<>>, 0) = 0
    <3>1. {k \in 1..0 : <<>>[k].kind = "comma"} = {}
      OBVIOUS
    <3> QED
      BY <3>1, FS_EmptySet DEF Commas
  <2>3. WordPlaces(<<>>, 1) = {}
    BY DEF WordPlaces
  <2>4. Pieces(<<>>) = [k \in 1..1 |-> Picked(<<>>, WordPlaces(<<>>, k))]
    BY <2>1, <2>2 DEF Pieces
  <2>5. Pieces(<<>>) = [k \in 1..1 |-> <<>>]
    <3>1. \A k \in 1..1 : k = 1
      OBVIOUS
    <3>2. \A k \in 1..1 : Picked(<<>>, WordPlaces(<<>>, k)) = <<>>
      BY <2>3, <3>1, PickedNothing
    <3> QED
      BY <2>4, <3>2
  <2> QED
    BY <2>5
<1>3. Append(<<>>, <<>>) = <<<<>>>>
  OBVIOUS
<1> QED
  BY <1>1, <1>2, <1>3 DEF InWord

(* Whether the line is legal is a matter of its last word.                 *)
LEMMA LegalByLastWord ==
  ASSUME NEW line0, NEW done, NEW word, InWord(line0, done, word)
  PROVE  /\ Tail(line0) # <<>> => /\ LegalLine(line0) <=> LegalOperand(word)
                                  /\ Words(Tail(line0)) = Append(done, word)
         /\ Tail(line0) = <<>> => LegalLine(line0) /\ Words(Tail(line0)) = <<>>
<1>1. /\ line0 # <<>> /\ line0[1].kind = "identifier" /\ Len(done) \in Nat
      /\ Pieces(Tail(line0)) = Append(done, word)
      /\ \A k \in 1..Len(done) : LegalOperand(done[k])
  BY LenProperties DEF InWord
<1>2. Behind(Append(done, word), done, word, Seq(AnyToken))
  BY AppendIs DEF InWord
<1>3. ASSUME Tail(line0) # <<>>
      PROVE  /\ LegalLine(line0) <=> LegalOperand(word)
             /\ Words(Tail(line0)) = Append(done, word)
  <2>1. Words(Tail(line0)) = Append(done, word)
    BY <1>1, <1>3, WordsAre
  <2> DEFINE all == Append(done, word)
  <2>2. /\ DOMAIN all = 1..(Len(done) + 1) /\ all[Len(done) + 1] = word
        /\ \A k \in 1..Len(done) : all[k] = done[k]
    BY <1>2 DEF Behind
  <2> HIDE DEF all
  <2>3. \A k \in 1..(Len(done) + 1) : k \in 1..Len(done) \/ k = Len(done) + 1
    BY <1>1
  <2>4. Len(done) + 1 \in 1..(Len(done) + 1)
    BY <1>1
  <2>5. (\A k \in DOMAIN all : LegalOperand(all[k])) <=> LegalOperand(word)
    BY <1>1, <2>2, <2>3, <2>4
  <2>6. LegalLine(line0) <=> \A k \in DOMAIN all : LegalOperand(all[k])
    BY <1>1, <2>1, Zenon DEF LegalLine, all
  <2> QED
    BY <2>1, <2>5, <2>6
<1>4. ASSUME Tail(line0) = <<>>
      PROVE  LegalLine(line0) /\ Words(Tail(line0)) = <<>>
  <2>1. Words(Tail(line0)) = <<>>
    BY <1>4, WordsAre
  <2>2. DOMAIN <<>> = {}
    OBVIOUS
  <2> QED
    BY <1>1, <2>1, <2>2 DEF LegalLine
<1> QED
  BY <1>3, <1>4

(* A line can still become legal exactly if its last word has only begun.  *)
LEMMA ViableByLastWord ==
  ASSUME NEW line0, NEW done, NEW word, InWord(line0, done, word)
  PROVE  /\ Tail(line0) # <<>> => (Viable(line0) <=> Begun(word))
         /\ Tail(line0) = <<>> => Viable(line0)
<1>1. line0 \in Seq(AnyToken) /\ word \in Seq(AnyToken) /\ line0 # <<>>
  BY DEF InWord
<1>2. /\ NameToken \in AnyToken /\ CloseToken \in AnyToken /\ ZeroToken \in AnyToken
      /\ NameToken.kind # "comma" /\ CloseToken.kind # "comma" /\ ZeroToken.kind # "comma"
  BY DEF AnyToken, NameToken, CloseToken, ZeroToken, Symbol
<1>3. Viable(line0) <=> \E l \in Continued(line0) : LegalLine(l)
  <2>1. {line0 \o c : c \in Continuations} = Continued(line0)
    BY <1>1, ContinuedBy
  <2>2. (\E c \in Continuations : LegalLine(line0 \o c))
          <=> \E l \in {line0 \o c : c \in Continuations} : LegalLine(l)
    BY Zenon
  <2> QED
    BY <2>1, <2>2 DEF Viable
<1> DEFINE a(s) == Append(s, NameToken)
           b(s) == Append(s, CloseToken)
           c(s) == Append(s, ZeroToken)
<1>4. /\ InWord(a(line0), done, a(word)) /\ InWord(b(line0), done, b(word))
      /\ InWord(c(line0), done, c(word))
  BY <1>2, WordGrows
<1>5. InWord(b(c(line0)), done, b(c(word))) /\ InWord(b(a(line0)), done, b(a(word)))
  BY <1>2, <1>4, WordGrows
<1>6. a(line0) \in Seq(AnyToken) /\ a(line0) # <<>> /\ c(line0) \in Seq(AnyToken) /\ c(line0) # <<>>
  BY <1>4 DEF InWord
<1>7. /\ Tail(a(line0)) # <<>> /\ Tail(b(line0)) # <<>>
      /\ Tail(b(c(line0))) # <<>> /\ Tail(b(a(line0))) # <<>>
  BY <1>1, <1>2, <1>6, TailGrows
<1>8. /\ Continued(line0) = {line0, a(line0), b(line0), b(c(line0)), b(a(line0))}
      /\ Continued(word) = {word, a(word), b(word), b(c(word)), b(a(word))}
  BY DEF Continued
<1>9. (\E v \in Continued(word) : LegalOperand(v)) <=> Begun(word)
  BY <1>1, BegunIsContinued
<1> HIDE DEF a, b, c
<1>10. /\ LegalLine(a(line0)) <=> LegalOperand(a(word))
       /\ LegalLine(b(line0)) <=> LegalOperand(b(word))
       /\ LegalLine(b(c(line0))) <=> LegalOperand(b(c(word)))
       /\ LegalLine(b(a(line0))) <=> LegalOperand(b(a(word)))
  BY <1>4, <1>5, <1>7, LegalByLastWord
<1>11. /\ Tail(line0) # <<>> => (LegalLine(line0) <=> LegalOperand(word))
       /\ Tail(line0) = <<>> => LegalLine(line0)
  BY LegalByLastWord
<1> QED
  BY <1>3, <1>8, <1>9, <1>10, <1>11

LEMMA NeverALine ==
  ASSUME NEW t \in AnyToken, t.kind # "identifier"
  PROVE  ~Viable(<<t>>)
<1>1. <<t>> \in Seq(AnyToken) /\ <<t>> # <<>>
  OBVIOUS
<1>2. \A c \in Continuations : c \in Seq(AnyToken)
  <2>1. \A a, b \in AnyToken : <<a>> \in Seq(AnyToken) /\ <<a, b>> \in Seq(AnyToken)
    OBVIOUS
  <2>2. /\ NameToken \in AnyToken /\ CloseToken \in AnyToken /\ ZeroToken \in AnyToken
        /\ Continuations = {<<>>, <<NameToken>>, <<CloseToken>>, <<ZeroToken, CloseToken>>,
                            <<NameToken, CloseToken>>}
    BY DEF AnyToken, Continuations, NameToken, ZeroToken, CloseToken
  <2>3. <<>> \in Seq(AnyToken)
    OBVIOUS
  <2> HIDE DEF Continuations
  <2> QED
    BY <2>1, <2>2, <2>3
<1>3. \A c \in Continuations : (<<t>> \o c)[1] = t
  <2> TAKE c \in Continuations
  <2>1. c \in Seq(AnyToken)
    BY <1>2
  <2> QED
    BY <2>1
<1> QED
  BY <1>3 DEF Viable, LegalLine

(* A word that can become no operand, before the last one.                 *)
Spoiled(line0) ==
  /\ line0 \in Seq(AnyToken) /\ line0 # <<>>
  /\ \E k \in 1..Len(Pieces(Tail(line0))) :
       k # Len(Pieces(Tail(line0))) /\ ~LegalOperand(Pieces(Tail(line0))[k])

LEMMA SpoiledGrows ==
  ASSUME NEW line0, Spoiled(line0), NEW t \in AnyToken
  PROVE  Spoiled(Append(line0, t))
<1> DEFINE rest == Tail(line0)
           p == Pieces(rest)
           q == Pieces(Append(rest, t))
<1>1. line0 \in Seq(AnyToken) /\ line0 # <<>>
  BY DEF Spoiled
<1>2. /\ rest \in Seq(AnyToken) /\ Tail(Append(line0, t)) = Append(rest, t)
      /\ Append(line0, t) \in Seq(AnyToken) /\ Append(line0, t) # <<>>
  BY <1>1, TailGrows
<1>3. PICK k \in 1..Len(p) : k # Len(p) /\ ~LegalOperand(p[k])
  BY DEF Spoiled
<1> HIDE DEF rest
<1>4. /\ p \in Seq(Seq(AnyToken)) /\ Len(p) \in Nat \ {0}
      /\ t.kind = "comma" => q = Append(p, <<>>)
      /\ t.kind # "comma" => q = [p EXCEPT ![Len(p)] = Append(@, t)]
  BY <1>2, PiecesGrow
<1> HIDE DEF p, q
<1>5. k \in 1..Len(q) /\ k # Len(q) /\ q[k] = p[k]
  <2>1. CASE t.kind = "comma"
    <3>1. Behind(q, p, <<>>, Seq(AnyToken))
      <4>1. <<>> \in Seq(AnyToken)
        BY EmptySeq
      <4> QED
        BY <1>4, <2>1, <4>1, AppendIs
    <3>2. \A n \in Nat : \A j \in 1..n : j \in 1..(n + 1) /\ j # n + 1
      OBVIOUS
    <3> QED
      BY <1>3, <1>4, <3>1, <3>2, Zenon DEF Behind
  <2>2. CASE t.kind # "comma"
    <3>1. DOMAIN p = 1..Len(p)
      BY <1>4, LenProperties
    <3>2. DOMAIN q = DOMAIN p /\ q[k] = p[k]
      BY <1>3, <1>4, <2>2, <3>1
    <3>3. Len(q) = Len(p)
      <4> DEFINE f(j) == IF j = Len(p) THEN Append(p[j], t) ELSE p[j]
      <4>1. q = [j \in 1..Len(p) |-> f(j)]
        BY <1>4, <2>2, <3>1
      <4> HIDE DEF f
      <4> QED
        BY <1>4, <4>1
    <3> QED
      BY <1>3, <3>2, <3>3
  <2> QED
    BY <2>1, <2>2
<1> QED
  BY <1>2, <1>3, <1>5, Zenon DEF Spoiled, q

LEMMA SpoiledIsLost ==
  ASSUME NEW line0, Spoiled(line0)
  PROVE  ~LegalLine(line0) /\ ~Viable(line0)
<1>1. \A l : Spoiled(l) => ~LegalLine(l)
  <2> SUFFICES ASSUME NEW l, Spoiled(l)
               PROVE  ~LegalLine(l)
    OBVIOUS
  <2>1. PICK k \in 1..Len(Pieces(Tail(l))) :
          k # Len(Pieces(Tail(l))) /\ ~LegalOperand(Pieces(Tail(l))[k])
    BY DEF Spoiled
  <2>2. l \in Seq(AnyToken) /\ l # <<>>
    BY DEF Spoiled
  <2>3. Tail(l) \in Seq(AnyToken)
    BY <2>2, HeadTailProperties
  <2>4. Pieces(Tail(l)) \in Seq(Seq(AnyToken)) /\ Len(Pieces(Tail(l))) = Commas(Tail(l), Len(Tail(l))) + 1
    <3>1. CloseToken \in AnyToken
      BY DEF AnyToken
    <3> QED
      BY <2>3, <3>1, PiecesGrow
  <2>5. DOMAIN Pieces(Tail(l)) = 1..Len(Pieces(Tail(l)))
    BY <2>4, LenProperties
  <2>6. Tail(l) # <<>>
    <3> SUFFICES ASSUME Tail(l) = <<>>
                 PROVE  FALSE
      OBVIOUS
    <3>1. {k0 \in 1..0 : <<>>[k0].kind = "comma"} = {}
      OBVIOUS
    <3>2. Commas(<<>>, 0) = 0
      BY <3>1, FS_EmptySet DEF Commas
    <3>3. Len(Pieces(Tail(l))) = 1
      <4>1. Len(<<>>) = 0 /\ 0 + 1 = 1
        OBVIOUS
      <4> QED
        BY <2>4, <3>2, <4>1, Zenon
    <3>4. \A j \in 1..1 : j = 1
      OBVIOUS
    <3> QED
      BY <2>1, <3>3, <3>4, Zenon
  <2>7. Words(Tail(l)) = Pieces(Tail(l))
    BY <2>6, WordsAre
  <2> QED
    BY <2>1, <2>5, <2>7 DEF LegalLine
<1>2. /\ NameToken \in AnyToken /\ CloseToken \in AnyToken /\ ZeroToken \in AnyToken
  BY DEF AnyToken
<1>3. \A l \in Continued(line0) : Spoiled(l)
  <2>1. \A t \in AnyToken : Spoiled(Append(line0, t))
    BY SpoiledGrows
  <2>2. \A t, u \in AnyToken : Spoiled(Append(Append(line0, t), u))
    BY <2>1, SpoiledGrows
  <2> QED
    BY <1>2, <2>1, <2>2 DEF Continued
<1>4. {line0 \o c : c \in Continuations} = Continued(line0)
  <2>1. line0 \in Seq(AnyToken)
    BY DEF Spoiled
  <2> QED
    BY <2>1, ContinuedBy
<1>5. (\E c \in Continuations : LegalLine(line0 \o c))
        <=> \E l \in {line0 \o c : c \in Continuations} : LegalLine(l)
  BY Zenon
<1> QED
  BY <1>1, <1>3, <1>4, <1>5 DEF Viable

(* A comma behind what is no operand.                                      *)
LEMMA CommaSpoils ==
  ASSUME NEW line0, NEW done, NEW word, InWord(line0, done, word), ~LegalOperand(word),
         NEW t \in AnyToken, t.kind = "comma"
  PROVE  ~Viable(Append(line0, t))
<1> DEFINE rest == Tail(line0)
           p == Append(done, word)
           q == Append(p, <<>>)
<1>1. /\ line0 \in Seq(AnyToken) /\ line0 # <<>> /\ Pieces(rest) = p
      /\ done \in Seq(Seq(AnyToken)) /\ word \in Seq(AnyToken)
  BY DEF InWord
<1>2. /\ rest \in Seq(AnyToken) /\ Tail(Append(line0, t)) = Append(rest, t)
      /\ Append(line0, t) \in Seq(AnyToken) /\ Append(line0, t) # <<>>
  BY <1>1, TailGrows
<1> HIDE DEF rest
<1>3. Pieces(Append(rest, t)) = q
  BY <1>1, <1>2, PiecesGrow
<1>4. Behind(p, done, word, Seq(AnyToken)) /\ <<>> \in Seq(AnyToken)
  BY <1>1, AppendIs, EmptySeq
<1>5. Behind(q, p, <<>>, Seq(AnyToken))
  <2>1. p \in Seq(Seq(AnyToken))
    BY <1>4 DEF Behind
  <2> HIDE DEF p
  <2> QED
    BY <1>4, <2>1, AppendIs
<1>6. Len(done) \in Nat
  BY <1>1, LenProperties
<1> HIDE DEF p, q
<1>7. Len(done) + 1 \in 1..Len(q) /\ Len(done) + 1 # Len(q) /\ q[Len(done) + 1] = word
  <2>1. \A n \in Nat : n + 1 \in 1..(n + 1 + 1) /\ n + 1 # n + 1 + 1 /\ n + 1 \in 1..(n + 1)
    OBVIOUS
  <2>2. Len(q) = Len(done) + 1 + 1 /\ Len(p) = Len(done) + 1
    BY <1>4, <1>5 DEF Behind
  <2>3. p[Len(done) + 1] = word /\ \A k \in 1..Len(p) : q[k] = p[k]
    BY <1>4, <1>5 DEF Behind
  <2> QED
    BY <1>6, <2>1, <2>2, <2>3, Zenon
<1>8. Spoiled(Append(line0, t))
  BY <1>2, <1>3, <1>7, Zenon DEF Spoiled
<1> QED
  BY <1>8, SpoiledIsLost

-----------------------------------------------------------------------------
(* Lines of a sequence of tokens.                                          *)
EndsIn(s) == {0} \cup {k \in DOMAIN s : s[k].kind \in Terminators}
EndedIn(s) ==
  {l \in EndsIn(s) \X EndsIn(s) :
     l[1] + 1 < l[2] /\ \A k \in EndsIn(s) : ~(l[1] < k /\ k < l[2])}
LastEnd(s) == Max(EndsIn(s))
OpenIn(s) == SubSeq(s, LastEnd(s) + 1, Len(s))

LEMMA LastEndIs ==
  ASSUME NEW s \in Seq(AnyToken)
  PROVE  /\ LastEnd(s) \in 0..Len(s) /\ LastEnd(s) \in EndsIn(s)
         /\ EndsIn(s) \subseteq 0..Len(s)
         /\ \A k \in EndsIn(s) : k <= LastEnd(s)
         /\ \A k \in 1..Len(s) : k \in EndsIn(s) <=> s[k].kind \in Terminators
<1>1. Len(s) \in Nat /\ DOMAIN s = 1..Len(s)
  BY LenProperties
<1>2. /\ EndsIn(s) \in SUBSET (0..Len(s)) /\ EndsIn(s) # {}
      /\ \A k \in 1..Len(s) : k \in EndsIn(s) <=> s[k].kind \in Terminators
  BY <1>1 DEF EndsIn
<1>3. LastEnd(s) \in EndsIn(s) /\ \A y \in EndsIn(s) : y <= LastEnd(s)
  BY <1>1, <1>2, GreatestExists DEF LastEnd
<1> QED
  BY <1>2, <1>3

LEMMA OpenLineIs ==
  ASSUME NEW s \in Seq(AnyToken)
  PROVE  /\ OpenIn(s) \in Seq(AnyToken) /\ Len(OpenIn(s)) = Len(s) - LastEnd(s)
         /\ \A i \in 1..(Len(s) - LastEnd(s)) : OpenIn(s)[i] = s[LastEnd(s) + i]
         /\ OpenIn(s) = <<>> <=> LastEnd(s) = Len(s)
<1>1. LastEnd(s) \in 0..Len(s) /\ Len(s) \in Nat
  BY LastEndIs, LenProperties
<1> DEFINE e == LastEnd(s)
           n == Len(s)
<1>2. \A i \in (e + 1)..n : s[i] \in AnyToken
  BY <1>1, ElementOfSeq
<1> HIDE DEF e, n
<1>3. e \in 0..n /\ n \in Nat
  BY <1>1 DEF e, n
<1>4. /\ SubSeq(s, e + 1, n) \in Seq(AnyToken)
      /\ Len(SubSeq(s, e + 1, n)) = IF e + 1 <= n THEN n - (e + 1) + 1 ELSE 0
      /\ \A i \in 1..(n - (e + 1) + 1) : SubSeq(s, e + 1, n)[i] = s[e + 1 + i - 1]
  BY <1>2, <1>3, SubSeqProperties
<1>5. OpenIn(s) = SubSeq(s, e + 1, n)
  BY DEF OpenIn, e, n
<1>6. Len(OpenIn(s)) = n - e
  BY <1>3, <1>4, <1>5
<1>7. \A i \in 1..(n - e) : OpenIn(s)[i] = s[e + i]
  <2>1. n - (e + 1) + 1 = n - e /\ \A i \in 1..(n - e) : e + 1 + i - 1 = e + i
    BY <1>3
  <2> QED
    BY <1>4, <1>5, <2>1
<1>8. OpenIn(s) = <<>> <=> n - e = 0
  BY <1>4, <1>5, <1>6, EmptySeq
<1>9. OpenIn(s) \in Seq(AnyToken)
  BY <1>4, <1>5
<1>10. n - e = 0 <=> e = n
  BY <1>3
<1> QED
  BY <1>6, <1>7, <1>8, <1>9, <1>10, Zenon DEF e, n

LEMMA PartStays ==
  ASSUME NEW s \in Seq(AnyToken), NEW t \in AnyToken,
         NEW a \in Nat \ {0}, NEW b \in 0..Len(s)
  PROVE  /\ SubSeq(Append(s, t), a, b) = SubSeq(s, a, b) /\ SubSeq(s, a, b) \in Seq(AnyToken)
         /\ \A i \in 1..(b - a + 1) : SubSeq(s, a, b)[i] = s[a + i - 1]
<1> DEFINE u == Append(s, t)
<1>1. Behind(u, s, t, AnyToken) /\ Len(s) \in Nat
  BY AppendIs, LenProperties
<1> HIDE DEF u
<1>2. \A i \in a..b : i \in 1..Len(s)
  BY <1>1
<1>3. \A i \in a..b : s[i] \in AnyToken /\ u[i] = s[i]
  BY <1>1, <1>2, ElementOfSeq DEF Behind
<1> DEFINE m == IF a <= b THEN b - a + 1 ELSE 0
<1>4. /\ SubSeq(s, a, b) \in Seq(AnyToken) /\ Len(SubSeq(s, a, b)) = m
      /\ \A i \in 1..(b - a + 1) : SubSeq(s, a, b)[i] = s[a + i - 1]
  BY <1>1, <1>3, SubSeqProperties
<1>5. /\ SubSeq(u, a, b) \in Seq(AnyToken) /\ Len(SubSeq(u, a, b)) = m
      /\ \A i \in 1..(b - a + 1) : SubSeq(u, a, b)[i] = u[a + i - 1]
  BY <1>1, <1>3, SubSeqProperties
<1>6. SubSeq(u, a, b) = SubSeq(s, a, b)
  <2>1. \A i \in 1..Len(SubSeq(s, a, b)) : i \in 1..(b - a + 1) /\ a + i - 1 \in a..b
    BY <1>1, <1>4
  <2>2. Len(SubSeq(u, a, b)) = Len(SubSeq(s, a, b))
    <3> HIDE DEF m
    <3> QED
      BY <1>4, <1>5, Zenon
  <2>3. \A i \in 1..Len(SubSeq(s, a, b)) : SubSeq(u, a, b)[i] = SubSeq(s, a, b)[i]
    BY <1>3, <1>4, <1>5, <2>1, Zenon
  <2> QED
    BY <1>4, <1>5, <2>2, <2>3, SeqEqual
<1> QED
  BY <1>4, <1>6 DEF u

LEMMA EndedIs ==
  ASSUME NEW s \in Seq(AnyToken), NEW l \in EndedIn(s)
  PROVE  /\ l = <<l[1], l[2]>> /\ l[1] \in 0..Len(s) /\ l[2] \in 1..Len(s) /\ l[1] + 1 < l[2]
         /\ l[1] + 1 \in Nat \ {0} /\ l[2] - 1 \in 0..Len(s) /\ l[2] <= LastEnd(s)
<1>1. l \in EndsIn(s) \X EndsIn(s) /\ l[1] + 1 < l[2]
  BY DEF EndedIn
<1>2. l = <<l[1], l[2]>> /\ l[1] \in EndsIn(s) /\ l[2] \in EndsIn(s)
  BY <1>1
<1>3. EndsIn(s) \subseteq 0..Len(s) /\ \A k \in EndsIn(s) : k <= LastEnd(s)
  BY LastEndIs
<1>4. l[1] \in 0..Len(s) /\ l[2] \in 0..Len(s) /\ l[2] <= LastEnd(s)
  BY <1>2, <1>3
<1>5. Len(s) \in Nat
  BY LenProperties
<1>6. \A n \in Nat : \A a, b \in 0..n :
        a + 1 < b => b \in 1..n /\ a + 1 \in Nat \ {0} /\ b - 1 \in 0..n
  OBVIOUS
<1> QED
  BY <1>1, <1>2, <1>4, <1>5, <1>6, Zenon

(* The line goes on ...                                                    *)
LEMMA LineGoesOn ==
  ASSUME NEW s \in Seq(AnyToken), NEW t \in AnyToken, t.kind \notin Terminators
  PROVE  /\ EndsIn(Append(s, t)) = EndsIn(s) /\ EndedIn(Append(s, t)) = EndedIn(s)
         /\ LastEnd(Append(s, t)) = LastEnd(s) /\ OpenIn(Append(s, t)) = Append(OpenIn(s), t)
<1> DEFINE u == Append(s, t)
<1>1. Behind(u, s, t, AnyToken) /\ Len(s) \in Nat /\ DOMAIN s = 1..Len(s)
  BY AppendIs, LenProperties
<1> HIDE DEF u
<1>2. DOMAIN u = 1..(Len(s) + 1) /\ \A k : k \in 1..(Len(s) + 1) <=> k \in 1..Len(s) \/ k = Len(s) + 1
  BY <1>1 DEF Behind
<1>3. \A k : k \in DOMAIN u /\ u[k].kind \in Terminators <=> k \in DOMAIN s /\ s[k].kind \in Terminators
  BY <1>1, <1>2 DEF Behind
<1>4. EndsIn(u) = EndsIn(s)
  BY <1>3, Zenon DEF EndsIn
<1>5. EndedIn(u) = EndedIn(s) /\ LastEnd(u) = LastEnd(s)
  BY <1>4, Zenon DEF EndedIn, LastEnd
<1>6. /\ OpenIn(s) \in Seq(AnyToken) /\ Len(OpenIn(s)) = Len(s) - LastEnd(s)
      /\ \A i \in 1..(Len(s) - LastEnd(s)) : OpenIn(s)[i] = s[LastEnd(s) + i]
      /\ LastEnd(s) \in 0..Len(s)
  BY OpenLineIs, LastEndIs
<1>7. u \in Seq(AnyToken) /\ Len(u) = Len(s) + 1
  BY <1>1 DEF Behind
<1>8. /\ OpenIn(u) \in Seq(AnyToken) /\ Len(OpenIn(u)) = (Len(s) + 1) - LastEnd(s)
      /\ \A i \in 1..((Len(s) + 1) - LastEnd(s)) : OpenIn(u)[i] = u[LastEnd(s) + i]
  <2> DEFINE Lies(n, e) ==
        /\ OpenIn(u) \in Seq(AnyToken) /\ Len(OpenIn(u)) = n - e
        /\ \A i \in 1..(n - e) : OpenIn(u)[i] = u[e + i]
  <2>1. Lies(Len(u), LastEnd(u))
    BY <1>7, OpenLineIs
  <2>2. Lies(Len(s) + 1, LastEnd(s))
    <3> HIDE DEF Lies
    <3> QED
      BY <1>5, <1>7, <2>1, Zenon
  <2> QED
    BY <2>2
<1> DEFINE n == Len(s)
           e == LastEnd(s)
           v == Append(OpenIn(s), t)
<1>9. Behind(v, OpenIn(s), t, AnyToken)
  BY <1>6, AppendIs
<1> HIDE DEF n, e, v
<1>10. /\ n \in Nat /\ e \in 0..n /\ Len(OpenIn(s)) = n - e /\ Len(OpenIn(u)) = n + 1 - e
       /\ \A i \in 1..(n - e) : OpenIn(s)[i] = s[e + i]
       /\ \A i \in 1..(n + 1 - e) : OpenIn(u)[i] = u[e + i]
       /\ u[n + 1] = t /\ \A k \in 1..n : u[k] = s[k]
  BY <1>1, <1>6, <1>8 DEF n, e, Behind
<1>11. v \in Seq(AnyToken) /\ Len(v) = n + 1 - e /\ v[n - e + 1] = t
       /\ \A i \in 1..(n - e) : v[i] = OpenIn(s)[i]
  BY <1>9, <1>10 DEF Behind
<1>12. \A i \in 1..(n + 1 - e) : OpenIn(u)[i] = v[i]
  <2> TAKE i \in 1..(n + 1 - e)
  <2>1. CASE i = n - e + 1
    <3>1. e + i = n + 1
      BY <1>10, <2>1
    <3> QED
      BY <1>10, <1>11, <2>1, <3>1
  <2>2. CASE i # n - e + 1
    <3>1. i \in 1..(n - e) /\ e + i \in 1..n
      BY <1>10, <2>2
    <3> QED
      BY <1>10, <1>11, <3>1
  <2> QED
    BY <2>1, <2>2
<1>13. OpenIn(u) = v
  BY <1>8, <1>10, <1>11, <1>12, SeqEqual
<1> QED
  BY <1>4, <1>5, <1>13 DEF u, v

(* ... or ends.                                                            *)
LEMMA LineEnds ==
  ASSUME NEW s \in Seq(AnyToken), NEW t \in AnyToken, t.kind \in Terminators
  PROVE  /\ LastEnd(Append(s, t)) = Len(s) + 1 /\ OpenIn(Append(s, t)) = <<>>
         /\ EndedIn(Append(s, t)) =
              EndedIn(s) \cup (IF OpenIn(s) = <<>> THEN {} ELSE {<<LastEnd(s), Len(s) + 1>>})
<1> DEFINE u == Append(s, t)
           n == Len(s)
           e == LastEnd(s)
<1>1. Behind(u, s, t, AnyToken) /\ Len(s) \in Nat /\ DOMAIN s = 1..Len(s)
  BY AppendIs, LenProperties
<1>2. /\ LastEnd(s) \in 0..Len(s) /\ LastEnd(s) \in EndsIn(s) /\ EndsIn(s) \subseteq 0..Len(s)
      /\ \A k \in EndsIn(s) : k <= LastEnd(s)
      /\ OpenIn(s) = <<>> <=> LastEnd(s) = Len(s)
  BY LastEndIs, OpenLineIs
<1> HIDE DEF u, n, e
<1>3. /\ n \in Nat /\ e \in 0..n /\ e \in EndsIn(s) /\ EndsIn(s) \subseteq 0..n
      /\ \A k \in EndsIn(s) : k <= e
      /\ OpenIn(s) = <<>> <=> e = n
      /\ u \in Seq(AnyToken) /\ Len(u) = n + 1 /\ DOMAIN u = 1..(n + 1) /\ DOMAIN s = 1..n
      /\ u[n + 1] = t /\ \A k \in 1..n : u[k] = s[k]
  BY <1>1, <1>2, LenProperties DEF Behind, n, e
<1>4. \A k : k \in 1..(n + 1) <=> k \in 1..n \/ k = n + 1
  BY <1>3
<1>5. \A k : k \in EndsIn(u) <=> k \in EndsIn(s) \/ k = n + 1
  BY <1>3, <1>4 DEF EndsIn
<1>6. LastEnd(u) = n + 1
  <2>1. /\ LastEnd(u) \in EndsIn(u) /\ \A k \in EndsIn(u) : k <= LastEnd(u)
        /\ LastEnd(u) \in 0..(n + 1)
    BY <1>3, LastEndIs
  <2> QED
    BY <1>3, <1>5, <2>1
<1>7. OpenIn(u) = <<>>
  BY <1>3, <1>6, OpenLineIs
<1>8. \A a, b \in EndsIn(u) :
        (a + 1 < b /\ \A k \in EndsIn(u) : ~(a < k /\ k < b))
          <=> \/ /\ a \in EndsIn(s) /\ b \in EndsIn(s)
                 /\ a + 1 < b /\ \A k \in EndsIn(s) : ~(a < k /\ k < b)
              \/ a = e /\ b = n + 1 /\ e # n
  <2> TAKE a, b \in EndsIn(u)
  <2>1. CASE b = n + 1
    BY <1>3, <1>5, <2>1
  <2>2. CASE b \in EndsIn(s)
    BY <1>3, <1>5, <2>2
  <2> QED
    BY <1>5, <2>1, <2>2
<1>9. e \in EndsIn(u) /\ n + 1 \in EndsIn(u) /\ EndsIn(s) \subseteq EndsIn(u)
  BY <1>3, <1>5
<1>10. \A l : l \in EndedIn(u) <=> l \in EndedIn(s) \/ (OpenIn(s) # <<>> /\ l = <<e, n + 1>>)
  <2> TAKE l
  <2>1. ASSUME l \in EndedIn(u)
        PROVE  l \in EndedIn(s) \/ (OpenIn(s) # <<>> /\ l = <<e, n + 1>>)
    <3>1. /\ l = <<l[1], l[2]>> /\ l[1] \in EndsIn(u) /\ l[2] \in EndsIn(u)
          /\ l[1] + 1 < l[2] /\ \A k \in EndsIn(u) : ~(l[1] < k /\ k < l[2])
      BY <2>1 DEF EndedIn
    <3>2. \/ /\ l[1] \in EndsIn(s) /\ l[2] \in EndsIn(s)
             /\ l[1] + 1 < l[2] /\ \A k \in EndsIn(s) : ~(l[1] < k /\ k < l[2])
          \/ l[1] = e /\ l[2] = n + 1 /\ e # n
      BY <1>8, <3>1, Zenon
    <3>3. CASE /\ l[1] \in EndsIn(s) /\ l[2] \in EndsIn(s)
               /\ l[1] + 1 < l[2] /\ \A k \in EndsIn(s) : ~(l[1] < k /\ k < l[2])
      <4>1. l \in EndsIn(s) \X EndsIn(s)
        BY <3>1, <3>3
      <4> QED
        BY <3>3, <4>1 DEF EndedIn
    <3>4. CASE l[1] = e /\ l[2] = n + 1 /\ e # n
      BY <1>3, <3>1, <3>4
    <3> QED
      BY <3>2, <3>3, <3>4
  <2>2. ASSUME l \in EndedIn(s)
        PROVE  l \in EndedIn(u)
    <3>1. /\ l = <<l[1], l[2]>> /\ l[1] \in EndsIn(s) /\ l[2] \in EndsIn(s)
          /\ l[1] + 1 < l[2] /\ \A k \in EndsIn(s) : ~(l[1] < k /\ k < l[2])
      BY <2>2 DEF EndedIn
    <3>2. /\ l[1] \in EndsIn(u) /\ l[2] \in EndsIn(u)
          /\ \A k \in EndsIn(u) : ~(l[1] < k /\ k < l[2])
      BY <1>8, <1>9, <3>1
    <3>3. l \in EndsIn(u) \X EndsIn(u)
      BY <3>1, <3>2
    <3> QED
      BY <3>1, <3>2, <3>3 DEF EndedIn
  <2>3. ASSUME OpenIn(s) # <<>>, l = <<e, n + 1>>
        PROVE  l \in EndedIn(u)
    <3>1. e + 1 < n + 1 /\ \A k \in EndsIn(u) : ~(e < k /\ k < n + 1)
      BY <1>3, <1>8, <1>9, <2>3
    <3>2. l \in EndsIn(u) \X EndsIn(u) /\ l[1] = e /\ l[2] = n + 1
      BY <1>9, <2>3
    <3> QED
      BY <3>1, <3>2 DEF EndedIn
  <2> QED
    BY <2>1, <2>2, <2>3
<1>11. EndedIn(u) = EndedIn(s) \cup (IF OpenIn(s) = <<>> THEN {} ELSE {<<e, n + 1>>})
  BY <1>10
<1> QED
  BY <1>6, <1>7, <1>11 DEF u, n, e

-----------------------------------------------------------------------------
(* The instructions complete.                                              *)
Meanings == {Meant(word) : word \in Seq(AnyToken)}
MeantBy(words) == [k \in DOMAIN words |-> Meant(words[k])]
Mnemonics == {t.name : t \in AnyToken}
AnyInstruction == [mnemonic : Mnemonics, operands : Seq(Meanings), begin : Nat, end : Nat]

LEMMA MeantGrows ==
  ASSUME NEW done \in Seq(Seq(AnyToken)), NEW word \in Seq(AnyToken)
  PROVE  /\ MeantBy(done) \in Seq(Meanings) /\ MeantBy(Append(done, word)) \in Seq(Meanings)
         /\ Append(MeantBy(done), Meant(word)) = MeantBy(Append(done, word))
         /\ MeantBy(done) = <<>> <=> done = <<>>
<1>1. \A w \in Seq(AnyToken) : Meant(w) \in Meanings
  BY DEF Meanings
<1>2. \A d \in Seq(Seq(AnyToken)) : /\ MeantBy(d) \in Seq(Meanings) /\ Len(MeantBy(d)) = Len(d)
                                    /\ \A k \in 1..Len(d) : MeantBy(d)[k] = Meant(d[k])
  <2> TAKE d \in Seq(Seq(AnyToken))
  <2>1. Len(d) \in Nat /\ DOMAIN d = 1..Len(d) /\ \A k \in 1..Len(d) : d[k] \in Seq(AnyToken)
    BY LenProperties, ElementOfSeq
  <2> DEFINE f(k) == Meant(d[k])
  <2>2. MeantBy(d) = [k \in 1..Len(d) |-> f(k)] /\ \A k \in 1..Len(d) : f(k) \in Meanings
    BY <1>1, <2>1 DEF MeantBy
  <2> HIDE DEF f
  <2>3. /\ MeantBy(d) \in Seq(Meanings) /\ Len(MeantBy(d)) = Len(d)
        /\ \A k \in 1..Len(d) : MeantBy(d)[k] = f(k)
    BY <2>1, <2>2
  <2> QED
    BY <2>3 DEF f
<1> DEFINE p == MeantBy(done)
           e == Meant(word)
           d == Append(done, word)
           u == Append(p, e)
           v == MeantBy(d)
<1>3. Behind(d, done, word, Seq(AnyToken)) /\ Len(done) \in Nat
  BY AppendIs, LenProperties
<1>4. d \in Seq(Seq(AnyToken)) /\ Len(d) = Len(done) + 1
  BY <1>3 DEF Behind
<1> HIDE DEF d
<1>5. p \in Seq(Meanings) /\ Len(p) = Len(done) /\ v \in Seq(Meanings) /\ Len(v) = Len(done) + 1
  BY <1>2, <1>4
<1>6. e \in Meanings
  BY <1>1
<1>7. \A k \in 1..(Len(done) + 1) : v[k] = Meant(d[k])
  BY <1>2, <1>4, Zenon
<1>8. \A k \in 1..Len(done) : p[k] = Meant(done[k])
  BY <1>2
<1> HIDE DEF p, e, v
<1>9. Behind(u, p, e, Meanings)
  BY <1>5, <1>6, AppendIs
<1> HIDE DEF u
<1>10. u \in Seq(Meanings) /\ Len(u) = Len(v)
  BY <1>5, <1>9 DEF Behind
<1>11. \A k \in 1..(Len(done) + 1) : u[k] = v[k]
  <2> TAKE k \in 1..(Len(done) + 1)
  <2>1. CASE k = Len(done) + 1
    BY <1>3, <1>5, <1>7, <1>9, <2>1 DEF Behind, e
  <2>2. CASE k \in 1..Len(done)
    BY <1>3, <1>5, <1>7, <1>8, <1>9, <2>2 DEF Behind
  <2> QED
    BY <1>3, <2>1, <2>2
<1>12. u = v
  BY <1>5, <1>10, <1>11, SeqEqual
<1>13. p = <<>> <=> done = <<>>
  BY <1>5, EmptySeq
<1> QED
  BY <1>5, <1>12, <1>13 DEF p, e, d, u, v

StandsIn(s, i) ==
  i = Instruction(s[i.begin].name, MeantBy(Words(Tail(SubSeq(s, i.begin, i.end)))), i.begin, i.end)
DoneIn(s, done) ==
  /\ \A l \in EndedIn(s) : LegalLine(SubSeq(s, l[1] + 1, l[2] - 1))
  /\ done \in Seq(AnyInstruction)
  /\ {<<i.begin - 1, i.end + 1>> : i \in ToSet(done)} = EndedIn(s)
  /\ \A j, k \in DOMAIN done : j < k => done[j].begin < done[k].begin
  /\ \A i \in ToSet(done) : StandsIn(s, i)

LEMMA InstructionStays ==
  ASSUME NEW s \in Seq(AnyToken), NEW t \in AnyToken, NEW done, DoneIn(s, done),
         NEW i \in ToSet(done)
  PROVE  i \in AnyInstruction /\ i.begin <= LastEnd(s) /\ StandsIn(Append(s, t), i)
<1>1. done \in Seq(AnyInstruction) /\ StandsIn(s, i) /\ <<i.begin - 1, i.end + 1>> \in EndedIn(s)
  BY DEF DoneIn
<1>2. i \in AnyInstruction
  <2>1. PICK k \in DOMAIN done : done[k] = i
    BY DEF ToSet
  <2> QED
    BY <1>1, <2>1
<1>3. i.begin \in Nat /\ i.end \in Nat
  BY <1>2 DEF AnyInstruction
<1>4. /\ i.begin - 1 \in 0..Len(s) /\ i.end + 1 \in 1..Len(s) /\ i.begin - 1 + 1 < i.end + 1
      /\ i.end + 1 <= LastEnd(s)
  <2> DEFINE l == <<i.begin - 1, i.end + 1>>
  <2>1. l[1] \in 0..Len(s) /\ l[2] \in 1..Len(s) /\ l[1] + 1 < l[2] /\ l[2] <= LastEnd(s)
    <3> HIDE DEF l
    <3> QED
      BY <1>1, EndedIs DEF l
  <2> QED
    BY <2>1
<1>5. LastEnd(s) \in 0..Len(s) /\ Len(s) \in Nat
  BY LastEndIs, LenProperties
<1>6. i.begin \in Nat \ {0} /\ i.begin <= i.end /\ i.end \in 0..Len(s) /\ i.begin <= LastEnd(s)
      /\ i.begin \in 1..Len(s)
  BY <1>3, <1>4, <1>5
<1>7. SubSeq(Append(s, t), i.begin, i.end) = SubSeq(s, i.begin, i.end)
  BY <1>6, PartStays
<1>8. Append(s, t)[i.begin] = s[i.begin]
  <2>1. Behind(Append(s, t), s, t, AnyToken)
    BY AppendIs
  <2> QED
    BY <1>6, <2>1 DEF Behind
<1>9. StandsIn(Append(s, t), i)
  BY <1>1, <1>7, <1>8, Zenon DEF StandsIn
<1> QED
  BY <1>2, <1>6, <1>9

LEMMA LinesStay ==
  ASSUME NEW s \in Seq(AnyToken), NEW t \in AnyToken, NEW l \in EndedIn(s)
  PROVE  SubSeq(Append(s, t), l[1] + 1, l[2] - 1) = SubSeq(s, l[1] + 1, l[2] - 1)
<1>1. l[1] + 1 \in Nat \ {0} /\ l[2] - 1 \in 0..Len(s)
  BY EndedIs
<1> QED
  BY <1>1, PartStays

(* A token in a line, or a blank line, changes nothing of them ...         *)
LEMMA DoneStays ==
  ASSUME NEW s \in Seq(AnyToken), NEW t \in AnyToken, NEW done, DoneIn(s, done),
         t.kind \notin Terminators \/ OpenIn(s) = <<>>
  PROVE  DoneIn(Append(s, t), done)
<1>1. EndedIn(Append(s, t)) = EndedIn(s)
  BY LineGoesOn, LineEnds
<1>2. \A l \in EndedIn(s) : LegalLine(SubSeq(Append(s, t), l[1] + 1, l[2] - 1))
  BY LinesStay DEF DoneIn
<1>3. \A i \in ToSet(done) : StandsIn(Append(s, t), i)
  BY InstructionStays
<1> QED
  BY <1>1, <1>2, <1>3, Zenon DEF DoneIn

(* ... the end of a line adds its instruction.                             *)
LEMMA DoneGrows ==
  ASSUME NEW s \in Seq(AnyToken), NEW t \in AnyToken, NEW done, DoneIn(s, done),
         t.kind \in Terminators, OpenIn(s) # <<>>, LegalLine(OpenIn(s)),
         NEW new \in AnyInstruction,
         new = Instruction(OpenIn(s)[1].name, MeantBy(Words(Tail(OpenIn(s)))),
                           LastEnd(s) + 1, Len(s))
  PROVE  DoneIn(Append(s, t), Append(done, new))
<1> DEFINE u == Append(s, t)
           d == Append(done, new)
<1>1. done \in Seq(AnyInstruction) /\ Len(done) \in Nat /\ DOMAIN done = 1..Len(done)
  BY LenProperties DEF DoneIn
<1>2. Behind(d, done, new, AnyInstruction) /\ Behind(u, s, t, AnyToken)
  BY <1>1, AppendIs
<1>3. EndedIn(u) = EndedIn(s) \cup {<<LastEnd(s), Len(s) + 1>>}
  BY LineEnds
<1>4. LastEnd(s) \in 0..Len(s) /\ LastEnd(s) # Len(s) /\ Len(s) \in Nat
  BY LastEndIs, OpenLineIs, LenProperties
<1>5. SubSeq(u, LastEnd(s) + 1, Len(s)) = OpenIn(s)
  <2>1. LastEnd(s) + 1 \in Nat \ {0} /\ Len(s) \in 0..Len(s)
    BY <1>4
  <2> QED
    BY <2>1, PartStays DEF OpenIn
<1>6. \A i \in ToSet(done) : i \in AnyInstruction /\ i.begin <= LastEnd(s) /\ StandsIn(u, i)
  BY InstructionStays
<1>7. new.begin = LastEnd(s) + 1 /\ new.end = Len(s)
  BY DEF Instruction
<1>8. \A l \in EndedIn(s) : LegalLine(SubSeq(u, l[1] + 1, l[2] - 1))
  BY LinesStay DEF DoneIn
<1> HIDE DEF d, u
<1>9. ToSet(d) = ToSet(done) \cup {new}
  <2>1. DOMAIN d = 1..(Len(done) + 1) /\ \A k : k \in 1..(Len(done) + 1) <=> k \in 1..Len(done) \/ k = Len(done) + 1
    BY <1>1, <1>2 DEF Behind
  <2> QED
    BY <1>1, <1>2, <2>1 DEF ToSet, Behind
<1>10. \A l \in EndedIn(u) : LegalLine(SubSeq(u, l[1] + 1, l[2] - 1))
  <2>1. SubSeq(u, LastEnd(s) + 1, (Len(s) + 1) - 1) = OpenIn(s)
    BY <1>4, <1>5
  <2> DEFINE m == <<LastEnd(s), Len(s) + 1>>
  <2>2. LegalLine(SubSeq(u, m[1] + 1, m[2] - 1))
    BY <2>1
  <2> QED
    BY <1>3, <1>8, <2>2
<1>11. {<<i.begin - 1, i.end + 1>> : i \in ToSet(d)} = EndedIn(u)
  <2>1. {<<i.begin - 1, i.end + 1>> : i \in ToSet(done)} = EndedIn(s)
    BY DEF DoneIn
  <2>2. <<new.begin - 1, new.end + 1>> = <<LastEnd(s), Len(s) + 1>>
    BY <1>4, <1>7
  <2> QED
    BY <1>3, <1>9, <2>1, <2>2
<1>12. \A j, k \in DOMAIN d : j < k => d[j].begin < d[k].begin
  <2> TAKE j, k \in DOMAIN d
  <2>1. DOMAIN d = 1..(Len(done) + 1)
    BY <1>1, <1>2 DEF Behind
  <2>2. CASE k = Len(done) + 1
    <3> HAVE j < k
    <3>1. j \in 1..Len(done) /\ d[j] = done[j] /\ d[k] = new
      BY <1>1, <1>2, <2>1, <2>2 DEF Behind
    <3>2. done[j] \in ToSet(done)
      BY <1>1, <3>1 DEF ToSet
    <3>3. d[j].begin <= LastEnd(s) /\ d[j].begin \in Nat
      BY <1>6, <3>1, <3>2 DEF AnyInstruction
    <3> QED
      BY <1>4, <1>7, <3>1, <3>3
  <2>3. CASE k # Len(done) + 1
    <3> HAVE j < k
    <3>1. j \in 1..Len(done) /\ k \in 1..Len(done)
      BY <1>1, <2>1, <2>3
    <3> QED
      BY <1>1, <1>2, <3>1 DEF Behind, DoneIn
  <2> QED
    BY <2>2, <2>3
<1>13. StandsIn(u, new)
  <2>1. SubSeq(u, new.begin, new.end) = OpenIn(s)
    BY <1>5, <1>7
  <2>2. u[new.begin] = OpenIn(s)[1]
    <3>1. OpenIn(s)[1] = s[LastEnd(s) + 1]
      BY <1>4, OpenLineIs
    <3> QED
      BY <1>2, <1>4, <1>7, <3>1 DEF Behind
  <2> QED
    BY <1>7, <2>1, <2>2, Zenon DEF StandsIn
<1>14. d \in Seq(AnyInstruction)
  BY <1>2 DEF Behind
<1>15. \A i \in ToSet(d) : StandsIn(u, i)
  BY <1>6, <1>9, <1>13
<1> QED
  BY <1>10, <1>11, <1>12, <1>14, <1>15, Zenon DEF DoneIn, d, u

-----------------------------------------------------------------------------
(* The invariant.  As long as nothing is refused, all lines ended are      *)
(* legal and their instructions complete, and what the parser holds of the *)
(* line it is in is what the words read of it mean.                        *)
LineRead == OpenIn(parsed)

(* The memory operand begun.                                               *)
SignOf(token) == IF token.kind = "minus" THEN -1 ELSE 1
MemoryBegun(word) ==
  \/ mode = "base" /\ Len(word) = 1 /\ Opened(word)
  \/ mode = "sign" /\ Len(word) = 2 /\ Based(word) /\ memory = MemoryAt(word[2].name, 0)
  \/ /\ mode \in {"plus", "minus"} /\ Len(word) = 3 /\ Signed(word)
     /\ word[3].kind = mode /\ memory = MemoryAt(word[2].name, 0)
  \/ /\ mode = "close" /\ Len(word) = 4 /\ Displaced(word)
     /\ memory = MemoryAt(word[2].name, SignOf(word[3]) * word[4].value)
AtOperand(done, word) ==
  /\ mode = "operand" /\ word = <<>> /\ current.operands = MeantBy(done)
  /\ Tail(LineRead) = <<>> <=> done = <<>>
  /\ done = <<>> => current.end = Len(parsed)
AtSeparator(done, word) ==
  /\ mode = "separator" /\ LegalOperand(word) /\ Tail(LineRead) # <<>>
  /\ current.operands = MeantBy(Append(done, word)) /\ current.end = Len(parsed)
InMemory(done, word) ==
  MemoryBegun(word) /\ current.operands = MeantBy(done) /\ Tail(LineRead) # <<>>
Reading(done, word) ==
  /\ InWord(LineRead, done, word) /\ current \in AnyInstruction
  /\ current.mnemonic = LineRead[1].name /\ current.begin = LastEnd(parsed) + 1
  /\ AtOperand(done, word) \/ AtSeparator(done, word) \/ InMemory(done, word)

Refused ==
  \/ \E l \in EndedIn(parsed) : ~LegalLine(SubSeq(parsed, l[1] + 1, l[2] - 1))
  \/ LineRead # <<>> /\ ~Viable(LineRead)
Accepted ==
  /\ DoneIn(parsed, instructions)
  /\ \/ mode \in {"line", "end"} /\ LineRead = <<>>
     \/ \E done, word : Reading(done, word)
ParseInv ==
  /\ parsed \in Seq(AnyToken)
  /\ error = "none" => Accepted
  /\ error # "none" => Refused

LEMMA TokenKinds ==
  ASSUME NEW t \in Tokens
  PROVE  t \in AnyToken /\ (t.kind \in Terminators <=> t.kind = "newline")
BY DEF Tokens, AnyToken, Name, IntegerToken, Symbol, Terminators

LEMMA ReadingBegun ==
  ASSUME NEW done, NEW word, Reading(done, word)
  PROVE  /\ Begun(word) /\ LineRead # <<>> /\ mode \notin {"line", "end"} /\ Viable(LineRead)
         /\ done \in Seq(Seq(AnyToken)) /\ word \in Seq(AnyToken) /\ InWord(LineRead, done, word)
<1>1. InWord(LineRead, done, word) /\ LineRead # <<>>
      /\ done \in Seq(Seq(AnyToken)) /\ word \in Seq(AnyToken)
  BY DEF Reading, InWord
<1>2. CASE AtOperand(done, word)
  <2>1. mode = "operand" /\ Len(word) = 0
    BY <1>2, EmptySeq DEF AtOperand
  <2> QED
    BY <1>1, <2>1, ViableByLastWord DEF Begun
<1>3. CASE AtSeparator(done, word)
  <2>1. mode = "separator" /\ Whole(word)
    BY <1>1, <1>3, LegalIsWhole DEF AtSeparator
  <2> QED
    BY <1>1, <2>1, ViableByLastWord DEF Begun
<1>4. CASE InMemory(done, word)
  <2>1. mode \in {"base", "sign", "plus", "minus", "close"} /\ Begun(word)
    BY <1>4 DEF InMemory, MemoryBegun, Begun
  <2> QED
    BY <1>1, <2>1, ViableByLastWord
<1> QED
  BY <1>2, <1>3, <1>4 DEF Reading

(* What a token of a line makes of its last word.                          *)
LEMMA TokenInLine ==
  ASSUME NEW s \in Seq(AnyToken), NEW done, NEW word, InWord(OpenIn(s), done, word),
         NEW t \in AnyToken, t.kind \notin Terminators
  PROVE  /\ OpenIn(Append(s, t))[1] = OpenIn(s)[1] /\ LastEnd(Append(s, t)) = LastEnd(s)
         /\ Tail(OpenIn(Append(s, t))) # <<>> /\ Len(Append(s, t)) = Len(s) + 1
         /\ Append(s, t) \in Seq(AnyToken) /\ Behind(Append(word, t), word, t, AnyToken)
         /\ t.kind # "comma" => InWord(OpenIn(Append(s, t)), done, Append(word, t))
         /\ t.kind = "comma" /\ LegalOperand(word) =>
              InWord(OpenIn(Append(s, t)), Append(done, word), <<>>)
         /\ t.kind = "comma" /\ ~LegalOperand(word) => ~Viable(OpenIn(Append(s, t)))
         /\ t.kind # "comma" /\ ~Begun(Append(word, t)) => ~Viable(OpenIn(Append(s, t)))
<1> DEFINE line0 == OpenIn(s)
           line1 == OpenIn(Append(s, t))
<1>1. line1 = Append(line0, t) /\ LastEnd(Append(s, t)) = LastEnd(s)
  BY LineGoesOn
<1>2. line0 \in Seq(AnyToken) /\ line0 # <<>> /\ word \in Seq(AnyToken)
  BY DEF InWord
<1>3. Append(line0, t)[1] = line0[1] /\ Tail(Append(line0, t)) # <<>>
  BY <1>2, TailGrows
<1>4. /\ t.kind # "comma" => InWord(Append(line0, t), done, Append(word, t))
      /\ t.kind = "comma" /\ LegalOperand(word) =>
           InWord(Append(line0, t), Append(done, word), <<>>)
  BY WordGrows
<1>5. t.kind = "comma" /\ ~LegalOperand(word) => ~Viable(Append(line0, t))
  BY CommaSpoils
<1>6. t.kind # "comma" /\ ~Begun(Append(word, t)) => ~Viable(Append(line0, t))
  BY <1>3, <1>4, ViableByLastWord
<1>7. Behind(Append(word, t), word, t, AnyToken) /\ Behind(Append(s, t), s, t, AnyToken)
  BY <1>2, AppendIs
<1>8. Len(Append(s, t)) = Len(s) + 1 /\ Append(s, t) \in Seq(AnyToken)
  BY <1>7 DEF Behind
<1> HIDE DEF line0, line1
<1> QED
  BY <1>1, <1>3, <1>4, <1>5, <1>6, <1>7, <1>8 DEF line0, line1

LEMMA MeantIs ==
  ASSUME NEW w
  PROVE  /\ Len(w) = 1 /\ w[1].kind = "identifier" => Meant(w) = NamedRegister(w[1].name)
         /\ Len(w) = 1 /\ w[1].kind = "integer" => Meant(w) = Immediate(w[1].value)
         /\ Len(w) = 3 /\ Opened(w) => Meant(w) = MemoryAt(w[2].name, 0)
         /\ Len(w) = 5 /\ Opened(w) =>
              Meant(w) = MemoryAt(w[2].name, SignOf(w[3]) * w[4].value)
BY DEF Meant, SignOf, Opened

-----------------------------------------------------------------------------
(* Steps of the parser: a token is refused ...                             *)
LEMMA RefusedInLine ==
  ASSUME ParseInv, error = "none", NEW t \in AnyToken, t.kind \notin Terminators,
         parsed' = Append(parsed, t), error' # "none", ~Viable(OpenIn(Append(parsed, t)))
  PROVE  ParseInv'
<1>1. parsed \in Seq(AnyToken) /\ LineRead \in Seq(AnyToken)
  BY OpenLineIs DEF ParseInv, LineRead
<1>2. OpenIn(parsed') = Append(LineRead, t)
  BY <1>1, LineGoesOn DEF LineRead
<1>3. Append(LineRead, t) # <<>> /\ parsed' \in Seq(AnyToken)
  BY <1>1, AppendProperties
<1> QED
  BY <1>2, <1>3 DEF ParseInv, Refused, LineRead

(* ... or the end of a line is ...                                         *)
LEMMA RefusedAtEnd ==
  ASSUME ParseInv, error = "none", NEW t \in AnyToken, t.kind \in Terminators,
         parsed' = Append(parsed, t), error' # "none", LineRead # <<>>, ~LegalLine(LineRead)
  PROVE  ParseInv'
<1>1. parsed \in Seq(AnyToken)
  BY DEF ParseInv
<1>2. <<LastEnd(parsed), Len(parsed) + 1>> \in EndedIn(parsed')
  BY <1>1, LineEnds DEF LineRead
<1>3. SubSeq(parsed', LastEnd(parsed) + 1, (Len(parsed) + 1) - 1) = LineRead
  <2>1. LastEnd(parsed) + 1 \in Nat \ {0} /\ Len(parsed) \in 0..Len(parsed) /\ (Len(parsed) + 1) - 1 = Len(parsed)
    BY <1>1, LastEndIs, LenProperties
  <2> QED
    BY <1>1, <2>1, PartStays DEF OpenIn, LineRead
<1>4. \E l \in EndedIn(parsed') : ~LegalLine(SubSeq(parsed', l[1] + 1, l[2] - 1))
  <2> DEFINE l == <<LastEnd(parsed), Len(parsed) + 1>>
  <2>1. ~LegalLine(SubSeq(parsed', l[1] + 1, l[2] - 1))
    BY <1>3
  <2> QED
    BY <1>2, <2>1
<1>5. parsed' \in Seq(AnyToken)
  BY <1>1, AppendProperties
<1> QED
  BY <1>4, <1>5 DEF ParseInv, Refused

(* ... or it is read in the line ...                                       *)
LEMMA TakenInLine ==
  ASSUME ParseInv, error = "none", NEW t \in AnyToken, t.kind \notin Terminators,
         parsed' = Append(parsed, t), error' = error, instructions' = instructions,
         NEW done, NEW word, Reading(done, word)'
  PROVE  ParseInv'
<1>1. parsed \in Seq(AnyToken) /\ DoneIn(parsed, instructions)
  BY DEF ParseInv, Accepted
<1>2. DoneIn(parsed', instructions')
  BY <1>1, DoneStays
<1>3. parsed' \in Seq(AnyToken)
  BY <1>1, AppendProperties
<1> QED
  BY <1>2, <1>3 DEF ParseInv, Accepted

(* ... or ends an instruction.                                             *)
LEMMA LineTaken ==
  ASSUME ParseInv, error = "none", NEW t \in AnyToken, t.kind \in Terminators,
         parsed' = Append(parsed, t), mode' \in {"line", "end"}, error' = error,
         instructions' = Append(instructions, current),
         NEW done, NEW word, Reading(done, word), LegalLine(LineRead),
         current.operands = MeantBy(Words(Tail(LineRead))), current.end = Len(parsed)
  PROVE  ParseInv'
<1>1. parsed \in Seq(AnyToken) /\ DoneIn(parsed, instructions)
  BY DEF ParseInv, Accepted
<1>2. /\ current \in AnyInstruction /\ current.mnemonic = LineRead[1].name
      /\ current.begin = LastEnd(parsed) + 1 /\ LineRead # <<>>
  BY DEF Reading, InWord
<1>3. current = Instruction(LineRead[1].name, MeantBy(Words(Tail(LineRead))),
                            LastEnd(parsed) + 1, Len(parsed))
  BY <1>2 DEF AnyInstruction, Instruction
<1>4. DoneIn(parsed', instructions')
  BY <1>1, <1>2, <1>3, DoneGrows DEF LineRead
<1>5. OpenIn(parsed') = <<>> /\ parsed' \in Seq(AnyToken)
  BY <1>1, LineEnds, AppendProperties
<1> QED
  BY <1>4, <1>5 DEF ParseInv, Accepted, LineRead

(* The same by the word read.                                              *)
LEMMA WordRefused ==
  ASSUME ParseInv, error = "none", NEW t \in AnyToken, t.kind \notin Terminators,
         parsed' = Append(parsed, t), error' # "none",
         NEW done, NEW word, Reading(done, word),
         \/ t.kind = "comma" /\ ~LegalOperand(word)
         \/ t.kind # "comma" /\ ~Begun(Append(word, t))
  PROVE  ParseInv'
<1>1. parsed \in Seq(AnyToken) /\ InWord(OpenIn(parsed), done, word)
  BY DEF ParseInv, Reading, LineRead
<1>2. ~Viable(OpenIn(Append(parsed, t)))
  BY <1>1, TokenInLine
<1> QED
  BY <1>2, RefusedInLine

LEMMA EndRefused ==
  ASSUME ParseInv, error = "none", NEW t \in AnyToken, t.kind \in Terminators,
         parsed' = Append(parsed, t), error' # "none",
         NEW done, NEW word, Reading(done, word), Tail(LineRead) # <<>>, ~LegalOperand(word)
  PROVE  ParseInv'
<1>1. InWord(LineRead, done, word) /\ LineRead # <<>>
  BY ReadingBegun
<1>2. ~LegalLine(LineRead)
  BY <1>1, LegalByLastWord
<1> QED
  BY <1>1, <1>2, RefusedAtEnd

LEMMA OperandTaken ==
  ASSUME ParseInv, error = "none", NEW t \in AnyToken, t.kind \notin Terminators,
         t.kind # "comma", parsed' = Append(parsed, t),
         NEW done, NEW word, Reading(done, word), current.operands = MeantBy(done),
         LegalOperand(Append(word, t)), Took(Meant(Append(word, t)))
  PROVE  ParseInv'
<1> DEFINE v == Append(word, t)
           e == Meant(v)
<1>1. parsed \in Seq(AnyToken) /\ InWord(OpenIn(parsed), done, word)
  BY DEF ParseInv, Reading, LineRead
<1>2. /\ OpenIn(parsed')[1] = OpenIn(parsed)[1] /\ LastEnd(parsed') = LastEnd(parsed)
      /\ Tail(OpenIn(parsed')) # <<>> /\ Len(parsed') = Len(parsed) + 1
      /\ InWord(OpenIn(parsed'), done, v)
  BY <1>1, TokenInLine
<1>3. done \in Seq(Seq(AnyToken)) /\ v \in Seq(AnyToken)
  BY <1>2 DEF InWord
<1>4. /\ current \in AnyInstruction /\ current.mnemonic = OpenIn(parsed)[1].name
      /\ current.begin = LastEnd(parsed) + 1
  BY DEF Reading, LineRead
<1>5. LegalOperand(v) /\ Took(e)
  OBVIOUS
<1> HIDE DEF v
<1>6. /\ MeantBy(done) \in Seq(Meanings) /\ MeantBy(Append(done, v)) \in Seq(Meanings)
      /\ Append(MeantBy(done), e) = MeantBy(Append(done, v))
  BY <1>3, MeantGrows
<1> HIDE DEF e
<1>7. /\ current' = [current EXCEPT !.operands = Append(@, e), !.end = Len(parsed) + 1]
      /\ mode' = "separator" /\ instructions' = instructions /\ error' = error
  BY <1>5 DEF Took, WithOperand, This
<1>8. Len(parsed) + 1 \in Nat
  BY <1>1, LenProperties
<1>9. /\ current' \in AnyInstruction /\ current'.mnemonic = current.mnemonic
      /\ current'.begin = current.begin /\ current'.operands = MeantBy(Append(done, v))
      /\ current'.end = Len(parsed) + 1
  BY <1>4, <1>6, <1>7, <1>8 DEF AnyInstruction
<1>10. AtSeparator(done, v)'
  BY <1>2, <1>5, <1>7, <1>9 DEF AtSeparator, LineRead
<1>11. Reading(done, v)'
  BY <1>2, <1>4, <1>9, <1>10 DEF Reading, LineRead
<1> QED
  BY <1>7, <1>11, TakenInLine

LEMMA MemoryTaken ==
  ASSUME ParseInv, error = "none", NEW t \in AnyToken, t.kind \notin Terminators,
         t.kind # "comma", parsed' = Append(parsed, t),
         NEW done, NEW word, Reading(done, word), current.operands = MeantBy(done),
         current' = current, instructions' = instructions, error' = error,
         MemoryBegun(Append(word, t))'
  PROVE  ParseInv'
<1> DEFINE v == Append(word, t)
<1>1. parsed \in Seq(AnyToken) /\ InWord(OpenIn(parsed), done, word)
  BY DEF ParseInv, Reading, LineRead
<1>2. /\ OpenIn(parsed')[1] = OpenIn(parsed)[1] /\ LastEnd(parsed') = LastEnd(parsed)
      /\ Tail(OpenIn(parsed')) # <<>> /\ InWord(OpenIn(parsed'), done, v)
  BY <1>1, TokenInLine
<1>3. /\ current \in AnyInstruction /\ current.mnemonic = OpenIn(parsed)[1].name
      /\ current.begin = LastEnd(parsed) + 1
  BY DEF Reading, LineRead
<1> HIDE DEF v
<1>4. MemoryBegun(v)'
  BY DEF v
<1>5. InMemory(done, v)'
  BY <1>2, <1>4 DEF InMemory, LineRead
<1>6. Reading(done, v)'
  BY <1>2, <1>3, <1>5 DEF Reading, LineRead
<1> QED
  BY <1>6, TakenInLine

(* What is being read in each mode.                                        *)
LEMMA ReadingAt ==
  ASSUME ParseInv, error = "none"
  PROVE  /\ mode = "line" => LineRead = <<>>
         /\ mode \notin {"line", "end"} => \E done, word : Reading(done, word)
         /\ \A done, word : Reading(done, word) =>
              /\ mode = "operand" => AtOperand(done, word)
              /\ mode = "separator" => AtSeparator(done, word)
              /\ mode \notin {"operand", "separator"} => InMemory(done, word) /\ ~LegalOperand(word)
<1>1. \A done, word : Reading(done, word) => mode \notin {"line", "end"}
  BY ReadingBegun
<1>2. ASSUME NEW done, NEW word, Reading(done, word)
      PROVE  /\ mode = "operand" => AtOperand(done, word)
             /\ mode = "separator" => AtSeparator(done, word)
             /\ mode \notin {"operand", "separator"} => InMemory(done, word) /\ ~LegalOperand(word)
  <2>1. AtOperand(done, word) \/ AtSeparator(done, word) \/ InMemory(done, word)
    BY <1>2 DEF Reading
  <2>2. /\ AtOperand(done, word) => mode = "operand"
        /\ AtSeparator(done, word) => mode = "separator"
        /\ InMemory(done, word) => mode \notin {"operand", "separator"}
    BY DEF AtOperand, AtSeparator, InMemory, MemoryBegun
  <2>3. ASSUME InMemory(done, word)
        PROVE  ~LegalOperand(word)
    <3>1. word \in Seq(AnyToken)
      BY <1>2, ReadingBegun
    <3>2. MemoryBegun(word)
      BY <2>3 DEF InMemory
    <3>3. ~Whole(word)
      BY <3>2 DEF MemoryBegun, Whole, OneToken, Displaced, Signed, Based, Opened
    <3> QED
      BY <3>1, <3>3, LegalIsWhole
  <2> QED
    BY <2>1, <2>2, <2>3
<1> QED
  BY <1>1, <1>2 DEF ParseInv, Accepted

-----------------------------------------------------------------------------
(* The steps, one by one.                                                  *)
LEMMA MnemonicStep ==
  ASSUME ParseInv, NEW t \in Tokens, Read(t), Mnemonic(t)
  PROVE  ParseInv'
<1>1. /\ error = "none" /\ parsed' = Append(parsed, t) /\ mode = "line" /\ t.kind # "newline"
      /\ t \in AnyToken /\ t.kind \notin Terminators
  BY TokenKinds DEF Read, Mnemonic
<1>2. LineRead = <<>> /\ parsed \in Seq(AnyToken)
  BY <1>1, ReadingAt DEF ParseInv
<1>3. /\ OpenIn(parsed') = <<t>> /\ LastEnd(parsed') = Len(parsed) /\ Len(parsed') = Len(parsed) + 1
      /\ Len(parsed) \in Nat
  <2>1. OpenIn(parsed') = Append(<<>>, t) /\ LastEnd(parsed') = LastEnd(parsed)
    BY <1>1, <1>2, LineGoesOn DEF LineRead
  <2>2. LastEnd(parsed) = Len(parsed)
    BY <1>2, OpenLineIs DEF LineRead
  <2>3. Append(<<>>, t) = <<t>>
    OBVIOUS
  <2>4. Behind(Append(parsed, t), parsed, t, AnyToken)
    BY <1>1, <1>2, AppendIs
  <2> QED
    BY <1>1, <1>2, <2>1, <2>2, <2>3, <2>4, LenProperties DEF Behind
<1>4. CASE t.kind # "identifier"
  <2>1. error' # "none"
    BY <1>1, <1>4 DEF Mnemonic, Fail
  <2>2. ~Viable(OpenIn(Append(parsed, t)))
    BY <1>1, <1>3, <1>4, NeverALine
  <2> QED
    BY <1>1, <2>1, <2>2, RefusedInLine
<1>5. CASE t.kind = "identifier"
  <2>1. /\ current' = Instruction(t.name, <<>>, Len(parsed) + 1, Len(parsed) + 1)
        /\ mode' = "operand" /\ instructions' = instructions /\ error' = error
    BY <1>5 DEF Mnemonic, This
  <2>2. t.name \in Mnemonics /\ <<>> \in Seq(Meanings)
    BY <1>1 DEF Mnemonics
  <2>3. current' \in AnyInstruction
    BY <1>3, <2>1, <2>2 DEF AnyInstruction, Instruction
  <2>4. InWord(OpenIn(parsed'), <<>>, <<>>)
    BY <1>1, <1>3, <1>5, WordBegins
  <2>5. MeantBy(<<>>) = <<>> /\ Tail(<<t>>) = <<>> /\ <<t>>[1] = t
    BY DEF MeantBy
  <2>6. AtOperand(<<>>, <<>>)'
    BY <1>3, <2>1, <2>5 DEF AtOperand, LineRead, Instruction
  <2>7. Reading(<<>>, <<>>)'
    BY <1>3, <2>1, <2>3, <2>4, <2>5, <2>6 DEF Reading, LineRead, Instruction
  <2> QED
    BY <1>1, <2>1, <2>7, TakenInLine
<1> QED
  BY <1>4, <1>5

LEMMA BlankLineStep ==
  ASSUME ParseInv, NEW t \in Tokens, Read(t), BlankLine(t)
  PROVE  ParseInv'
<1>1. /\ error = "none" /\ parsed' = Append(parsed, t) /\ mode = "line" /\ t.kind \in Terminators
      /\ t \in AnyToken /\ mode' = mode /\ error' = error /\ instructions' = instructions
  BY TokenKinds DEF Read, BlankLine
<1>2. LineRead = <<>> /\ parsed \in Seq(AnyToken) /\ DoneIn(parsed, instructions)
  BY <1>1, ReadingAt DEF ParseInv, Accepted
<1>3. DoneIn(parsed', instructions') /\ OpenIn(parsed') = <<>> /\ parsed' \in Seq(AnyToken)
  BY <1>1, <1>2, DoneStays, LineEnds, AppendProperties DEF LineRead
<1> QED
  BY <1>1, <1>3 DEF ParseInv, Accepted, LineRead

LEMMA OperandStep ==
  ASSUME ParseInv, NEW t \in Tokens, Read(t), Operand(t)
  PROVE  ParseInv'
<1>1. /\ error = "none" /\ parsed' = Append(parsed, t) /\ mode = "operand" /\ t.kind # "newline"
      /\ t \in AnyToken /\ t.kind \notin Terminators
  BY TokenKinds DEF Read, Operand
<1>2. PICK done, word : Reading(done, word)
  BY <1>1, ReadingAt
<1>3. word = <<>> /\ current.operands = MeantBy(done)
  BY <1>1, <1>2, ReadingAt DEF AtOperand
<1>4. Append(word, t) = <<t>> /\ <<t>> \in Seq(AnyToken) /\ Len(<<t>>) = 1 /\ <<t>>[1] = t
  BY <1>1, <1>3
<1>5. ~LegalOperand(word)
  <2>1. word \in Seq(AnyToken) /\ Len(word) = 0
    BY <1>3, EmptySeq
  <2>2. 0 # 1 /\ 0 # 3 /\ 0 # 5
    OBVIOUS
  <2>3. ~Whole(word)
    BY <2>1, <2>2, Zenon DEF Whole
  <2> QED
    BY <2>1, <2>3, LegalIsWhole
<1> DEFINE w == Append(word, t)
<1>6. w \in Seq(AnyToken) /\ Len(w) = 1 /\ w[1] = t
  BY <1>4
<1> HIDE DEF w
<1>7. /\ LegalOperand(w) <=> t.kind = "identifier" \/ (t.kind = "integer" /\ ParsesInteger(t))
      /\ Begun(w) <=> LegalOperand(w) \/ t.kind = "left_bracket"
  BY <1>6, LegalIsWhole DEF Whole, Begun, OneToken, Opened, ParsesInteger
<1>8. /\ t.kind = "identifier" => Meant(w) = NamedRegister(t.name)
      /\ t.kind = "integer" => Meant(w) = Immediate(t.value)
  BY <1>6, MeantIs
<1>9. CASE t.kind = "identifier"
  <2>1. Took(Meant(w))
    BY <1>8, <1>9 DEF Operand
  <2> QED
    BY <1>1, <1>2, <1>3, <1>7, <1>9, <2>1, OperandTaken DEF w
<1>10. CASE t.kind = "integer" /\ ParsesInteger(t)
  <2>1. Took(Meant(w))
    BY <1>8, <1>10 DEF Operand
  <2> QED
    BY <1>1, <1>2, <1>3, <1>7, <1>10, <2>1, OperandTaken DEF w
<1>11. CASE t.kind = "left_bracket"
  <2>1. /\ mode' = "base" /\ current' = current /\ instructions' = instructions /\ error' = error
    BY <1>11 DEF Operand
  <2>2. MemoryBegun(w)'
    BY <1>6, <1>11, <2>1 DEF MemoryBegun, Opened
  <2> QED
    BY <1>1, <1>2, <1>3, <1>11, <2>1, <2>2, MemoryTaken DEF w
<1>12. CASE /\ t.kind \notin {"identifier", "left_bracket"}
            /\ ~(t.kind = "integer" /\ ParsesInteger(t))
  <2>1. error' # "none"
    BY <1>12 DEF Operand, Fail
  <2>2. ~Begun(w)
    BY <1>7, <1>12
  <2> QED
    BY <1>1, <1>2, <1>5, <2>1, <2>2, WordRefused DEF w
<1> QED
  BY <1>9, <1>10, <1>11, <1>12

LEMMA SeparatorStep ==
  ASSUME ParseInv, NEW t \in Tokens, Read(t), Separator(t)
  PROVE  ParseInv'
<1>1. /\ error = "none" /\ parsed' = Append(parsed, t) /\ mode = "separator"
      /\ t.kind # "newline" /\ t \in AnyToken /\ t.kind \notin Terminators
  BY TokenKinds DEF Read, Separator
<1>2. PICK done, word : Reading(done, word)
  BY <1>1, ReadingAt
<1>3. /\ LegalOperand(word) /\ current.operands = MeantBy(Append(done, word))
      /\ InWord(LineRead, done, word) /\ word \in Seq(AnyToken) /\ done \in Seq(Seq(AnyToken))
  BY <1>1, <1>2, ReadingAt, ReadingBegun DEF AtSeparator
<1>4. parsed \in Seq(AnyToken)
  BY DEF ParseInv
<1>5. CASE t.kind # "comma"
  <2>1. error' # "none"
    BY <1>5 DEF Separator, Fail
  <2> DEFINE v == Append(word, t)
  <2>2. Behind(v, word, t, AnyToken)
    BY <1>1, <1>3, AppendIs
  <2> HIDE DEF v
  <2>3. Len(v) = Len(word) + 1 /\ \A k \in 1..Len(word) : v[k] = word[k]
    BY <2>2 DEF Behind
  <2>4. Whole(word)
    BY <1>3, LegalIsWhole
  <2>5. ~Begun(v)
    <3>1. CASE Len(word) = 1 /\ OneToken(word)
      <4>1. Len(v) = 2 /\ v[1] = word[1]
        BY <2>3, <3>1
      <4> QED
        BY <3>1, <4>1 DEF Begun, Whole, OneToken, Based, Opened
    <3>2. CASE Len(word) = 3 /\ Based(word) /\ word[3].kind = "right_bracket"
      <4>1. Len(v) = 4 /\ v[3] = word[3]
        BY <2>3, <3>2
      <4> QED
        BY <3>2, <4>1 DEF Begun, Whole, Displaced, Signed
    <3>3. CASE Len(word) = 5
      <4>1. Len(v) = 6
        BY <2>3, <3>3
      <4> QED
        BY <4>1 DEF Begun, Whole
    <3> QED
      BY <2>4, <3>1, <3>2, <3>3 DEF Whole
  <2> QED
    BY <1>1, <1>2, <1>5, <2>1, <2>5, WordRefused DEF v
<1>6. CASE t.kind = "comma"
  <2>1. /\ mode' = "operand" /\ current' = current /\ instructions' = instructions /\ error' = error
    BY <1>6 DEF Separator
  <2>2. /\ OpenIn(parsed')[1] = OpenIn(parsed)[1] /\ LastEnd(parsed') = LastEnd(parsed)
        /\ Tail(OpenIn(parsed')) # <<>> /\ InWord(OpenIn(parsed'), Append(done, word), <<>>)
    BY <1>1, <1>3, <1>4, <1>6, TokenInLine DEF LineRead
  <2> DEFINE d == Append(done, word)
  <2>3. d # <<>>
    BY <1>3, AppendProperties
  <2> HIDE DEF d
  <2>4. AtOperand(d, <<>>)'
    BY <1>3, <2>1, <2>2, <2>3 DEF AtOperand, LineRead, d
  <2>5. /\ current \in AnyInstruction /\ current.mnemonic = OpenIn(parsed)[1].name
        /\ current.begin = LastEnd(parsed) + 1
    BY <1>2 DEF Reading, LineRead
  <2>6. Reading(d, <<>>)'
    BY <2>1, <2>2, <2>4, <2>5 DEF Reading, LineRead, d
  <2> QED
    BY <1>1, <2>1, <2>6, TakenInLine
<1> QED
  BY <1>5, <1>6

(* In a memory operand also a comma and the end of the line are refused.   *)
LEMMA MemoryRefused ==
  ASSUME ParseInv, error = "none", mode \notin {"line", "end", "operand", "separator"},
         NEW t \in AnyToken, parsed' = Append(parsed, t), error' # "none",
         NEW done, NEW word, Reading(done, word),
         t.kind \notin Terminators \cup {"comma"} => ~Begun(Append(word, t))
  PROVE  ParseInv'
<1>1. InMemory(done, word) /\ ~LegalOperand(word)
  BY ReadingAt
<1>2. CASE t.kind \in Terminators
  <2>1. Tail(LineRead) # <<>>
    BY <1>1 DEF InMemory
  <2> QED
    BY <1>1, <1>2, <2>1, EndRefused
<1>3. CASE t.kind \notin Terminators
  BY <1>1, <1>3, WordRefused
<1> QED
  BY <1>2, <1>3

(* The word with the token, in a memory operand.                           *)
LEMMA MemoryWord ==
  ASSUME ParseInv, error = "none", mode \notin {"line", "end", "operand", "separator"},
         NEW t \in AnyToken
  PROVE  \E done, word :
           /\ Reading(done, word) /\ MemoryBegun(word) /\ current.operands = MeantBy(done)
           /\ Append(word, t) \in Seq(AnyToken) /\ Len(Append(word, t)) = Len(word) + 1
           /\ Append(word, t)[Len(word) + 1] = t
           /\ \A k \in 1..Len(word) : Append(word, t)[k] = word[k]
<1>1. PICK done, word : Reading(done, word)
  BY ReadingAt
<1>2. MemoryBegun(word) /\ current.operands = MeantBy(done) /\ word \in Seq(AnyToken)
  BY <1>1, ReadingAt, ReadingBegun DEF InMemory
<1>3. Behind(Append(word, t), word, t, AnyToken)
  BY <1>2, AppendIs
<1> QED
  BY <1>1, <1>2, <1>3 DEF Behind

LEMMA BaseStep ==
  ASSUME ParseInv, NEW t \in Tokens, Read(t), Base(t)
  PROVE  ParseInv'
<1>1. /\ error = "none" /\ parsed' = Append(parsed, t) /\ mode = "base" /\ t \in AnyToken
  BY TokenKinds DEF Read, Base
<1>2. PICK done, word :
        /\ Reading(done, word) /\ MemoryBegun(word) /\ current.operands = MeantBy(done)
        /\ Append(word, t) \in Seq(AnyToken) /\ Len(Append(word, t)) = Len(word) + 1
        /\ Append(word, t)[Len(word) + 1] = t
        /\ \A k \in 1..Len(word) : Append(word, t)[k] = word[k]
  BY <1>1, MemoryWord
<1> DEFINE v == Append(word, t)
<1>3. Len(word) = 1 /\ Opened(word)
  BY <1>1, <1>2 DEF MemoryBegun
<1> HIDE DEF v
<1>4. Len(v) = 2 /\ v[1] = word[1] /\ v[2] = t
  BY <1>2, <1>3 DEF v
<1>5. CASE t.kind # "identifier"
  <2>1. error' # "none"
    BY <1>5 DEF Base, Fail
  <2>2. ~Begun(v)
    BY <1>4, <1>5 DEF Begun, Whole, Based
  <2> QED
    BY <1>1, <1>2, <2>1, <2>2, MemoryRefused DEF v
<1>6. CASE t.kind = "identifier"
  <2>1. /\ memory' = MemoryAt(t.name, 0) /\ mode' = "sign"
        /\ current' = current /\ instructions' = instructions /\ error' = error
    BY <1>6 DEF Base
  <2>2. MemoryBegun(v)'
    BY <1>3, <1>4, <1>6, <2>1 DEF MemoryBegun, Based, Opened
  <2>3. t.kind \notin Terminators
    BY <1>6 DEF Terminators
  <2> QED
    BY <1>1, <1>2, <1>6, <2>1, <2>2, <2>3, MemoryTaken DEF v
<1> QED
  BY <1>5, <1>6

LEMMA SignStep ==
  ASSUME ParseInv, NEW t \in Tokens, Read(t), Sign(t)
  PROVE  ParseInv'
<1>1. /\ error = "none" /\ parsed' = Append(parsed, t) /\ mode = "sign" /\ t \in AnyToken
  BY TokenKinds DEF Read, Sign
<1>2. PICK done, word :
        /\ Reading(done, word) /\ MemoryBegun(word) /\ current.operands = MeantBy(done)
        /\ Append(word, t) \in Seq(AnyToken) /\ Len(Append(word, t)) = Len(word) + 1
        /\ Append(word, t)[Len(word) + 1] = t
        /\ \A k \in 1..Len(word) : Append(word, t)[k] = word[k]
  BY <1>1, MemoryWord
<1> DEFINE v == Append(word, t)
<1>3. Len(word) = 2 /\ Based(word) /\ memory = MemoryAt(word[2].name, 0)
  BY <1>1, <1>2 DEF MemoryBegun
<1> HIDE DEF v
<1>4. v \in Seq(AnyToken) /\ Len(v) = 3 /\ v[1] = word[1] /\ v[2] = word[2] /\ v[3] = t
  BY <1>2, <1>3 DEF v
<1>5. Based(v)
  BY <1>3, <1>4 DEF Based, Opened
<1>6. CASE t.kind \in {"plus", "minus"}
  <2>1. /\ mode' = t.kind /\ memory' = memory
        /\ current' = current /\ instructions' = instructions /\ error' = error
    BY <1>6 DEF Sign
  <2>2. MemoryBegun(v)'
    BY <1>3, <1>4, <1>5, <1>6, <2>1 DEF MemoryBegun, Signed
  <2>3. t.kind \notin Terminators /\ t.kind # "comma"
    BY <1>6 DEF Terminators
  <2> QED
    BY <1>1, <1>2, <2>1, <2>2, <2>3, MemoryTaken DEF v
<1>7. CASE t.kind = "right_bracket"
  <2>1. LegalOperand(v) /\ Meant(v) = memory
    BY <1>3, <1>4, <1>5, <1>7, LegalIsWhole, MeantIs DEF Whole, Based
  <2>2. Took(Meant(v))
    BY <1>7, <2>1 DEF Sign, CloseMemory
  <2>3. t.kind \notin Terminators /\ t.kind # "comma"
    BY <1>7 DEF Terminators
  <2> QED
    BY <1>1, <1>2, <2>1, <2>2, <2>3, OperandTaken DEF v
<1>8. CASE t.kind \notin {"plus", "minus", "right_bracket"}
  <2>1. error' # "none"
    BY <1>8 DEF Sign, CloseMemory, Fail
  <2>2. ~Begun(v)
    BY <1>4, <1>8 DEF Begun, Whole, Signed
  <2> QED
    BY <1>1, <1>2, <2>1, <2>2, MemoryRefused DEF v
<1> QED
  BY <1>6, <1>7, <1>8

LEMMA DisplacementStep ==
  ASSUME ParseInv, NEW t \in Tokens, Read(t), Displacement(t)
  PROVE  ParseInv'
<1>1. /\ error = "none" /\ parsed' = Append(parsed, t) /\ mode \in {"plus", "minus"}
      /\ t \in AnyToken
  BY TokenKinds DEF Read, Displacement
<1>2. PICK done, word :
        /\ Reading(done, word) /\ MemoryBegun(word) /\ current.operands = MeantBy(done)
        /\ Append(word, t) \in Seq(AnyToken) /\ Len(Append(word, t)) = Len(word) + 1
        /\ Append(word, t)[Len(word) + 1] = t
        /\ \A k \in 1..Len(word) : Append(word, t)[k] = word[k]
  BY <1>1, MemoryWord
<1> DEFINE v == Append(word, t)
<1>3. Len(word) = 3 /\ Signed(word) /\ word[3].kind = mode /\ memory = MemoryAt(word[2].name, 0)
  BY <1>1, <1>2 DEF MemoryBegun
<1> HIDE DEF v
<1>4. /\ v \in Seq(AnyToken) /\ Len(v) = 4 /\ v[1] = word[1] /\ v[2] = word[2]
      /\ v[3] = word[3] /\ v[4] = t
  BY <1>2, <1>3 DEF v
<1>5. Signed(v)
  BY <1>3, <1>4 DEF Signed, Based, Opened
<1>6. FitsDisplacement(t) => t.value \in 0..MaxDisplacement
  BY IntegersAssumption DEF FitsDisplacement, ParsesInteger
<1>7. CASE t.kind = "integer" /\ FitsDisplacement(t)
  <2>1. /\ memory' = [memory EXCEPT !.displacement = IF mode = "minus" THEN -t.value ELSE t.value]
        /\ mode' = "close" /\ current' = current /\ instructions' = instructions /\ error' = error
    BY <1>7 DEF Displacement
  <2>2. SignOf(v[3]) * v[4].value = IF mode = "minus" THEN -t.value ELSE t.value
    <3>1. t.value \in Int
      BY <1>6, <1>7
    <3>2. \A n \in Int : (-1) * n = -n /\ 1 * n = n
      OBVIOUS
    <3> QED
      BY <1>3, <1>4, <3>1, <3>2 DEF SignOf
  <2>3. memory' = MemoryAt(v[2].name, SignOf(v[3]) * v[4].value)
    BY <1>3, <1>4, <2>1, <2>2 DEF MemoryAt
  <2>4. Displaced(v)
    BY <1>4, <1>5, <1>6, <1>7 DEF Displaced
  <2>5. MemoryBegun(v)'
    BY <1>4, <2>1, <2>3, <2>4 DEF MemoryBegun
  <2>6. t.kind \notin Terminators /\ t.kind # "comma"
    BY <1>7 DEF Terminators
  <2> QED
    BY <1>1, <1>2, <2>1, <2>5, <2>6, MemoryTaken DEF v
<1>8. CASE ~(t.kind = "integer" /\ FitsDisplacement(t))
  <2>1. error' # "none"
    BY <1>8 DEF Displacement, Fail
  <2>2. MaxDisplacement \in Nat
    BY IntegersAssumption
  <2>3. ~Displaced(v)
    <3>1. CASE t.kind # "integer"
      BY <1>4, <3>1 DEF Displaced
    <3>2. CASE t.kind = "integer" /\ ~FitsDisplacement(t)
      BY <1>4, <3>2, IntegersAssumption DEF Displaced, FitsDisplacement, ParsesInteger
    <3> QED
      BY <1>8, <3>1, <3>2
  <2>4. ~Begun(v)
    BY <1>4, <2>3 DEF Begun, Whole
  <2> QED
    BY <1>1, <1>2, <2>1, <2>4, MemoryRefused DEF v
<1> QED
  BY <1>7, <1>8

LEMMA CloseStep ==
  ASSUME ParseInv, NEW t \in Tokens, Read(t), Close(t)
  PROVE  ParseInv'
<1>1. /\ error = "none" /\ parsed' = Append(parsed, t) /\ mode = "close" /\ t \in AnyToken
      /\ CloseMemory(t)
  BY TokenKinds DEF Read, Close
<1>2. PICK done, word :
        /\ Reading(done, word) /\ MemoryBegun(word) /\ current.operands = MeantBy(done)
        /\ Append(word, t) \in Seq(AnyToken) /\ Len(Append(word, t)) = Len(word) + 1
        /\ Append(word, t)[Len(word) + 1] = t
        /\ \A k \in 1..Len(word) : Append(word, t)[k] = word[k]
  BY <1>1, MemoryWord
<1> DEFINE v == Append(word, t)
<1>3. /\ Len(word) = 4 /\ Displaced(word)
      /\ memory = MemoryAt(word[2].name, SignOf(word[3]) * word[4].value)
  BY <1>1, <1>2 DEF MemoryBegun
<1> HIDE DEF v
<1>4. /\ v \in Seq(AnyToken) /\ Len(v) = 5 /\ v[1] = word[1] /\ v[2] = word[2]
      /\ v[3] = word[3] /\ v[4] = word[4] /\ v[5] = t
  BY <1>2, <1>3 DEF v
<1>5. Displaced(v) /\ Opened(v)
  BY <1>3, <1>4 DEF Displaced, Signed, Based, Opened
<1>6. CASE t.kind = "right_bracket"
  <2>1. LegalOperand(v) /\ Meant(v) = memory
    BY <1>3, <1>4, <1>5, <1>6, LegalIsWhole, MeantIs DEF Whole
  <2>2. Took(Meant(v))
    BY <1>1, <1>6, <2>1 DEF CloseMemory
  <2>3. t.kind \notin Terminators /\ t.kind # "comma"
    BY <1>6 DEF Terminators
  <2> QED
    BY <1>1, <1>2, <2>1, <2>2, <2>3, OperandTaken DEF v
<1>7. CASE t.kind # "right_bracket"
  <2>1. error' # "none"
    BY <1>1, <1>7 DEF CloseMemory, Fail
  <2>2. ~Begun(v)
    BY <1>4, <1>7 DEF Begun, Whole
  <2> QED
    BY <1>1, <1>2, <2>1, <2>2, MemoryRefused DEF v
<1> QED
  BY <1>6, <1>7

LEMMA CompleteStep ==
  ASSUME ParseInv, error = "none", mode \in {"operand", "separator"},
         NEW t \in AnyToken, t.kind \in Terminators, parsed' = Append(parsed, t),
         NEW next \in {"line", "end"}, Complete(next)
  PROVE  ParseInv'
<1>1. PICK done, word : Reading(done, word)
  BY ReadingAt
<1>2. /\ InWord(LineRead, done, word) /\ done \in Seq(Seq(AnyToken)) /\ word \in Seq(AnyToken)
      /\ mode = "operand" => AtOperand(done, word)
      /\ mode = "separator" => AtSeparator(done, word)
  BY <1>1, ReadingAt, ReadingBegun
<1>3. mode = "operand" => (current.operands = <<>> <=> done = <<>>)
  <2>1. MeantBy(done) = <<>> <=> done = <<>>
    BY <1>2, MeantGrows
  <2> QED
    BY <1>2, <2>1 DEF AtOperand
<1>4. CASE TrailingComma
  <2>1. mode = "operand" /\ current.operands # <<>> /\ error' # "none"
    BY <1>4 DEF TrailingComma, Complete, Fail
  <2>2. Tail(LineRead) # <<>> /\ word = <<>>
    BY <1>2, <1>3, <2>1 DEF AtOperand
  <2>3. ~LegalOperand(word)
    <3>1. Len(word) = 0 /\ 0 # 1 /\ 0 # 3 /\ 0 # 5
      BY <2>2, EmptySeq
    <3>2. ~Whole(word)
      BY <3>1, Zenon DEF Whole
    <3> QED
      BY <1>2, <3>2, LegalIsWhole
  <2> QED
    BY <1>1, <2>1, <2>2, <2>3, EndRefused
<1>5. CASE ~TrailingComma
  <2>1. /\ instructions' = Append(instructions, current) /\ mode' \in {"line", "end"}
        /\ error' = error
    BY <1>5 DEF Complete
  <2>2. CASE mode = "operand"
    <3>1. current.operands = <<>> /\ AtOperand(done, word)
      BY <1>2, <1>5, <2>2 DEF TrailingComma
    <3>2. done = <<>> /\ Tail(LineRead) = <<>> /\ current.end = Len(parsed)
      BY <1>2, <1>3, <2>2, <3>1 DEF AtOperand
    <3>3. LegalLine(LineRead) /\ Words(Tail(LineRead)) = <<>>
      BY <1>2, <3>2, LegalByLastWord
    <3>4. current.operands = MeantBy(Words(Tail(LineRead)))
      BY <3>1, <3>2, <3>3 DEF AtOperand
    <3> QED
      BY <1>1, <2>1, <3>2, <3>3, <3>4, LineTaken
  <2>3. CASE mode = "separator"
    <3>1. /\ LegalOperand(word) /\ Tail(LineRead) # <<>> /\ current.end = Len(parsed)
          /\ current.operands = MeantBy(Append(done, word))
      BY <1>2, <2>3 DEF AtSeparator
    <3>2. LegalLine(LineRead) /\ Words(Tail(LineRead)) = Append(done, word)
      BY <1>2, <3>1, LegalByLastWord
    <3>3. current.operands = MeantBy(Words(Tail(LineRead)))
      BY <3>1, <3>2
    <3> QED
      BY <1>1, <2>1, <3>1, <3>2, <3>3, LineTaken
  <2> QED
    BY <2>2, <2>3
<1> QED
  BY <1>4, <1>5

LEMMA EndOfLineStep ==
  ASSUME ParseInv, NEW t \in Tokens, Read(t), EndOfLine(t)
  PROVE  ParseInv'
<1>1. /\ error = "none" /\ parsed' = Append(parsed, t) /\ mode \in {"operand", "separator"}
      /\ t \in AnyToken /\ t.kind \in Terminators /\ Complete("line")
  BY TokenKinds DEF Read, EndOfLine
<1> QED
  BY <1>1, CompleteStep

LEMMA EndOfTokensStep ==
  ASSUME ParseInv, EndOfTokens
  PROVE  ParseInv'
<1> DEFINE t == Symbol("end")
<1>1. t \in AnyToken /\ t.kind \in Terminators
  BY DEF AnyToken, Symbol, Terminators
<1>2. error = "none" /\ mode # "end" /\ parsed' = Append(parsed, t)
  BY DEF EndOfTokens
<1> HIDE DEF t
<1>3. CASE mode = "line"
  <2>1. mode' = "end" /\ error' = error /\ instructions' = instructions
    BY <1>3 DEF EndOfTokens
  <2>2. LineRead = <<>> /\ parsed \in Seq(AnyToken) /\ DoneIn(parsed, instructions)
    BY <1>2, <1>3, ReadingAt DEF ParseInv, Accepted
  <2>3. DoneIn(parsed', instructions') /\ OpenIn(parsed') = <<>> /\ parsed' \in Seq(AnyToken)
    BY <1>1, <1>2, <2>1, <2>2, DoneStays, LineEnds, AppendProperties DEF LineRead
  <2> QED
    BY <1>2, <2>1, <2>3 DEF ParseInv, Accepted, LineRead
<1>4. CASE mode \in {"operand", "separator"}
  <2>1. Complete("end")
    BY <1>4 DEF EndOfTokens
  <2> QED
    BY <1>1, <1>2, <1>4, <2>1, CompleteStep
<1>5. CASE mode \notin {"line", "operand", "separator"}
  <2>1. PICK done, word : Reading(done, word)
    BY <1>2, <1>5, ReadingAt
  <2>2. mode \in {"base", "sign", "plus", "minus", "close"}
    BY <1>2, <1>5, <2>1, ReadingAt DEF InMemory, MemoryBegun
  <2>3. error' # "none"
    BY <2>2 DEF EndOfTokens, Fail
  <2> QED
    BY <1>1, <1>2, <1>5, <2>1, <2>3, MemoryRefused
<1> QED
  BY <1>3, <1>4, <1>5

LEMMA NothingParsed == ParseInit => ParseInv
<1> SUFFICES ASSUME ParseInit
             PROVE  ParseInv
  OBVIOUS
<1>1. parsed = <<>> /\ instructions = <<>> /\ mode = "line" /\ error = "none"
  BY DEF ParseInit
<1>2. <<>> \in Seq(AnyToken) /\ Len(<<>>) = 0 /\ <<>> \in Seq(AnyInstruction) /\ DOMAIN <<>> = {}
  BY EmptySeq
<1>3. OpenIn(<<>>) = <<>>
  <2>1. LastEnd(<<>>) \in 0..0
    BY <1>2, LastEndIs
  <2>2. LastEnd(<<>>) = Len(<<>>)
    BY <1>2, <2>1
  <2> QED
    BY <1>2, <2>2, OpenLineIs
<1>4. EndedIn(<<>>) = {}
  <2>1. EndsIn(<<>>) = {0}
    BY <1>2 DEF EndsIn
  <2> QED
    BY <2>1 DEF EndedIn
<1>5. ToSet(<<>>) = {}
  BY <1>2 DEF ToSet
<1>6. DoneIn(<<>>, <<>>)
  BY <1>2, <1>4, <1>5 DEF DoneIn
<1> QED
  BY <1>1, <1>2, <1>3, <1>6 DEF ParseInv, Accepted, LineRead

LEMMA StillParsing == ParseInv /\ [ParseNext]_parseVars => ParseInv'
<1> SUFFICES ASSUME ParseInv, [ParseNext]_parseVars
             PROVE  ParseInv'
  OBVIOUS
<1>1. ASSUME NEW t \in Tokens, Read(t), Parse(t)
      PROVE  ParseInv'
  BY <1>1, MnemonicStep, BlankLineStep, OperandStep, SeparatorStep, BaseStep, SignStep,
     DisplacementStep, CloseStep, EndOfLineStep DEF Parse
<1>2. CASE EndOfTokens
  BY <1>2, EndOfTokensStep
<1>3. CASE UNCHANGED parseVars
  BY <1>3 DEF parseVars, ParseInv, Accepted, Refused, Reading, AtOperand, AtSeparator, InMemory,
              MemoryBegun, LineRead
<1> QED
  BY <1>1, <1>2, <1>3 DEF ParseNext

LEMMA LinesReadRight == ParseInv => ParsesTheLines
<1> SUFFICES ASSUME ParseInv
             PROVE  ParsesTheLines
  OBVIOUS
<1>1. Ends = EndsIn(parsed)
  BY DEF Ends, EndsIn
<1>2. Ended = EndedIn(parsed) /\ OpenLine = LineRead
  BY <1>1 DEF Ended, EndedIn, OpenLine, LineRead, OpenIn, LastEnd
<1>3. RejectsAtOnce
  <2>1. CASE error = "none"
    <3>1. \A l \in EndedIn(parsed) : LegalLine(SubSeq(parsed, l[1] + 1, l[2] - 1))
      BY <2>1 DEF ParseInv, Accepted, DoneIn
    <3>2. LineRead # <<>> => Viable(LineRead)
      BY <2>1, ReadingBegun DEF ParseInv, Accepted
    <3> QED
      BY <1>2, <2>1, <3>1, <3>2 DEF RejectsAtOnce, LineOf
  <2>2. CASE error # "none"
    BY <1>2, <2>2 DEF ParseInv, Refused, RejectsAtOnce, LineOf
  <2> QED
    BY <2>1, <2>2
<1>4. LinesParsed
  <2> SUFFICES ASSUME error = "none"
               PROVE  /\ {<<i.begin - 1, i.end + 1>> : i \in ToSet(instructions)} = Ended
                      /\ \A j, k \in DOMAIN instructions :
                           j < k => instructions[j].begin < instructions[k].begin
                      /\ \A i \in ToSet(instructions) : Stands(i)
    BY DEF LinesParsed
  <2>1. DoneIn(parsed, instructions)
    BY DEF ParseInv, Accepted
  <2>2. \A i : StandsIn(parsed, i) => Stands(i)
    BY DEF StandsIn, Stands, MeantBy
  <2> QED
    BY <1>2, <2>1, <2>2 DEF DoneIn
<1> QED
  BY <1>3, <1>4 DEF ParsesTheLines

(* parse reads exactly the legal lines: it goes on as long as a legal line *)
(* can still come and refuses at once when none can, and each line read is *)
(* one instruction, in order, with its span and the operands its words     *)
(* mean.                                                                   *)
THEOREM LinesAreParsed == ParseSpec => []ParsesTheLines
<1>1. ParseInit => ParseInv
  BY NothingParsed
<1>2. ParseInv /\ [ParseNext]_parseVars => ParseInv'
  BY StillParsing
<1>3. ParseInv => ParsesTheLines
  BY LinesReadRight
<1> QED
  BY <1>1, <1>2, <1>3, PTL DEF ParseSpec

-----------------------------------------------------------------------------
(* The forms an instruction matches and what is resolved of it.            *)
(* The forms by their shapes.                                              *)
PackedBinaries ==
  {"addps", "subps", "mulps", "divps", "minps", "maxps", "andps", "andnps", "orps", "xorps"}
ScalarBinaries == {"addss", "subss", "mulss", "divss", "minss", "maxss"}
PackedUnaries == {"sqrtps", "rcpps", "rsqrtps"}
ScalarUnaries == {"sqrtss", "rcpss", "rsqrtss"}
MovssLoadForm == Form("movss", "load", <<Xmm("read_write"), XmmOrMemory(32)>>)
ShufpsForm == Form("shufps", "any", <<Xmm("read_write"), XmmOrMemory(128), Imm8>>)
Shaped(form) ==
  \/ \E m \in PackedBinaries : form = PackedForm(m)
  \/ \E m \in ScalarBinaries : form = ScalarForm(m)
  \/ \E m \in PackedUnaries : form = OverwritingForm(m, "any")
  \/ \E m \in ScalarUnaries : form = ScalarForm(m)
  \/ \E m \in {"movaps", "movups"} : form = OverwritingForm(m, "load")
  \/ \E m \in {"movaps", "movups"} : form = StoreForm(m, 128)
  \/ form = MovssLoadForm
  \/ form = StoreForm("movss", 32)
  \/ form = ShufpsForm
  \/ \E m \in {"unpcklps", "unpckhps"} : form = PackedForm(m)

(* Every form of the catalogue has one of the shapes.                      *)
LEMMA FormsShaped ==
  /\ DOMAIN Forms = 1..31 /\ Len(Forms) = 31
  /\ \A f \in DOMAIN Forms : Shaped(Forms[f])
<1>1. DOMAIN Forms = 1..31 /\ Len(Forms) = 31
  BY DEF Forms
<1>2. /\ Forms[1] = PackedForm("addps") /\ Forms[2] = ScalarForm("addss")
      /\ Forms[27] = MovssLoadForm /\ Forms[31] = PackedForm("unpckhps")
  BY DEF Forms, MovssLoadForm
<1>3. ASSUME NEW f \in 1..31 PROVE Shaped(Forms[f])
  BY SMTT(60) DEF Forms, Shaped, PackedBinaries, ScalarBinaries, PackedUnaries, ScalarUnaries, MovssLoadForm, ShufpsForm
<1> QED
  BY <1>1, <1>3

LEMMA FirstErrorOk ==
  ASSUME NEW errors, DOMAIN errors \subseteq Nat
  PROVE  FirstError(errors) = "ok" <=> \A k \in DOMAIN errors : errors[k] = "ok"
<1> DEFINE bad == {k \in DOMAIN errors : errors[k] # "ok"}
<1>1. CASE bad = {}
  BY <1>1 DEF FirstError
<1>2. CASE bad # {}
  <2>1. bad \in SUBSET Nat
    OBVIOUS
  <2>2. \E k \in bad : \A j \in bad : k <= j
    <3> HIDE DEF bad
    <3> QED
      BY <1>2, <2>1, LeastExists
  <2>3. (CHOOSE k \in bad : \A j \in bad : k <= j) \in bad
    <3> HIDE DEF bad
    <3> QED
      BY <2>2, Zenon
  <2> QED
    BY <1>2, <2>3 DEF FirstError
<1> QED
  BY <1>1, <1>2

-----------------------------------------------------------------------------
(* What lanes read, and what is written in the lanes of a value: n lanes,  *)
(* whether it reads the old destination, the last source lane read, and    *)
(* whether the upper lanes stay.                                           *)
ReadBy(value) == UNION {ToSet(value[k].inputs) : k \in DOMAIN value}
Keeping(value) == Len(value) = 4 /\ \A l \in 1..3 : value[l + 1] = CopyLane(OldLane(l))
ValueIs(value, n, old, most, keeps) ==
  /\ Len(value) = n /\ DOMAIN value = 1..n
  /\ (\E input \in ReadBy(value) : input[1] = "old") = old
  /\ \A input \in ReadBy(value) : input[1] = "source" => input[2] \in 0..most
  /\ Keeping(value) = keeps
ReadsOldIn(lane) == \E input \in ToSet(lane.inputs) : input[1] = "old"
ReadsUpTo(lane, most) ==
  \A input \in ToSet(lane.inputs) : input[1] = "source" => input[2] \in 0..most

LEMMA LanesRead ==
  ASSUME NEW l, NEW most
  PROVE  /\ ReadsOldIn(CopyLane(OldLane(l))) /\ ReadsUpTo(CopyLane(OldLane(l)), most)
         /\ ~ReadsOldIn(CopyLane(SourceLane(l)))
         /\ l \in 0..most => ReadsUpTo(CopyLane(SourceLane(l)), most)
         /\ ~ReadsOldIn(ZeroLane) /\ ReadsUpTo(ZeroLane, most)
         /\ \A op : /\ ~ReadsOldIn(UnaryLane(op, l)) /\ ReadsOldIn(BinaryLane(op, l))
                    /\ l \in 0..most => /\ ReadsUpTo(UnaryLane(op, l), most)
                                        /\ ReadsUpTo(BinaryLane(op, l), most)
<1>1. \A op, x : ToSet(Lane(op, <<x>>).inputs) = {x}
  BY DEF Lane, ToSet
<1>6. \A op, x, y : ToSet(Lane(op, <<x, y>>).inputs) = {x, y}
  BY DEF Lane, ToSet
<1>7. ToSet(ZeroLane.inputs) = {}
  BY DEF Lane, ToSet, ZeroLane
<1>2. OldLane(l)[1] = "old" /\ SourceLane(l)[1] = "source" /\ SourceLane(l)[2] = l
  BY DEF OldLane, SourceLane
<1>3. \A x : ToSet(CopyLane(x).inputs) = {x}
  BY <1>1, Zenon DEF CopyLane
<1>4. \A op : ToSet(UnaryLane(op, l).inputs) = {SourceLane(l)}
  BY <1>1, Zenon DEF UnaryLane
<1>5. \A op : ToSet(BinaryLane(op, l).inputs) = {OldLane(l), SourceLane(l)}
  BY <1>6, Zenon DEF BinaryLane
<1>8. ReadsOldIn(CopyLane(OldLane(l))) /\ ReadsUpTo(CopyLane(OldLane(l)), most)
  BY <1>2, <1>3 DEF ReadsOldIn, ReadsUpTo
<1>9. /\ ~ReadsOldIn(CopyLane(SourceLane(l)))
      /\ l \in 0..most => ReadsUpTo(CopyLane(SourceLane(l)), most)
  BY <1>2, <1>3 DEF ReadsOldIn, ReadsUpTo
<1>10. ~ReadsOldIn(ZeroLane) /\ ReadsUpTo(ZeroLane, most)
  BY <1>7 DEF ReadsOldIn, ReadsUpTo
<1>11. \A op : /\ ~ReadsOldIn(UnaryLane(op, l))
               /\ l \in 0..most => ReadsUpTo(UnaryLane(op, l), most)
  BY <1>2, <1>4 DEF ReadsOldIn, ReadsUpTo
<1>12. \A op : /\ ReadsOldIn(BinaryLane(op, l))
               /\ l \in 0..most => ReadsUpTo(BinaryLane(op, l), most)
  BY <1>2, <1>5 DEF ReadsOldIn, ReadsUpTo
<1> QED
  BY <1>8, <1>9, <1>10, <1>11, <1>12

LEMMA CopiesDiffer ==
  ASSUME NEW k \in Nat, NEW l \in Nat
  PROVE  /\ CopyLane(SourceLane(k)) # CopyLane(OldLane(l))
         /\ ZeroLane # CopyLane(OldLane(l))
         /\ \A op : op # "copy" => /\ BinaryLane(op, k) # CopyLane(OldLane(l))
                                   /\ UnaryLane(op, k) # CopyLane(OldLane(l))
BY DEF CopyLane, ZeroLane, SourceLane, OldLane, Lane, BinaryLane, UnaryLane

LEMMA ValueOfFour ==
  ASSUME NEW a, NEW b, NEW c, NEW d, NEW most, NEW old \in BOOLEAN, NEW keeps \in BOOLEAN,
         old = (ReadsOldIn(a) \/ ReadsOldIn(b) \/ ReadsOldIn(c) \/ ReadsOldIn(d)),
         ReadsUpTo(a, most), ReadsUpTo(b, most), ReadsUpTo(c, most), ReadsUpTo(d, most),
         keeps = (b = CopyLane(OldLane(1)) /\ c = CopyLane(OldLane(2)) /\ d = CopyLane(OldLane(3)))
  PROVE  ValueIs(<<a, b, c, d>>, 4, old, most, keeps)
<1> DEFINE v == <<a, b, c, d>>
<1>1. Len(v) = 4 /\ DOMAIN v = 1..4 /\ v[1] = a /\ v[2] = b /\ v[3] = c /\ v[4] = d
  OBVIOUS
<1> HIDE DEF v
<1>2. Keeping(v) = keeps
  <2>1. 1..3 = {1, 2, 3}
    OBVIOUS
  <2>2. Keeping(v) <=> v[2] = CopyLane(OldLane(1)) /\ v[3] = CopyLane(OldLane(2)) /\ v[4] = CopyLane(OldLane(3))
    BY <1>1, <2>1 DEF Keeping
  <2>3. Keeping(v) \in BOOLEAN
    BY DEF Keeping
  <2> QED
    BY <1>1, <2>2, <2>3
<1>3. \A x : x \in ReadBy(v) <=> x \in ToSet(a.inputs) \/ x \in ToSet(b.inputs)
                                   \/ x \in ToSet(c.inputs) \/ x \in ToSet(d.inputs)
  <2>1. 1..4 = {1, 2, 3, 4}
    OBVIOUS
  <2>2. ReadBy(v) = UNION {ToSet(v[k].inputs) : k \in {1, 2, 3, 4}}
    BY <1>1, <2>1 DEF ReadBy
  <2> QED
    BY <1>1, <2>2
<1>4. (\E input \in ReadBy(v) : input[1] = "old") = old
  BY <1>3 DEF ReadsOldIn
<1>5. \A input \in ReadBy(v) : input[1] = "source" => input[2] \in 0..most
  BY <1>3 DEF ReadsUpTo
<1> QED
  BY <1>1, <1>2, <1>4, <1>5 DEF ValueIs, v

(* The values of the forms.                                                *)
LEMMA FullCopyIs == ValueIs(FullCopy, 4, FALSE, 3, FALSE)
<1>1. FullCopy = <<CopyLane(SourceLane(0)), CopyLane(SourceLane(1)), CopyLane(SourceLane(2)), CopyLane(SourceLane(3))>>
  BY DEF FullCopy
<1>2. 0 \in 0..3 /\ 1 \in 0..3 /\ 2 \in 0..3 /\ 3 \in 0..3
  OBVIOUS
<1> QED
  BY <1>1, <1>2, ValueOfFour, LanesRead, CopiesDiffer

LEMMA PackedIs ==
  ASSUME NEW op, op # "copy"
  PROVE  /\ ValueIs(PackedBinary(op), 4, TRUE, 3, FALSE) /\ ValueIs(PackedUnary(op), 4, FALSE, 3, FALSE)
         /\ PackedBinary(op)[1] = BinaryLane(op, 0) /\ PackedUnary(op)[1] = UnaryLane(op, 0)
<1>1. PackedBinary(op) = <<BinaryLane(op, 0), BinaryLane(op, 1), BinaryLane(op, 2), BinaryLane(op, 3)>>
  BY DEF PackedBinary
<1>2. PackedUnary(op) = <<UnaryLane(op, 0), UnaryLane(op, 1), UnaryLane(op, 2), UnaryLane(op, 3)>>
  BY DEF PackedUnary
<1>3. 0 \in 0..3 /\ 1 \in 0..3 /\ 2 \in 0..3 /\ 3 \in 0..3
  OBVIOUS
<1>4. ValueIs(PackedBinary(op), 4, TRUE, 3, FALSE)
  BY <1>1, <1>3, ValueOfFour, LanesRead, CopiesDiffer
<1>5. ValueIs(PackedUnary(op), 4, FALSE, 3, FALSE)
  BY <1>2, <1>3, ValueOfFour, LanesRead, CopiesDiffer
<1>6. PackedBinary(op)[1] = BinaryLane(op, 0) /\ PackedUnary(op)[1] = UnaryLane(op, 0)
  BY DEF PackedBinary, PackedUnary
<1> QED
  BY <1>4, <1>5, <1>6

LEMMA OnlyFirstIs ==
  ASSUME NEW lane, ReadsUpTo(lane, 0)
  PROVE  ValueIs(OnlyFirst(lane), 4, TRUE, 0, TRUE)
BY ValueOfFour, LanesRead DEF OnlyFirst

LEMMA SelectorIs ==
  ASSUME NEW bits \in Nat, NEW k \in 0..3
  PROVE  Selector(bits, k) \in 0..3
<1>1. bits % 256 \in 0..255
  OBVIOUS
<1>2. <<1, 4, 16, 64>>[k + 1] \in {1, 4, 16, 64}
  OBVIOUS
<1>3. \A b \in 0..255 : \A q \in {1, 4, 16, 64} : (b \div q) % 4 \in 0..3
  OBVIOUS
<1> QED
  BY <1>1, <1>2, <1>3 DEF Selector

LEMMA ShufpsIs ==
  ASSUME NEW bits \in Nat
  PROVE  ValueIs(Shufps(bits), 4, TRUE, 3, FALSE)
<1>1. \A k \in 0..3 : Selector(bits, k) \in 0..3
  BY SelectorIs
<1>2. 3 \in Nat /\ Selector(bits, 3) \in Nat
  BY <1>1
<1>3. CopyLane(SourceLane(Selector(bits, 3))) # CopyLane(OldLane(3))
  BY <1>2, CopiesDiffer
<1>4. 0 \in 0..3 /\ 1 \in 0..3 /\ 2 \in 0..3 /\ 3 \in 0..3
  OBVIOUS
<1> QED
  BY <1>1, <1>3, <1>4, ValueOfFour, LanesRead DEF Shufps

LEMMA UnpackedIs ==
  ASSUME NEW first \in {0, 2}
  PROVE  ValueIs(Unpacked(first), 4, TRUE, 3, FALSE)
<1>1. first \in 0..3 /\ first + 1 \in 0..3 /\ first + 1 \in Nat /\ 3 \in Nat
  OBVIOUS
<1>2. CopyLane(SourceLane(first + 1)) # CopyLane(OldLane(3))
  BY <1>1, CopiesDiffer
<1> QED
  BY <1>1, <1>2, ValueOfFour, LanesRead DEF Unpacked

LEMMA MovssLoadIs ==
  /\ ValueIs(MovssLoad(TRUE), 4, FALSE, 0, FALSE)
  /\ ValueIs(MovssLoad(FALSE), 4, TRUE, 0, TRUE)
<1>1. 0 \in 0..0 /\ 0 \in Nat /\ 1 \in Nat
  OBVIOUS
<1>2. ValueIs(MovssLoad(TRUE), 4, FALSE, 0, FALSE)
  BY <1>1, ValueOfFour, LanesRead, CopiesDiffer DEF MovssLoad
<1>3. ValueIs(MovssLoad(FALSE), 4, TRUE, 0, TRUE)
  BY <1>1, OnlyFirstIs, LanesRead DEF MovssLoad
<1> QED
  BY <1>2, <1>3

LEMMA ScalarStoreCopyIs == ValueIs(ScalarStoreCopy, 1, FALSE, 0, FALSE)
<1> DEFINE v == ScalarStoreCopy
<1>1. Len(v) = 1 /\ DOMAIN v = {1} /\ v[1] = CopyLane(SourceLane(0))
  BY DEF ScalarStoreCopy
<1> HIDE DEF v
<1>2. \A x : x \in ReadBy(v) <=> x \in ToSet(CopyLane(SourceLane(0)).inputs)
  BY <1>1 DEF ReadBy
<1>3. ~ReadsOldIn(CopyLane(SourceLane(0))) /\ ReadsUpTo(CopyLane(SourceLane(0)), 0)
  BY LanesRead, 0 \in 0..0
<1>4. (\E input \in ReadBy(v) : input[1] = "old") = FALSE
  BY <1>2, <1>3 DEF ReadsOldIn
<1>5. \A input \in ReadBy(v) : input[1] = "source" => input[2] \in 0..0
  BY <1>2, <1>3 DEF ReadsUpTo
<1>6. Keeping(v) = FALSE
  BY <1>1 DEF Keeping
<1>7. Len(v) = 1 /\ DOMAIN v = 1..1
  BY <1>1
<1> QED
  BY <1>7, <1>4, <1>5, <1>6 DEF ValueIs, v

-----------------------------------------------------------------------------
(* The operations by their mnemonics.                                      *)
LEMMA OperationsNamed ==
  /\ \A op \in DOMAIN BinaryOperation : \A m \in BinaryOperation[op] :
       OperationIn(BinaryOperation, m) = op
  /\ \A op \in DOMAIN UnaryOperation : \A m \in UnaryOperation[op] :
       OperationIn(UnaryOperation, m) = op
<1>1. \A p, q \in DOMAIN BinaryOperation : BinaryOperation[p] \cap BinaryOperation[q] # {} => p = q
  BY SMTT(60) DEF BinaryOperation
<1>2. \A p, q \in DOMAIN UnaryOperation : UnaryOperation[p] \cap UnaryOperation[q] # {} => p = q
  BY SMTT(60) DEF UnaryOperation
<1>3. ASSUME NEW table, NEW op \in DOMAIN table, NEW m \in table[op],
             \A p, q \in DOMAIN table : table[p] \cap table[q] # {} => p = q
      PROVE  OperationIn(table, m) = op
  BY <1>3 DEF OperationIn
<1> QED
  BY <1>1, <1>2, <1>3, Zenon

LEMMA OperationsAre ==
  /\ AllIn(BinaryOperation) = PackedBinaries \cup ScalarBinaries
  /\ AllIn(UnaryOperation) = PackedUnaries \cup ScalarUnaries
  /\ \A m \in PackedBinaries \cup ScalarBinaries : OperationIn(BinaryOperation, m) # "copy"
  /\ \A m \in PackedUnaries \cup ScalarUnaries : OperationIn(UnaryOperation, m) # "copy"
<1>1. AllIn(BinaryOperation) = PackedBinaries \cup ScalarBinaries
  BY SMTT(60) DEF AllIn, BinaryOperation, PackedBinaries, ScalarBinaries
<1>2. AllIn(UnaryOperation) = PackedUnaries \cup ScalarUnaries
  BY SMTT(60) DEF AllIn, UnaryOperation, PackedUnaries, ScalarUnaries
<1>3. ASSUME NEW m \in AllIn(BinaryOperation) PROVE OperationIn(BinaryOperation, m) # "copy"
  <2>1. PICK op \in DOMAIN BinaryOperation : m \in BinaryOperation[op]
    BY DEF AllIn
  <2>2. op # "copy"
    BY <2>1 DEF BinaryOperation
  <2> QED
    BY <2>1, <2>2, OperationsNamed
<1>4. ASSUME NEW m \in AllIn(UnaryOperation) PROVE OperationIn(UnaryOperation, m) # "copy"
  <2>1. PICK op \in DOMAIN UnaryOperation : m \in UnaryOperation[op]
    BY DEF AllIn
  <2>2. op # "copy"
    BY <2>1 DEF UnaryOperation
  <2> QED
    BY <2>1, <2>2, OperationsNamed
<1> QED
  BY <1>1, <1>2, <1>3, <1>4

-----------------------------------------------------------------------------
LEMMA ConcatOnes ==
  ASSUME NEW a, NEW b, NEW c
  PROVE  <<a>> \o <<b>> = <<a, b>> /\ <<a>> \o <<b, c>> = <<a, b, c>>
<1> DEFINE S == {a, b, c}
<1>1. <<a>> \in Seq(S) /\ <<b>> \in Seq(S) /\ <<b, c>> \in Seq(S) /\ <<a, b>> \in Seq(S) /\ <<a, b, c>> \in Seq(S)
  OBVIOUS
<1>2. /\ Len(<<a>>) = 1 /\ Len(<<b>>) = 1 /\ Len(<<b, c>>) = 2 /\ Len(<<a, b>>) = 2 /\ Len(<<a, b, c>>) = 3
      /\ <<a>>[1] = a /\ <<b>>[1] = b /\ <<b, c>>[1] = b /\ <<b, c>>[2] = c
      /\ <<a, b>>[1] = a /\ <<a, b>>[2] = b
      /\ <<a, b, c>>[1] = a /\ <<a, b, c>>[2] = b /\ <<a, b, c>>[3] = c
  OBVIOUS
<1> HIDE DEF S
<1>3. ASSUME NEW s, NEW t, NEW r, s \in Seq(S), t \in Seq(S), r \in Seq(S), Len(s) = 1, Len(t) = 1,
             Len(r) = 2, r[1] = s[1], r[2] = t[1]
      PROVE  s \o t = r
  <2>1. s \o t \in Seq(S) /\ Len(s \o t) = 2 /\ (s \o t)[1] = s[1] /\ (s \o t)[2] = t[1]
    BY <1>3, ConcatProperties
  <2>2. \A i \in 1..Len(s \o t) : (s \o t)[i] = r[i]
    BY <2>1, <1>3
  <2> QED
    BY <2>1, <2>2, <1>3, SeqEqual
<1>4. ASSUME NEW s, NEW t, NEW r, s \in Seq(S), t \in Seq(S), r \in Seq(S), Len(s) = 1, Len(t) = 2,
             Len(r) = 3, r[1] = s[1], r[2] = t[1], r[3] = t[2]
      PROVE  s \o t = r
  <2>3. /\ s \o t \in Seq(S) /\ Len(s \o t) = Len(s) + Len(t)
        /\ \A i \in 1 .. Len(s) + Len(t) : (s \o t)[i] = IF i <= Len(s) THEN s[i] ELSE t[i - Len(s)]
    BY <1>4, ConcatProperties, Zenon
  <2>1. s \o t \in Seq(S) /\ Len(s \o t) = 3 /\ (s \o t)[1] = s[1] /\ (s \o t)[2] = t[1] /\ (s \o t)[3] = t[2]
    BY <1>4, <2>3
  <2>2. \A i \in 1..Len(s \o t) : (s \o t)[i] = r[i]
    BY <2>1, <1>4
  <2> QED
    BY <2>1, <2>2, <1>4, SeqEqual
<1>5. <<a>> \o <<b>> = <<a, b>>
  BY <1>1, <1>2, <1>3, Zenon
<1>6. <<a>> \o <<b, c>> = <<a, b, c>>
  BY <1>1, <1>2, <1>4, Zenon
<1> QED
  BY <1>5, <1>6

(* The effects of a form on operands validate_instruction_operands accepts. *)
LEMMA EffectsEnd ==
  ASSUME NEW form, NEW operands
  PROVE  LET e == Effects(form, operands)
             announced == \E k \in DOMAIN e : e[k].kind = "memory_read" /\ e[k].operand = operands[2]
             stores == form.variant = "store"
         IN /\ e[Len(e)] = IF stores THEN MemoryWrite(operands[1], Value(form, operands))
                           ELSE RegisterWrite(operands[1], Value(form, operands), MergesOld(form, operands))
            /\ announced <=> ~stores /\ operands[2].kind = "memory"
<1> DEFINE e == Effects(form, operands)
           value == Value(form, operands)
           register == RegisterWrite(operands[1], value, MergesOld(form, operands))
           stores == MemoryWrite(operands[1], value)
           read == MemoryRead(operands[2])
<1>1. register.kind = "register_write" /\ stores.kind = "memory_write"
      /\ read.kind = "memory_read" /\ read.operand = operands[2]
  BY DEF RegisterWrite, MemoryWrite, MemoryRead
<1>2. CASE form.variant = "store"
  <2>1. e = <<stores>>
    BY <1>2 DEF Effects
  <2> HIDE DEF e, stores, register, read, value
  <2>2. Len(e) = 1 /\ DOMAIN e = {1} /\ e[1] = stores
    BY <2>1
  <2> QED
    BY <1>1, <1>2, <2>2 DEF e, stores, value
<1>3. CASE form.variant # "store" /\ operands[2].kind = "memory"
  <2>1. e = <<read>> \o <<register>>
    BY <1>3 DEF Effects
  <2> HIDE DEF e, stores, register, read, value
  <2>2. <<read>> \o <<register>> = <<read, register>>
    BY ConcatOnes
  <2>3. Len(e) = 2 /\ DOMAIN e = {1, 2} /\ e[1] = read /\ e[2] = register
    BY <2>1, <2>2
  <2> QED
    BY <1>1, <1>3, <2>3 DEF e, register, value
<1>4. CASE form.variant # "store" /\ operands[2].kind # "memory"
  <2>1. e = <<>> \o <<register>>
    BY <1>4 DEF Effects
  <2> HIDE DEF e, stores, register, read, value
  <2>2. <<>> \o <<register>> = <<register>>
    OBVIOUS
  <2>3. Len(e) = 1 /\ DOMAIN e = {1} /\ e[1] = register
    BY <2>1, <2>2
  <2> QED
    BY <1>1, <1>4, <2>3 DEF e, register, value
<1> QED
  BY <1>2, <1>3, <1>4

Passed(form, operands) ==
  /\ Shaped(form) /\ operands \in Seq(BuiltOperand)
  /\ OperandsError(form, operands) = "ok"

LEMMA AcceptedOperands ==
  ASSUME NEW form, NEW operands, Passed(form, operands), NEW n \in Nat, Len(form.operands) = n
  PROVE  /\ Len(operands) = n /\ DOMAIN operands = 1..n
         /\ \A k \in 1..n : /\ operands[k] \in BuiltOperand
                            /\ operands[k].kind \in form.operands[k].kinds
                            /\ operands[k].width = form.operands[k].width
<1>1. Len(operands) = n /\ DOMAIN operands = 1..n /\ \A k \in 1..n : operands[k] \in BuiltOperand
  <2>1. Len(operands) = n
    BY DEF Passed, OperandsError
  <2> HIDE DEF BuiltOperand
  <2> QED
    BY <2>1 DEF Passed
<1> DEFINE errors == [k \in DOMAIN operands |-> OperandError(form.operands[k], operands[k])]
<1>2. DOMAIN errors = 1..n /\ DOMAIN errors \subseteq Nat
  BY <1>1
<1>3. FirstError(errors) = "ok"
  BY <1>1 DEF Passed, OperandsError
<1>4. \A k \in DOMAIN errors : errors[k] = "ok"
  <2> HIDE DEF errors
  <2> QED
    BY <1>2, <1>3, FirstErrorOk
<1>5. ASSUME NEW k \in 1..n
      PROVE  operands[k].kind \in form.operands[k].kinds /\ operands[k].width = form.operands[k].width
  <2>1. OperandError(form.operands[k], operands[k]) = "ok"
    BY <1>1, <1>4, <1>5
  <2> QED
    BY <2>1 DEF OperandError
<1> QED
  BY <1>1, <1>5

(* Of the operands, those of the shapes.                                   *)
LEMMA FormFields ==
  /\ \A m : /\ PackedForm(m).mnemonic = m /\ PackedForm(m).variant = "any"
            /\ PackedForm(m).operands = <<Xmm("read_write"), XmmOrMemory(128)>>
  /\ \A m : /\ ScalarForm(m).mnemonic = m /\ ScalarForm(m).variant = "any"
            /\ ScalarForm(m).operands = <<Xmm("read_write"), XmmOrMemory(32)>>
  /\ \A m, variant :
       /\ OverwritingForm(m, variant).mnemonic = m /\ OverwritingForm(m, variant).variant = variant
       /\ OverwritingForm(m, variant).operands = <<Xmm("write"), XmmOrMemory(128)>>
  /\ \A m, width :
       /\ StoreForm(m, width).mnemonic = m /\ StoreForm(m, width).variant = "store"
       /\ StoreForm(m, width).operands = <<Memory(width), Xmm("read")>>
BY DEF PackedForm, ScalarForm, OverwritingForm, StoreForm, Form

LEMMA ConstraintFields ==
  /\ \A access : Xmm(access).kinds = {"register"} /\ Xmm(access).access = access /\ Xmm(access).width = 128
  /\ \A width : /\ XmmOrMemory(width).kinds = {"register", "memory"}
                /\ XmmOrMemory(width).width = width /\ XmmOrMemory(width).access = "read"
  /\ \A width : /\ Memory(width).kinds = {"memory"} /\ Memory(width).width = width
                /\ Memory(width).access = "write"
  /\ Imm8.kinds = {"immediate"} /\ Imm8.width = 8
BY DEF Xmm, XmmOrMemory, Memory, Imm8, Constraint

LEMMA FirstAccess ==
  /\ \A m : /\ PackedForm(m).operands[1].access = "read_write"
            /\ ScalarForm(m).operands[1].access = "read_write"
  /\ \A m, variant : OverwritingForm(m, variant).operands[1].access = "write"
  /\ \A m, width : StoreForm(m, width).operands[1].access = "write"
BY FormFields, ConstraintFields

(* What the lemmas about the shapes show of a form and its operands: its   *)
(* value, and how many operands there are of what kinds and widths.        *)
AccessOf(old) == IF old THEN "read_write" ELSE "write"
ShapeFacts(form, operands, n, old, most, keeps) ==
  /\ ValueIs(Value(form, operands), n, old, most, keeps)
  /\ MergesOld(form, operands) = keeps
  /\ operands[1].width = 32 * n /\ operands[2].width >= 32 * (most + 1)
  /\ operands[2].width \in Nat
  /\ form.variant = "store" => operands[2].kind # "memory" /\ ~keeps
  /\ \/ form.operands[1].access = AccessOf(old)
     \/ ~old /\ form.mnemonic = "movss" /\ operands[2].kind = "memory"

LEMMA ValuesAre ==
  ASSUME NEW form, NEW operands
  PROVE  LET m == form.mnemonic
             value == Value(form, operands)
             merges == MergesOld(form, operands)
         IN /\ m \in PackedBinaries =>
                 value = PackedBinary(OperationIn(BinaryOperation, m)) /\ merges = FALSE
            /\ m \in ScalarBinaries =>
                 /\ value = OnlyFirst(PackedBinary(OperationIn(BinaryOperation, m))[1])
                 /\ merges = TRUE
            /\ m \in PackedUnaries =>
                 value = PackedUnary(OperationIn(UnaryOperation, m)) /\ merges = FALSE
            /\ m \in ScalarUnaries =>
                 /\ value = OnlyFirst(PackedUnary(OperationIn(UnaryOperation, m))[1])
                 /\ merges = TRUE
            /\ m \in {"movaps", "movups"} => value = FullCopy /\ merges = FALSE
            /\ m = "movss" /\ form.variant = "load" =>
                 /\ value = MovssLoad(operands[2].kind = "memory")
                 /\ merges = (operands[2].kind # "memory")
            /\ m = "movss" /\ form.variant = "store" => value = ScalarStoreCopy /\ merges = FALSE
            /\ m = "shufps" => value = Shufps(operands[3].bits) /\ merges = FALSE
            /\ m = "unpcklps" => value = Unpacked(0) /\ merges = FALSE
            /\ m = "unpckhps" => value = Unpacked(2) /\ merges = FALSE
<1> DEFINE m == form.mnemonic
<1>1. MergesOld(form, operands) =
        (m \in ScalarMnemonics \/ (m = "movss" /\ form.variant = "load" /\ operands[2].kind # "memory"))
  BY DEF MergesOld
<1>2. /\ \A x \in PackedBinaries : x \notin ScalarMnemonics \cup PackedUnaries \cup ScalarUnaries
      /\ \A x \in ScalarBinaries : x \in ScalarMnemonics /\ x \notin PackedUnaries \cup ScalarUnaries
      /\ \A x \in PackedUnaries : x \notin ScalarMnemonics
      /\ \A x \in ScalarUnaries : x \in ScalarMnemonics
      /\ \A x \in {"movaps", "movups", "movss", "shufps", "unpcklps", "unpckhps"} :
           /\ x \notin ScalarMnemonics \cup PackedUnaries \cup ScalarUnaries
           /\ x \notin PackedBinaries \cup ScalarBinaries
  BY SMTT(30) DEF ScalarMnemonics, PackedBinaries, ScalarBinaries, PackedUnaries, ScalarUnaries
<1>3. ASSUME m \in PackedBinaries \cup ScalarBinaries
      PROVE  Value(form, operands) = ItsLanes(m, PackedBinary(OperationIn(BinaryOperation, m)))
  <2>1. /\ m \in AllIn(BinaryOperation) /\ m \notin AllIn(UnaryOperation)
        /\ m \notin {"movaps", "movups", "movss", "shufps", "unpcklps", "unpckhps"}
    BY <1>2, <1>3, OperationsAre
  <2> QED
    BY <2>1 DEF Value
<1>4. ASSUME m \in PackedUnaries \cup ScalarUnaries
      PROVE  Value(form, operands) = ItsLanes(m, PackedUnary(OperationIn(UnaryOperation, m)))
  <2>1. /\ m \in AllIn(UnaryOperation) /\ m \notin AllIn(BinaryOperation)
        /\ m \notin {"movaps", "movups", "movss", "shufps", "unpcklps", "unpckhps"}
    BY <1>2, <1>4, OperationsAre
  <2> QED
    BY <2>1 DEF Value
<1>5. \A packed : /\ m \in ScalarMnemonics => ItsLanes(m, packed) = OnlyFirst(packed[1])
                  /\ m \notin ScalarMnemonics => ItsLanes(m, packed) = packed
  BY DEF ItsLanes
<1>6. ASSUME m \in {"movaps", "movups", "movss", "shufps", "unpcklps", "unpckhps"}
      PROVE  /\ m \in {"movaps", "movups"} => Value(form, operands) = FullCopy
             /\ m = "movss" /\ form.variant = "load" =>
                  Value(form, operands) = MovssLoad(operands[2].kind = "memory")
             /\ m = "movss" /\ form.variant = "store" => Value(form, operands) = ScalarStoreCopy
             /\ m = "shufps" => Value(form, operands) = Shufps(operands[3].bits)
             /\ m = "unpcklps" => Value(form, operands) = Unpacked(0)
             /\ m = "unpckhps" => Value(form, operands) = Unpacked(2)
  <2>1. m \notin AllIn(BinaryOperation) /\ m \notin AllIn(UnaryOperation)
    BY <1>2, <1>6, OperationsAre
  <2> QED
    BY <2>1, <1>6 DEF Value
<1> HIDE DEF m
<1> QED
  BY <1>1, <1>2, <1>3, <1>4, <1>5, <1>6 DEF m
(* The value of a form, and whether it merges, class by class.             *)
ValueFor(form, operands, value, merges) ==
  Value(form, operands) = value /\ MergesOld(form, operands) = merges

LEMMA ArithmeticValues ==
  ASSUME NEW form, NEW operands
  PROVE  /\ form.mnemonic \in PackedBinaries =>
              ValueFor(form, operands, PackedBinary(OperationIn(BinaryOperation, form.mnemonic)), FALSE)
         /\ form.mnemonic \in ScalarBinaries =>
              ValueFor(form, operands,
                       OnlyFirst(PackedBinary(OperationIn(BinaryOperation, form.mnemonic))[1]), TRUE)
         /\ form.mnemonic \in PackedUnaries =>
              ValueFor(form, operands, PackedUnary(OperationIn(UnaryOperation, form.mnemonic)), FALSE)
         /\ form.mnemonic \in ScalarUnaries =>
              ValueFor(form, operands,
                       OnlyFirst(PackedUnary(OperationIn(UnaryOperation, form.mnemonic))[1]), TRUE)
BY ValuesAre DEF ValueFor

LEMMA MoveValues ==
  ASSUME NEW form, NEW operands
  PROVE  /\ form.mnemonic \in {"movaps", "movups"} => ValueFor(form, operands, FullCopy, FALSE)
         /\ form.mnemonic = "movss" /\ form.variant = "load" /\ operands[2].kind = "memory" =>
              ValueFor(form, operands, MovssLoad(TRUE), FALSE)
         /\ form.mnemonic = "movss" /\ form.variant = "load" /\ operands[2].kind # "memory" =>
              ValueFor(form, operands, MovssLoad(FALSE), TRUE)
         /\ form.mnemonic = "movss" /\ form.variant = "store" =>
              ValueFor(form, operands, ScalarStoreCopy, FALSE)
<1>1. /\ operands[2].kind = "memory" => MovssLoad(operands[2].kind = "memory") = MovssLoad(TRUE)
      /\ operands[2].kind # "memory" => MovssLoad(operands[2].kind = "memory") = MovssLoad(FALSE)
  BY DEF MovssLoad
<1>2. form.mnemonic \in {"movaps", "movups"} => ValueFor(form, operands, FullCopy, FALSE)
  BY ValuesAre DEF ValueFor
<1>3. form.mnemonic = "movss" /\ form.variant = "store" =>
        ValueFor(form, operands, ScalarStoreCopy, FALSE)
  BY ValuesAre DEF ValueFor
<1>4. ASSUME form.mnemonic = "movss", form.variant = "load"
      PROVE  /\ Value(form, operands) = MovssLoad(operands[2].kind = "memory")
             /\ MergesOld(form, operands) = (operands[2].kind # "memory")
  BY <1>4, ValuesAre
<1>5. ASSUME form.mnemonic = "movss", form.variant = "load", operands[2].kind = "memory"
      PROVE  ValueFor(form, operands, MovssLoad(TRUE), FALSE)
  <2>1. Value(form, operands) = MovssLoad(TRUE)
    BY <1>1, <1>4, <1>5, Zenon
  <2>2. MergesOld(form, operands) = FALSE
    BY <1>4, <1>5
  <2> QED
    BY <2>1, <2>2 DEF ValueFor
<1>6. ASSUME form.mnemonic = "movss", form.variant = "load", operands[2].kind # "memory"
      PROVE  ValueFor(form, operands, MovssLoad(FALSE), TRUE)
  <2>1. Value(form, operands) = MovssLoad(FALSE)
    BY <1>1, <1>4, <1>6, Zenon
  <2>2. MergesOld(form, operands) = TRUE
    BY <1>4, <1>6
  <2> QED
    BY <2>1, <2>2 DEF ValueFor
<1> QED
  BY <1>2, <1>3, <1>5, <1>6

LEMMA ShuffleValues ==
  ASSUME NEW form, NEW operands
  PROVE  /\ form.mnemonic = "shufps" => ValueFor(form, operands, Shufps(operands[3].bits), FALSE)
         /\ form.mnemonic = "unpcklps" => ValueFor(form, operands, Unpacked(0), FALSE)
         /\ form.mnemonic = "unpckhps" => ValueFor(form, operands, Unpacked(2), FALSE)
BY ValuesAre DEF ValueFor

(* Two operands of a form of two.                                          *)
Fit(operand, constraint) ==
  operand \in BuiltOperand /\ operand.kind \in constraint.kinds /\ operand.width = constraint.width
FitBoth(operands, a, b) == Len(operands) = 2 /\ Fit(operands[1], a) /\ Fit(operands[2], b)

LEMMA TwoOperands ==
  ASSUME NEW form, NEW operands, Passed(form, operands), NEW a, NEW b, form.operands = <<a, b>>
  PROVE  FitBoth(operands, a, b)
<1>1. Len(form.operands) = 2 /\ 2 \in Nat /\ form.operands[1] = a /\ form.operands[2] = b
  OBVIOUS
<1>2. /\ Len(operands) = 2
      /\ \A k \in 1..2 : /\ operands[k] \in BuiltOperand
                         /\ operands[k].kind \in form.operands[k].kinds
                         /\ operands[k].width = form.operands[k].width
  BY <1>1, AcceptedOperands, Zenon
<1> QED
  BY <1>1, <1>2 DEF FitBoth, Fit

LEMMA RegisterOperands ==
  ASSUME NEW operands, NEW access, NEW width, FitBoth(operands, Xmm(access), XmmOrMemory(width))
  PROVE  /\ operands[1].kind = "register" /\ operands[1].width = 128
         /\ operands[2].kind \in {"register", "memory"} /\ operands[2].width = width
BY ConstraintFields DEF FitBoth, Fit

LEMMA StoreOperands ==
  ASSUME NEW operands, NEW width, FitBoth(operands, Memory(width), Xmm("read"))
  PROVE  /\ operands[1].kind = "memory" /\ operands[1].width = width
         /\ operands[2].kind = "register" /\ operands[2].width = 128
BY ConstraintFields DEF FitBoth, Fit

(* What each shape writes and reads.                                       *)
LEMMA PackedBinaryShape ==
  ASSUME NEW m \in PackedBinaries \cup {"unpcklps", "unpckhps"}, NEW operands,
         Passed(PackedForm(m), operands)
  PROVE  ShapeFacts(PackedForm(m), operands, 4, TRUE, 3, FALSE)
<1> DEFINE form == PackedForm(m)
<1>1. form.mnemonic = m /\ form.variant = "any" /\ form.operands = <<Xmm("read_write"), XmmOrMemory(128)>>
  BY FormFields
<1>2. form.operands[1].access = AccessOf(TRUE)
  BY FirstAccess DEF AccessOf
<1> HIDE DEF form
<1>3. FitBoth(operands, Xmm("read_write"), XmmOrMemory(128))
  BY <1>1, TwoOperands DEF form
<1>4. operands[1].width = 32 * 4 /\ operands[2].width \in Nat /\ operands[2].width >= 32 * (3 + 1)
  BY <1>3, RegisterOperands
<1>5. PICK value : ValueFor(form, operands, value, FALSE) /\ ValueIs(value, 4, TRUE, 3, FALSE)
  <2>1. CASE m \in PackedBinaries
    BY <1>1, <2>1, ArithmeticValues, PackedIs, OperationsAre
  <2>2. CASE m \in {"unpcklps", "unpckhps"}
    BY <1>1, <2>2, ShuffleValues, UnpackedIs
  <2> QED
    BY <2>1, <2>2
<1>6. ShapeFacts(form, operands, 4, TRUE, 3, FALSE)
  BY <1>1, <1>2, <1>4, <1>5 DEF ShapeFacts, ValueFor
<1> QED
  BY <1>6 DEF form

LEMMA ScalarShape ==
  ASSUME NEW m \in ScalarBinaries \cup ScalarUnaries, NEW operands, Passed(ScalarForm(m), operands)
  PROVE  ShapeFacts(ScalarForm(m), operands, 4, TRUE, 0, TRUE)
<1> DEFINE form == ScalarForm(m)
<1>1. form.mnemonic = m /\ form.variant = "any" /\ form.operands = <<Xmm("read_write"), XmmOrMemory(32)>>
  BY FormFields
<1>2. form.operands[1].access = AccessOf(TRUE)
  BY FirstAccess DEF AccessOf
<1> HIDE DEF form
<1>3. FitBoth(operands, Xmm("read_write"), XmmOrMemory(32))
  BY <1>1, TwoOperands DEF form
<1>4. operands[1].width = 32 * 4 /\ operands[2].width \in Nat /\ operands[2].width >= 32 * (0 + 1)
  BY <1>3, RegisterOperands
<1>5. PICK value : ValueFor(form, operands, value, TRUE) /\ ValueIs(value, 4, TRUE, 0, TRUE)
  <2>0. 0 \in 0..0
    OBVIOUS
  <2>1. CASE m \in ScalarBinaries
    <3>1. ReadsUpTo(PackedBinary(OperationIn(BinaryOperation, m))[1], 0)
      BY <2>0, <2>1, PackedIs, OperationsAre, LanesRead
    <3> QED
      BY <1>1, <2>1, <3>1, ArithmeticValues, OnlyFirstIs
  <2>2. CASE m \in ScalarUnaries
    <3>1. ReadsUpTo(PackedUnary(OperationIn(UnaryOperation, m))[1], 0)
      BY <2>0, <2>2, PackedIs, OperationsAre, LanesRead
    <3> QED
      BY <1>1, <2>2, <3>1, ArithmeticValues, OnlyFirstIs
  <2> QED
    BY <2>1, <2>2
<1>6. ShapeFacts(form, operands, 4, TRUE, 0, TRUE)
  BY <1>1, <1>2, <1>4, <1>5 DEF ShapeFacts, ValueFor
<1> QED
  BY <1>6 DEF form

LEMMA OverwritingShape ==
  ASSUME NEW m \in PackedUnaries \cup {"movaps", "movups"}, NEW variant \in {"any", "load"},
         NEW operands, Passed(OverwritingForm(m, variant), operands)
  PROVE  ShapeFacts(OverwritingForm(m, variant), operands, 4, FALSE, 3, FALSE)
<1> DEFINE form == OverwritingForm(m, variant)
<1>1. form.mnemonic = m /\ form.variant = variant /\ form.operands = <<Xmm("write"), XmmOrMemory(128)>>
  BY FormFields
<1>2. form.operands[1].access = AccessOf(FALSE)
  BY FirstAccess DEF AccessOf
<1> HIDE DEF form
<1>3. FitBoth(operands, Xmm("write"), XmmOrMemory(128))
  BY <1>1, TwoOperands DEF form
<1>4. operands[1].width = 32 * 4 /\ operands[2].width \in Nat /\ operands[2].width >= 32 * (3 + 1)
  BY <1>3, RegisterOperands
<1>5. PICK value : ValueFor(form, operands, value, FALSE) /\ ValueIs(value, 4, FALSE, 3, FALSE)
  <2>1. CASE m \in PackedUnaries
    BY <1>1, <2>1, ArithmeticValues, PackedIs, OperationsAre
  <2>2. CASE m \in {"movaps", "movups"}
    BY <1>1, <2>2, MoveValues, FullCopyIs
  <2> QED
    BY <2>1, <2>2
<1>6. ShapeFacts(form, operands, 4, FALSE, 3, FALSE)
  BY <1>1, <1>2, <1>4, <1>5 DEF ShapeFacts, ValueFor
<1> QED
  BY <1>6 DEF form

LEMMA StoreShape ==
  ASSUME NEW m \in {"movaps", "movups", "movss"}, NEW width, width = IF m = "movss" THEN 32 ELSE 128,
         NEW operands, Passed(StoreForm(m, width), operands)
  PROVE  IF m = "movss" THEN ShapeFacts(StoreForm(m, width), operands, 1, FALSE, 0, FALSE)
         ELSE ShapeFacts(StoreForm(m, width), operands, 4, FALSE, 3, FALSE)
<1> DEFINE form == StoreForm(m, width)
<1>1. form.mnemonic = m /\ form.variant = "store" /\ form.operands = <<Memory(width), Xmm("read")>>
  BY FormFields
<1>2. form.operands[1].access = AccessOf(FALSE)
  BY FirstAccess DEF AccessOf
<1> HIDE DEF form
<1>3. FitBoth(operands, Memory(width), Xmm("read"))
  BY <1>1, TwoOperands DEF form
<1>4. operands[1].width = width /\ operands[2].width = 128 /\ operands[2].kind = "register"
  BY <1>3, StoreOperands
<1>5. CASE m = "movss"
  <2>1. ValueFor(form, operands, ScalarStoreCopy, FALSE) /\ ValueIs(ScalarStoreCopy, 1, FALSE, 0, FALSE)
    BY <1>1, <1>5, MoveValues, ScalarStoreCopyIs
  <2>2. operands[1].width = 32 * 1 /\ operands[2].width \in Nat /\ operands[2].width >= 32 * (0 + 1)
    BY <1>4, <1>5
  <2>3. ShapeFacts(form, operands, 1, FALSE, 0, FALSE)
    BY <1>1, <1>2, <1>4, <2>1, <2>2 DEF ShapeFacts, ValueFor
  <2> QED
    BY <1>5, <2>3 DEF form
<1>6. CASE m # "movss"
  <2>1. ValueFor(form, operands, FullCopy, FALSE) /\ ValueIs(FullCopy, 4, FALSE, 3, FALSE)
    BY <1>1, <1>6, MoveValues, FullCopyIs
  <2>2. operands[1].width = 32 * 4 /\ operands[2].width \in Nat /\ operands[2].width >= 32 * (3 + 1)
    BY <1>4, <1>6
  <2>3. ShapeFacts(form, operands, 4, FALSE, 3, FALSE)
    BY <1>1, <1>2, <1>4, <2>1, <2>2 DEF ShapeFacts, ValueFor
  <2> QED
    BY <1>6, <2>3 DEF form
<1> QED
  BY <1>5, <1>6

LEMMA OtherFields ==
  /\ MovssLoadForm.mnemonic = "movss" /\ MovssLoadForm.variant = "load"
  /\ MovssLoadForm.operands = <<Xmm("read_write"), XmmOrMemory(32)>>
  /\ MovssLoadForm.operands[1].access = AccessOf(TRUE)
  /\ ShufpsForm.mnemonic = "shufps" /\ ShufpsForm.variant = "any"
  /\ ShufpsForm.operands = <<Xmm("read_write"), XmmOrMemory(128), Imm8>>
  /\ ShufpsForm.operands[1].access = AccessOf(TRUE)
<1>1. /\ MovssLoadForm.mnemonic = "movss" /\ MovssLoadForm.variant = "load"
      /\ MovssLoadForm.operands = <<Xmm("read_write"), XmmOrMemory(32)>>
      /\ ShufpsForm.mnemonic = "shufps" /\ ShufpsForm.variant = "any"
      /\ ShufpsForm.operands = <<Xmm("read_write"), XmmOrMemory(128), Imm8>>
  BY DEF MovssLoadForm, ShufpsForm, Form
<1> QED
  BY <1>1, ConstraintFields DEF AccessOf

LEMMA MovssLoadShape ==
  ASSUME NEW operands, Passed(MovssLoadForm, operands)
  PROVE  IF operands[2].kind = "memory" THEN ShapeFacts(MovssLoadForm, operands, 4, FALSE, 0, FALSE)
         ELSE ShapeFacts(MovssLoadForm, operands, 4, TRUE, 0, TRUE)
<1>1. FitBoth(operands, Xmm("read_write"), XmmOrMemory(32))
  BY OtherFields, TwoOperands
<1>2. operands[1].width = 32 * 4 /\ operands[2].width \in Nat /\ operands[2].width >= 32 * (0 + 1)
  BY <1>1, RegisterOperands
<1>3. CASE operands[2].kind = "memory"
  <2>1. ValueFor(MovssLoadForm, operands, MovssLoad(TRUE), FALSE)
    BY <1>3, OtherFields, MoveValues
  <2> QED
    BY <1>2, <1>3, <2>1, OtherFields, MovssLoadIs DEF ShapeFacts, ValueFor
<1>4. CASE operands[2].kind # "memory"
  <2>1. ValueFor(MovssLoadForm, operands, MovssLoad(FALSE), TRUE)
    BY <1>4, OtherFields, MoveValues
  <2> QED
    BY <1>2, <1>4, <2>1, OtherFields, MovssLoadIs DEF ShapeFacts, ValueFor
<1> QED
  BY <1>3, <1>4

LEMMA ShufpsShape ==
  ASSUME NEW operands, Passed(ShufpsForm, operands)
  PROVE  /\ ShapeFacts(ShufpsForm, operands, 4, TRUE, 3, FALSE)
         /\ operands[3].kind = "immediate" /\ operands[3].bits \in Nat
<1>1. /\ Len(ShufpsForm.operands) = 3 /\ 3 \in Nat
      /\ ShufpsForm.operands[1] = Xmm("read_write") /\ ShufpsForm.operands[2] = XmmOrMemory(128)
      /\ ShufpsForm.operands[3] = Imm8
  BY OtherFields
<1>2. \A k \in 1..3 : /\ operands[k] \in BuiltOperand
                      /\ operands[k].kind \in ShufpsForm.operands[k].kinds
                      /\ operands[k].width = ShufpsForm.operands[k].width
  BY <1>1, AcceptedOperands, Zenon
<1>3. /\ operands[1].width = 32 * 4 /\ operands[2].width \in Nat /\ operands[2].width >= 32 * (3 + 1)
      /\ operands[3].kind = "immediate" /\ operands[3] \in BuiltOperand
  BY <1>1, <1>2, ConstraintFields
<1>4. operands[3].bits \in Nat
  BY <1>3 DEF BuiltOperand
<1>5. ValueFor(ShufpsForm, operands, Shufps(operands[3].bits), FALSE)
  BY OtherFields, ShuffleValues
<1>6. ValueIs(Shufps(operands[3].bits), 4, TRUE, 3, FALSE)
  BY <1>4, ShufpsIs
<1>7. ShufpsForm.variant # "store"
  BY OtherFields
<1> QED
  BY <1>3, <1>4, <1>5, <1>6, <1>7, OtherFields DEF ShapeFacts, ValueFor

LEMMA AllShapes ==
  ASSUME NEW form, NEW operands, Passed(form, operands)
  PROVE  \E n \in {1, 4}, old \in BOOLEAN, most \in 0..3, keeps \in BOOLEAN :
           ShapeFacts(form, operands, n, old, most, keeps)
<1> DEFINE Goal == \E n \in {1, 4}, old \in BOOLEAN, most \in 0..3, keeps \in BOOLEAN :
                     ShapeFacts(form, operands, n, old, most, keeps)
<1>1. \A n \in {1, 4} : \A old \in BOOLEAN : \A most \in {0, 3} : \A keeps \in BOOLEAN :
        ShapeFacts(form, operands, n, old, most, keeps) => Goal
  <2>1. 0 \in 0..3 /\ 3 \in 0..3
    OBVIOUS
  <2> QED
    BY <2>1, Zenon
<1> HIDE DEF Goal
<1>2. ASSUME NEW m \in PackedBinaries \cup {"unpcklps", "unpckhps"}, form = PackedForm(m) PROVE Goal
  BY <1>1, <1>2, PackedBinaryShape
<1>3. ASSUME NEW m \in ScalarBinaries \cup ScalarUnaries, form = ScalarForm(m) PROVE Goal
  BY <1>1, <1>3, ScalarShape
<1>4. ASSUME NEW m \in PackedUnaries \cup {"movaps", "movups"}, NEW variant \in {"any", "load"},
             form = OverwritingForm(m, variant)
      PROVE  Goal
  BY <1>1, <1>4, OverwritingShape
<1>5. ASSUME NEW m \in {"movaps", "movups"}, form = StoreForm(m, 128) PROVE Goal
  BY <1>1, <1>5, StoreShape
<1>6. ASSUME form = StoreForm("movss", 32) PROVE Goal
  BY <1>1, <1>6, StoreShape
<1>7. ASSUME form = MovssLoadForm PROVE Goal
  BY <1>1, <1>7, MovssLoadShape
<1>8. ASSUME form = ShufpsForm PROVE Goal
  BY <1>1, <1>8, ShufpsShape
<1>9. Goal
  BY <1>2, <1>3, <1>4, <1>5, <1>6, <1>7, <1>8 DEF Passed, Shaped
<1> QED
  BY <1>9 DEF Goal

(* The last effect is the only write; and what it reads is declared.       *)
Declares(form, operands, effects) ==
  LET written == effects[Len(effects)]
      old == \E input \in Inputs(written) : input[1] = "old"
      loadsMemory == form.mnemonic = "movss" /\ operands[2].kind = "memory"
  IN /\ written.kind \in {"register_write", "memory_write"} /\ written.operand = operands[1]
     /\ 32 * Len(written.value) = operands[1].width
     /\ old => form.operands[1].access = "read_write"
     /\ ~old /\ ~loadsMemory => form.operands[1].access = "write"
     /\ written.merges =
          (Len(written.value) = 4 /\ \A l \in 1..3 : written.value[l + 1] = CopyLane(OldLane(l)))
     /\ \A input \in Inputs(written) :
          input[1] = "source" => 32 * (input[2] + 1) <= operands[2].width
     /\ (operands[2].kind = "memory") = (\E k \in DOMAIN effects :
           effects[k].kind = "memory_read" /\ effects[k].operand = operands[2])

LEMMA EffectsAreDeclared ==
  ASSUME NEW form, NEW operands, Passed(form, operands)
  PROVE  Declares(form, operands, Effects(form, operands))
<1>1. PICK n \in {1, 4}, old \in BOOLEAN, most \in 0..3, keeps \in BOOLEAN :
        ShapeFacts(form, operands, n, old, most, keeps)
  BY AllShapes
<1> DEFINE effects == Effects(form, operands)
           written == effects[Len(effects)]
           value == Value(form, operands)
<1>2. written = IF form.variant = "store" THEN MemoryWrite(operands[1], value)
                ELSE RegisterWrite(operands[1], value, MergesOld(form, operands))
  BY EffectsEnd
<1>3. (operands[2].kind = "memory") = (\E k \in DOMAIN effects :
         effects[k].kind = "memory_read" /\ effects[k].operand = operands[2])
  <2>1. (\E k \in DOMAIN effects : effects[k].kind = "memory_read" /\ effects[k].operand = operands[2])
          <=> form.variant # "store" /\ operands[2].kind = "memory"
    BY EffectsEnd
  <2>2. form.variant = "store" => operands[2].kind # "memory"
    BY <1>1 DEF ShapeFacts
  <2> QED
    BY <2>1, <2>2
<1>4. MergesOld(form, operands) = keeps /\ (form.variant = "store" => ~keeps)
  BY <1>1 DEF ShapeFacts
<1>5. /\ written.kind \in {"register_write", "memory_write"} /\ written.operand = operands[1]
      /\ written.value = value /\ written.merges = keeps
  <2>1. CASE form.variant = "store"
    <3>1. written = MemoryWrite(operands[1], value) /\ keeps = FALSE
      BY <1>2, <1>4, <2>1
    <3>2. /\ written.kind = "memory_write" /\ written.operand = operands[1]
          /\ written.value = value /\ written.merges = FALSE
      BY <3>1 DEF MemoryWrite
    <3>3. written.merges = keeps
      BY <3>1, <3>2, Zenon
    <3> QED
      BY <3>2, <3>3
  <2>2. CASE form.variant # "store"
    <3>1. written = RegisterWrite(operands[1], value, keeps)
      BY <1>2, <1>4, <2>2
    <3> QED
      BY <3>1 DEF RegisterWrite
  <2> QED
    BY <2>1, <2>2
<1> HIDE DEF written, effects, value
<1>6. Inputs(written) = ReadBy(value)
  BY <1>5 DEF Inputs, ReadBy
<1>7. ValueIs(value, n, old, most, keeps)
  BY <1>1 DEF ShapeFacts, value
<1>8. (\E input \in Inputs(written) : input[1] = "old") = old
  BY <1>6, <1>7 DEF ValueIs
<1>9. 32 * Len(written.value) = operands[1].width
  BY <1>1, <1>5, <1>7 DEF ShapeFacts, ValueIs
<1>10. written.merges = (Len(written.value) = 4 /\ \A l \in 1..3 : written.value[l + 1] = CopyLane(OldLane(l)))
  BY <1>5, <1>7, Zenon DEF ValueIs, Keeping
<1>11. \A input \in Inputs(written) :
         input[1] = "source" => 32 * (input[2] + 1) <= operands[2].width
  <2> SUFFICES ASSUME NEW input \in Inputs(written), input[1] = "source"
               PROVE  32 * (input[2] + 1) <= operands[2].width
    OBVIOUS
  <2>1. input[2] \in 0..most
    BY <1>6, <1>7 DEF ValueIs
  <2>2. operands[2].width >= 32 * (most + 1) /\ operands[2].width \in Nat
    BY <1>1 DEF ShapeFacts
  <2> QED
    BY <2>1, <2>2
<1>12. /\ old => form.operands[1].access = "read_write"
       /\ ~old /\ ~(form.mnemonic = "movss" /\ operands[2].kind = "memory") =>
            form.operands[1].access = "write"
  BY <1>1 DEF ShapeFacts, AccessOf
<1> QED
  BY <1>3, <1>5, <1>8, <1>9, <1>10, <1>11, <1>12 DEF Declares, written, effects

-----------------------------------------------------------------------------
(* The resolver: whether there is a form of the right kinds of operands    *)
(* and all operands can be resolved.                                       *)
Unresolveds == [mnemonic : STRING, operands : Seq(ParsedOperand)]
ResolvedOperands(u, f) ==
  [k \in DOMAIN u.operands |-> Resolved(u.operands[k], Forms[f].operands[k])]
AllResolve(u) == \A k \in DOMAIN u.operands : ResolveError(u.operands[k]) = "ok"
Matching(u) == {f \in DOMAIN Forms : FormMatches(Forms[f], u)}

LEMMA SelectedMatches ==
  ASSUME NEW u
  PROVE  Selected(u) \subseteq Matching(u) /\ (Matching(u) # {} => Selected(u) # {})
<1> DEFINE candidates == Matching(u)
           pool == Preferred(candidates, Fitting(u, candidates))
<1>1. pool \subseteq candidates /\ (candidates # {} => pool # {})
  BY DEF Preferred, Fitting
<1>2. Selected(u) = FirstForm(pool)
  BY DEF Selected, SelectedOf, Matching
<1>3. candidates \in SUBSET Nat
  BY FormsShaped DEF Matching
<1> HIDE DEF candidates, pool
<1>4. pool \in SUBSET Nat
  BY <1>1, <1>3
<1>5. pool # {} => \E f \in pool : \A g \in pool : f <= g
  BY <1>4, LeastExists
<1>6. FirstForm(pool) \subseteq pool /\ (pool # {} => FirstForm(pool) # {})
  BY <1>5 DEF FirstForm
<1> QED
  BY <1>1, <1>2, <1>6 DEF candidates

LEMMA ResolveIs ==
  ASSUME NEW u \in Unresolveds
  PROVE  /\ Resolve(u).error = "ok" => AllResolve(u) /\ \E f \in Matching(u) :
              Resolve(u).form = f /\ Resolve(u).operands = ResolvedOperands(u, f)
         /\ AllResolve(u) /\ Matching(u) # {} => Resolve(u).error = "ok"
<1> DEFINE errors == [k \in DOMAIN u.operands |-> ResolveError(u.operands[k])]
           forms == Selected(u)
           f == CHOOSE s \in forms : TRUE
<1>1. DOMAIN errors \subseteq Nat
  BY DEF Unresolveds
<1>2. FirstError(errors) = "ok" <=> AllResolve(u)
  <2>1. DOMAIN errors = DOMAIN u.operands /\ \A k \in DOMAIN errors : errors[k] = ResolveError(u.operands[k])
    OBVIOUS
  <2> HIDE DEF errors
  <2> QED
    BY <1>1, <2>1, FirstErrorOk DEF AllResolve
<1>3. forms \subseteq Matching(u) /\ (Matching(u) # {} => forms # {})
  BY SelectedMatches
<1>4. CASE forms = {}
  <2>1. Resolve(u) = Unresolvable("unsupported_form")
    BY <1>4 DEF Resolve, ResolvedBy
  <2> QED
    BY <1>3, <1>4, <2>1 DEF Unresolvable
<1>5. CASE forms # {}
  <2>1. f \in Matching(u)
    BY <1>3, <1>5
  <2>2. Resolve(u) = ResolvedTo(f, u.operands, Forms[f].operands, FirstError(errors))
    BY <1>5 DEF Resolve, ResolvedBy
  <2> HIDE DEF f, errors, forms
  <2>3. CASE FirstError(errors) = "ok"
    <3>1. Resolve(u) = [error |-> "ok", form |-> f, operands |-> ResolvedOperands(u, f)]
      BY <2>2, <2>3 DEF ResolvedTo, ResolvedOperands
    <3> QED
      BY <1>2, <2>1, <2>3, <3>1
  <2>4. CASE FirstError(errors) # "ok"
    <3>1. Resolve(u) = Unresolvable(FirstError(errors))
      BY <2>2, <2>4 DEF ResolvedTo
    <3> QED
      BY <1>2, <2>4, <3>1 DEF Unresolvable
  <2> QED
    BY <2>3, <2>4
<1> QED
  BY <1>4, <1>5

(* What is made of a resolved instruction is typed.                        *)
LEMMA ConstraintsTyped ==
  ASSUME NEW form, Shaped(form)
  PROVE  \A k \in DOMAIN form.operands : form.operands[k].width \in Range32
<1>0. 8 \in Range32 /\ 32 \in Range32 /\ 128 \in Range32
  BY RangeLimitAssumption, WidthsAssumption DEF Range32
<1>1. \A access : Xmm(access).width \in Range32
  BY <1>0, ConstraintFields
<1>2. XmmOrMemory(128).width \in Range32 /\ XmmOrMemory(32).width \in Range32
      /\ Memory(128).width \in Range32 /\ Memory(32).width \in Range32 /\ Imm8.width \in Range32
  BY <1>0, ConstraintFields
<1>3. \A a, b : a.width \in Range32 /\ b.width \in Range32 =>
        \A k \in DOMAIN <<a, b>> : <<a, b>>[k].width \in Range32
  OBVIOUS
<1>4. \A a, b, c : a.width \in Range32 /\ b.width \in Range32 /\ c.width \in Range32 =>
        \A k \in DOMAIN <<a, b, c>> : <<a, b, c>>[k].width \in Range32
  OBVIOUS
<1>5. \/ \E access : \E width \in {32, 128} : form.operands = <<Xmm(access), XmmOrMemory(width)>>
      \/ \E width \in {32, 128} : form.operands = <<Memory(width), Xmm("read")>>
      \/ form.operands = <<Xmm("read_write"), XmmOrMemory(128), Imm8>>
  <2>1. 32 \in {32, 128} /\ 128 \in {32, 128}
    OBVIOUS
  <2> QED
    BY <2>1, FormFields, OtherFields DEF Shaped
<1> QED
  BY <1>1, <1>2, <1>3, <1>4, <1>5

LEMMA ResolvedTyped ==
  ASSUME NEW u \in Unresolveds, NEW f \in Matching(u)
  PROVE  ResolvedOperands(u, f) \in Seq(BuiltOperand)
<1>1. Shaped(Forms[f]) /\ FormMatches(Forms[f], u)
  BY FormsShaped DEF Matching
<1>2. PICK n \in Nat : DOMAIN u.operands = 1..n /\ Len(u.operands) = n
  BY DEF Unresolveds
<1>3. DOMAIN Forms[f].operands = 1..n
  <2>1. Len(Forms[f].operands) = n
    BY <1>1, <1>2 DEF FormMatches
  <2>2. \/ \E a, b : Forms[f].operands = <<a, b>>
        \/ \E a, b, c : Forms[f].operands = <<a, b, c>>
    BY <1>1, FormFields, OtherFields DEF Shaped
  <2> QED
    BY <2>1, <2>2
<1>4. ASSUME NEW k \in 1..n PROVE Resolved(u.operands[k], Forms[f].operands[k]) \in BuiltOperand
  <2> DEFINE o == u.operands[k]  w == Forms[f].operands[k].width
  <2>1. w \in Range32 /\ 0 \in Range32
    <3>1. 0 \in Range32
      BY RangeLimitAssumption DEF Range32
    <3> QED
      BY <1>1, <1>3, <3>1, ConstraintsTyped
  <2>2. o \in ParsedOperand
    BY <1>2 DEF Unresolveds
  <2>3. CASE o.kind = "register"
    <3>1. o.name \in RegisterName
      BY <2>2, <2>3 DEF ParsedOperand
    <3>2. Resolved(o, Forms[f].operands[k]) = RegisterOperand(o.name, 0, w)
      BY <2>3 DEF Resolved
    <3> QED
      BY <2>1, <3>1, <3>2 DEF RegisterOperand, BuiltOperand
  <2>4. CASE o.kind = "memory"
    <3>1. o.base \in RegisterName /\ o.displacement \in Int
      BY <2>2, <2>4 DEF ParsedOperand
    <3>2. Resolved(o, Forms[f].operands[k]) = MemoryOperand(o.base, o.displacement, w)
      BY <2>4 DEF Resolved
    <3> QED
      BY <2>1, <3>1, <3>2 DEF MemoryOperand, BuiltOperand
  <2>5. CASE o.kind = "immediate"
    <3>1. o.value \in Nat
      BY <2>2, <2>5 DEF ParsedOperand
    <3>2. Resolved(o, Forms[f].operands[k]) = ImmediateOperand(o.value, w)
      BY <2>5 DEF Resolved
    <3> QED
      BY <2>1, <3>1, <3>2 DEF ImmediateOperand, BuiltOperand
  <2> QED
    BY <2>2, <2>3, <2>4, <2>5 DEF ParsedOperand
<1>5. ResolvedOperands(u, f) = [k \in 1..n |-> Resolved(u.operands[k], Forms[f].operands[k])]
  BY <1>2 DEF ResolvedOperands
<1> HIDE DEF BuiltOperand
<1> QED
  BY <1>4, <1>5

-----------------------------------------------------------------------------
(* The semantic provider accepts what validate_instruction_operands and    *)
(* validate_x86_operands accept.                                           *)
LEMMA AfterOne ==
  ASSUME NEW a, NEW n \in Nat, NEW g, DOMAIN g = 1..n, g = [k \in 1..n |-> g[k]]
  PROVE  DOMAIN (<<a>> \o g) = 1..(n + 1) /\ (<<a>> \o g)[1] = a /\ \A k \in 1..n : (<<a>> \o g)[k + 1] = g[k]
<1> DEFINE S == {a} \cup {g[k] : k \in 1..n}
           one == <<a>>
<1>1. one \in Seq(S) /\ Len(one) = 1 /\ one[1] = a
  OBVIOUS
<1>2. g \in Seq(S) /\ Len(g) = n
  <2>1. \A k \in 1..n : g[k] \in S
    OBVIOUS
  <2> HIDE DEF S
  <2>2. [k \in 1..n |-> g[k]] \in Seq(S) /\ Len([k \in 1..n |-> g[k]]) = n
    BY <2>1
  <2> QED
    BY <2>2
<1> HIDE DEF S, one
<1>3. /\ one \o g \in Seq(S) /\ Len(one \o g) = Len(one) + Len(g)
      /\ \A i \in 1 .. Len(one) + Len(g) : (one \o g)[i] = IF i <= Len(one) THEN one[i] ELSE g[i - Len(one)]
  BY <1>1, <1>2, ConcatProperties, Zenon
<1>4. DOMAIN (one \o g) = 1..(n + 1)
  BY <1>1, <1>2, <1>3
<1>5. (one \o g)[1] = a
  BY <1>1, <1>2, <1>3
<1>6. ASSUME NEW k \in 1..n PROVE (one \o g)[k + 1] = g[k]
  <2>1. k + 1 \in 1..(1 + n) /\ ~(k + 1 <= 1) /\ (k + 1) - 1 = k
    OBVIOUS
  <2> QED
    BY <1>1, <1>2, <1>3, <2>1
<1> QED
  BY <1>4, <1>5, <1>6 DEF one

LEMMA SemanticsIs ==
  ASSUME NEW f \in Nat, NEW operands, NEW n \in Nat, DOMAIN operands = 1..n
  PROVE  /\ Semantics(f, operands).error = "ok" <=>
              /\ f \in DOMAIN Forms /\ OperandsError(Forms[f], operands) = "ok"
              /\ \A k \in 1..n : X86OperandError(operands[k]) = "ok"
         /\ Semantics(f, operands).error = "ok" =>
              Semantics(f, operands).effects = Effects(Forms[f], operands)
<1> DEFINE g == [k \in DOMAIN operands |-> X86OperandError(operands[k])]
           first == OperandsError(Forms[f], operands)
           errors == <<first>> \o g
<1>1. Semantics(f, operands).error = SemanticsError(f, operands)
      /\ (SemanticsError(f, operands) = "ok" => Semantics(f, operands).effects = Effects(Forms[f], operands))
  BY DEF Semantics, EffectsUnless
<1>0. Len(Forms) = 31 /\ DOMAIN Forms = 1..31
  BY FormsShaped
<1>2. f \notin DOMAIN Forms => SemanticsError(f, operands) # "ok"
  <2>1. f \notin 1..31 => f = 0 \/ f > 31
    OBVIOUS
  <2> QED
    BY <1>0, <2>1 DEF SemanticsError
<1>3. f \in DOMAIN Forms => SemanticsError(f, operands) = FirstError(errors)
  <2>1. f \in 1..31 => f # 0 /\ ~(f > 31)
    OBVIOUS
  <2> HIDE DEF errors
  <2>2. f \in 1..31 => SemanticsError(f, operands) = FirstError(errors)
    BY <1>0, <2>1, Zenon DEF SemanticsError, errors
  <2> QED
    BY <1>0, <2>2
<1>4. DOMAIN errors = 1..(n + 1) /\ errors[1] = first /\ \A k \in 1..n : errors[k + 1] = g[k]
  <2>1. DOMAIN g = 1..n /\ g = [k \in 1..n |-> g[k]]
    OBVIOUS
  <2> HIDE DEF g, first
  <2> QED
    BY <2>1, AfterOne
<1>5. FirstError(errors) = "ok" <=> \A k \in DOMAIN errors : errors[k] = "ok"
  <2>1. DOMAIN errors \subseteq Nat
    BY <1>4
  <2> HIDE DEF errors
  <2> QED
    BY <2>1, FirstErrorOk
<1>6. (\A k \in DOMAIN errors : errors[k] = "ok") <=> first = "ok" /\ \A k \in 1..n : g[k] = "ok"
  <2> HIDE DEF errors, g, first
  <2>1. ASSUME \A k \in DOMAIN errors : errors[k] = "ok" PROVE first = "ok" /\ \A k \in 1..n : g[k] = "ok"
    <3>1. 1 \in DOMAIN errors /\ \A k \in 1..n : k + 1 \in DOMAIN errors
      BY <1>4
    <3> QED
      BY <1>4, <2>1, <3>1
  <2>2. ASSUME first = "ok", \A k \in 1..n : g[k] = "ok", NEW k \in DOMAIN errors PROVE errors[k] = "ok"
    <3>1. CASE k = 1
      BY <1>4, <2>2, <3>1
    <3>2. CASE k # 1
      <4>1. k - 1 \in 1..n /\ (k - 1) + 1 = k
        BY <1>4, <2>2, <3>2
      <4>2. errors[(k - 1) + 1] = g[k - 1]
        BY <1>4, <4>1
      <4> QED
        BY <2>2, <4>1, <4>2
    <3> QED
      BY <3>1, <3>2
  <2> QED
    BY <2>1, <2>2
<1>7. (\A k \in 1..n : g[k] = "ok") <=> \A k \in 1..n : X86OperandError(operands[k]) = "ok"
  OBVIOUS
<1> HIDE DEF g, first, errors
<1>8. f \in DOMAIN Forms =>
        (SemanticsError(f, operands) = "ok" <=>
           first = "ok" /\ \A k \in 1..n : X86OperandError(operands[k]) = "ok")
  BY <1>3, <1>5, <1>6, <1>7
<1> QED
  BY <1>1, <1>2, <1>8 DEF first

-----------------------------------------------------------------------------
(* The machine: what was accepted last are operands of a form, with the    *)
(* effects of the form.                                                    *)
LookedRight ==
  AcceptedForm =>
    /\ last.form \in DOMAIN Forms /\ Passed(Forms[last.form], last.operands)
    /\ last.effects = Effects(Forms[last.form], last.operands)

LEMMA BuiltLook ==
  ASSUME NEW f \in Nat, NEW operands \in Seq(BuiltOperand), Semantics(f, operands).error = "ok"
  PROVE  /\ f \in DOMAIN Forms /\ Passed(Forms[f], operands)
         /\ Semantics(f, operands).effects = Effects(Forms[f], operands)
<1>1. PICK n \in Nat : DOMAIN operands = 1..n
  <2> HIDE DEF BuiltOperand
  <2> QED
    OBVIOUS
<1>2. /\ f \in DOMAIN Forms /\ OperandsError(Forms[f], operands) = "ok"
      /\ Semantics(f, operands).effects = Effects(Forms[f], operands)
  BY <1>1, SemanticsIs
<1> QED
  BY <1>2, FormsShaped DEF Passed

LEMMA LookedFields ==
  ASSUME NEW how, NEW u, NEW f, NEW operands, NEW verdict, NEW effects
  PROVE  LET l == Looked(how, u, f, operands, verdict, effects)
         IN /\ l.how = how /\ l.instruction = u /\ l.form = f /\ l.operands = operands
            /\ l.error = verdict /\ l.effects = effects
BY DEF Looked

LEMMA InstructionsTyped == \A u \in Instructions : u \in Unresolveds
BY InstructionsAssumption DEF Unresolveds

LEMMA LookedInitially == MachineInit => LookedRight
BY DEF MachineInit, LookedRight, AcceptedForm, Looked

LEMMA LookedKept ==
  ASSUME [MachineNext]_machineVars, LookedRight
  PROVE  LookedRight'
<1>1. ASSUME NEW u \in Instructions, Step(u) PROVE LookedRight'
  <2> DEFINE r == Resolve(u)  s == Semantics(r.form, r.operands)
  <2>1. r.error = "ok" /\ last' = Looked("resolved", u, r.form, r.operands, s.error, s.effects)
    BY <1>1 DEF Step
  <2>2. u \in Unresolveds
    BY InstructionsTyped
  <2>3. PICK f \in Matching(u) : r.form = f /\ r.operands = ResolvedOperands(u, f)
    BY <2>1, <2>2, ResolveIs
  <2>4. r.form \in Nat /\ r.operands \in Seq(BuiltOperand)
    <3>1. f \in Nat
      BY FormsShaped DEF Matching
    <3>2. ResolvedOperands(u, f) \in Seq(BuiltOperand)
      BY <2>2, ResolvedTyped
    <3> HIDE DEF r
    <3> QED
      BY <2>3, <3>1, <3>2
  <2>5. /\ last'.form = r.form /\ last'.operands = r.operands /\ last'.error = s.error
        /\ last'.effects = s.effects
    BY <2>1, LookedFields
  <2> HIDE DEF r
  <2> QED
    BY <2>4, <2>5, BuiltLook DEF LookedRight, AcceptedForm
<1>2. ASSUME NEW u \in Instructions, Refuse(u) PROVE LookedRight'
  BY <1>2, LookedFields DEF Refuse, LookedRight, AcceptedForm
<1>3. ASSUME NEW b \in Built, Examine(b) PROVE LookedRight'
  <2> DEFINE s == Semantics(b.form, b.operands)
  <2>1. last' = Looked("built", Unresolved("none", <<>>), b.form, b.operands, s.error, s.effects)
    BY <1>3 DEF Examine
  <2>2. b.form \in Nat /\ b.operands \in Seq(BuiltOperand)
    BY BuiltAssumption
  <2>3. /\ last'.form = b.form /\ last'.operands = b.operands /\ last'.error = s.error
        /\ last'.effects = s.effects
    BY <2>1, LookedFields
  <2> QED
    BY <2>2, <2>3, BuiltLook DEF LookedRight, AcceptedForm
<1>4. ASSUME UNCHANGED machineVars PROVE LookedRight'
  BY <1>4 DEF machineVars, LookedRight, AcceptedForm
<1> QED
  BY <1>1, <1>2, <1>3, <1>4 DEF MachineNext

LEMMA LookedDeclares ==
  ASSUME LookedRight, AcceptedForm
  PROVE  Declares(Forms[last.form], last.operands, last.effects)
BY EffectsAreDeclared DEF LookedRight

(* The effects of whatever is accepted, resolved or built by hand, are     *)
(* those its form declares, and read lanes the operands have.              *)
THEOREM EffectsAsDeclared == MachineSpec => []EffectsDeclared
<1>1. MachineSpec => []LookedRight
  BY LookedInitially, LookedKept, PTL DEF MachineSpec
<1>2. LookedRight => EffectsDeclared
  BY LookedDeclares DEF Declares, EffectsDeclared, AccessDeclared, LanesWithinSource, ReadsOld,
     KeepsUpperLanes, Written
<1> QED
  BY <1>1, <1>2, PTL

-----------------------------------------------------------------------------
(* The registers by name: sixteen of each family.                          *)
XmmRegister(k) == RegisterInfo(<<"xmm", k>>, 128, "simd", {})

LEMMA ConcatSet ==
  ASSUME NEW S, NEW s \in Seq(S), NEW t \in Seq(S)
  PROVE  s \o t \in Seq(S) /\ ToSet(s \o t) = ToSet(s) \cup ToSet(t)
<1>1. /\ s \o t \in Seq(S) /\ Len(s \o t) = Len(s) + Len(t)
      /\ \A i \in 1 .. Len(s) + Len(t) : (s \o t)[i] = IF i <= Len(s) THEN s[i] ELSE t[i - Len(s)]
  BY ConcatProperties
<1>2. PICK m \in Nat, n \in Nat : Len(s) = m /\ DOMAIN s = 1..m /\ Len(t) = n /\ DOMAIN t = 1..n
  OBVIOUS
<1>3. DOMAIN (s \o t) = 1..(m + n)
  BY <1>1, <1>2
<1>4. \A i \in 1..m : i \in 1..(m + n) /\ (s \o t)[i] = s[i]
  BY <1>1, <1>2
<1>5. \A j \in 1..n : (m + j) \in 1..(m + n) /\ (s \o t)[m + j] = t[j]
  <2> TAKE j \in 1..n
  <2>1. (m + j) \in 1..(m + n) /\ ~(m + j <= m) /\ (m + j) - m = j
    OBVIOUS
  <2> QED
    BY <1>1, <1>2, <2>1
<1>6. \A i \in 1..(m + n) : i \in 1..m \/ \E j \in 1..n : i = m + j
  <2> TAKE i \in 1..(m + n)
  <2>1. i > m => (i - m) \in 1..n /\ i = m + (i - m)
    OBVIOUS
  <2>2. i <= m => i \in 1..m
    OBVIOUS
  <2> QED
    BY <2>1, <2>2
<1>7. \A x : x \in ToSet(s \o t) <=> x \in ToSet(s) \/ x \in ToSet(t)
  <2>1. ASSUME NEW i \in 1..(m + n) PROVE (s \o t)[i] \in ToSet(s) \cup ToSet(t)
    <3>1. CASE i \in 1..m
      BY <1>2, <1>4, <3>1 DEF ToSet
    <3>2. CASE \E j \in 1..n : i = m + j
      <4>1. PICK j \in 1..n : i = m + j
        BY <3>2
      <4>2. (s \o t)[i] = t[j] /\ t[j] \in ToSet(t)
        BY <1>2, <1>5, <4>1 DEF ToSet
      <4> QED
        BY <4>2
    <3> QED
      BY <1>6, <3>1, <3>2
  <2>2. ASSUME NEW i \in 1..m PROVE s[i] \in ToSet(s \o t)
    BY <1>3, <1>4 DEF ToSet
  <2>3. ASSUME NEW j \in 1..n PROVE t[j] \in ToSet(s \o t)
    BY <1>3, <1>5 DEF ToSet
  <2>4. \A x : /\ x \in ToSet(s \o t) <=> \E i \in 1..(m + n) : x = (s \o t)[i]
               /\ x \in ToSet(s) <=> \E i \in 1..m : x = s[i]
               /\ x \in ToSet(t) <=> \E i \in 1..n : x = t[i]
    BY <1>2, <1>3 DEF ToSet
  <2> QED
    BY <2>1, <2>2, <2>3, <2>4
<1> QED
  BY <1>1, <1>7

KnownRegisters ==
  {XmmRegister(k) : k \in 0..15} \cup {Low32(k) : k \in 0..15} \cup {Full64(k) : k \in 0..15}
    \cup {RegisterInfo(<<"mxcsr", 0>>, 32, "mxcsr", {})}

LEMMA RegistersAre == ToSet(Registers) = KnownRegisters
<1> DEFINE a == [k \in 1..16 |-> RegisterInfo(<<"xmm", k - 1>>, 128, "simd", {})]
           b == [k \in 1..8 |-> Low32(k - 1)]
           c == [k \in 1..8 |-> Full64(k - 1)]
           d == [k \in 1..16 |-> LET n == 8 + (k - 1) \div 2 IN IF k % 2 = 1 THEN Full64(n) ELSE Low32(n)]
           e == <<RegisterInfo(<<"mxcsr", 0>>, 32, "mxcsr", {})>>
           X == {XmmRegister(k) : k \in 0..15}
           L == {Low32(k) : k \in 0..7}
           H == {Full64(k) : k \in 0..7}
           R == {Full64(k) : k \in 8..15} \cup {Low32(k) : k \in 8..15}
           M == {RegisterInfo(<<"mxcsr", 0>>, 32, "mxcsr", {})}
<1>1. a \in Seq(X) /\ ToSet(a) = X
  <2>1. \A k \in 1..16 : k - 1 \in 0..15 /\ a[k] = XmmRegister(k - 1)
    BY DEF XmmRegister
  <2>2. \A k \in 0..15 : k + 1 \in 1..16 /\ (k + 1) - 1 = k
    OBVIOUS
  <2>3. DOMAIN a = 1..16 /\ a = [k \in 1..16 |-> a[k]]
    OBVIOUS
  <2> HIDE DEF a
  <2>4. ToSet(a) = X
    BY <2>1, <2>2, <2>3 DEF ToSet
  <2>5. \A k \in 1..16 : a[k] \in X
    BY <2>1
  <2> HIDE DEF X
  <2>6. [k \in 1..16 |-> a[k]] \in Seq(X)
    BY <2>5
  <2> QED
    BY <2>3, <2>4, <2>6
<1>2. b \in Seq(L) /\ ToSet(b) = L
  <2>1. \A k \in 1..8 : k - 1 \in 0..7 /\ b[k] = Low32(k - 1)
    OBVIOUS
  <2>2. \A k \in 0..7 : k + 1 \in 1..8 /\ (k + 1) - 1 = k
    OBVIOUS
  <2>3. DOMAIN b = 1..8 /\ b = [k \in 1..8 |-> b[k]]
    OBVIOUS
  <2> HIDE DEF b
  <2>4. ToSet(b) = L
    BY <2>1, <2>2, <2>3 DEF ToSet
  <2>5. \A k \in 1..8 : b[k] \in L
    BY <2>1
  <2> HIDE DEF L
  <2>6. [k \in 1..8 |-> b[k]] \in Seq(L)
    BY <2>5
  <2> QED
    BY <2>3, <2>4, <2>6
<1>3. c \in Seq(H) /\ ToSet(c) = H
  <2>1. \A k \in 1..8 : k - 1 \in 0..7 /\ c[k] = Full64(k - 1)
    OBVIOUS
  <2>2. \A k \in 0..7 : k + 1 \in 1..8 /\ (k + 1) - 1 = k
    OBVIOUS
  <2>3. DOMAIN c = 1..8 /\ c = [k \in 1..8 |-> c[k]]
    OBVIOUS
  <2> HIDE DEF c
  <2>4. ToSet(c) = H
    BY <2>1, <2>2, <2>3 DEF ToSet
  <2>5. \A k \in 1..8 : c[k] \in H
    BY <2>1
  <2> HIDE DEF H
  <2>6. [k \in 1..8 |-> c[k]] \in Seq(H)
    BY <2>5
  <2> QED
    BY <2>3, <2>4, <2>6
<1>4. d \in Seq(R) /\ ToSet(d) = R
  <2>1. \A k \in 1..16 : /\ (8 + (k - 1) \div 2) \in 8..15
                         /\ d[k] = IF k % 2 = 1 THEN Full64(8 + (k - 1) \div 2) ELSE Low32(8 + (k - 1) \div 2)
    OBVIOUS
  <2>2. \A n \in 8..15 : /\ (2 * n - 15) \in 1..16 /\ (2 * n - 15) % 2 = 1
                         /\ 8 + ((2 * n - 15) - 1) \div 2 = n
                         /\ (2 * n - 14) \in 1..16 /\ (2 * n - 14) % 2 # 1
                         /\ 8 + ((2 * n - 14) - 1) \div 2 = n
    OBVIOUS
  <2>3. DOMAIN d = 1..16 /\ d = [k \in 1..16 |-> d[k]]
    OBVIOUS
  <2> HIDE DEF d
  <2>5. \A k \in 1..16 : d[k] \in R
    BY <2>1
  <2>7. \A n \in 8..15 : d[2 * n - 15] = Full64(n) /\ d[2 * n - 14] = Low32(n)
    BY <2>1, <2>2
  <2>4. ToSet(d) = R
    BY <2>2, <2>3, <2>5, <2>7 DEF ToSet
  <2> HIDE DEF R
  <2>6. [k \in 1..16 |-> d[k]] \in Seq(R)
    BY <2>5
  <2> QED
    BY <2>3, <2>4, <2>6
<1>5. e \in Seq(M) /\ ToSet(e) = M
  BY DEF ToSet
<1>6. Registers = a \o b \o c \o d \o e
  BY DEF Registers
<1> DEFINE S == X \cup L \cup H \cup R \cup M
<1> HIDE DEF a, b, c, d, e, X, L, H, R, M
<1>7. a \in Seq(S) /\ b \in Seq(S) /\ c \in Seq(S) /\ d \in Seq(S) /\ e \in Seq(S)
  BY <1>1, <1>2, <1>3, <1>4, <1>5
<1> HIDE DEF S
<1>13. \A s, t \in Seq(S) : s \o t \in Seq(S) /\ ToSet(s \o t) = ToSet(s) \cup ToSet(t)
  BY ConcatSet
<1>8. a \o b \in Seq(S) /\ ToSet(a \o b) = X \cup L
  BY <1>1, <1>2, <1>7, <1>13
<1>9. (a \o b) \o c \in Seq(S) /\ ToSet((a \o b) \o c) = X \cup L \cup H
  BY <1>3, <1>7, <1>8, <1>13, Zenon
<1>10. ((a \o b) \o c) \o d \in Seq(S) /\ ToSet(((a \o b) \o c) \o d) = X \cup L \cup H \cup R
  BY <1>4, <1>7, <1>9, <1>13, Zenon
<1>14. ToSet((((a \o b) \o c) \o d) \o e) = X \cup L \cup H \cup R \cup M
  BY <1>5, <1>7, <1>10, <1>13, Zenon
<1>11. ToSet(Registers) = X \cup L \cup H \cup R \cup M
  BY <1>6, <1>14, Zenon
<1>12. 0..15 = (0..7) \cup (8..15)
  OBVIOUS
<1> QED
  BY <1>11, <1>12 DEF KnownRegisters, X, L, H, R, M

LEMMA Banks ==
  ASSUME NEW name \in RegisterName
  PROVE  /\ InBank(name, "simd") <=> name[1] = "xmm" /\ name[2] < 16
         /\ InBank(name, "gpr") <=> name[1] \in {"r", "e"} /\ name[2] < 16
<1>1. name[1] \in STRING /\ name[2] \in Nat /\ name = <<name[1], name[2]>>
  BY DEF RegisterName
<1>2. /\ \A j : /\ XmmRegister(j).name = <<"xmm", j>> /\ XmmRegister(j).bank = "simd"
                /\ Low32(j).name = <<"e", j>> /\ Low32(j).bank = "gpr"
                /\ Full64(j).name = <<"r", j>> /\ Full64(j).bank = "gpr"
      /\ RegisterInfo(<<"mxcsr", 0>>, 32, "mxcsr", {}).name = <<"mxcsr", 0>>
      /\ RegisterInfo(<<"mxcsr", 0>>, 32, "mxcsr", {}).bank = "mxcsr"
  BY DEF XmmRegister, Low32, Full64, RegisterInfo
<1>3. \A bank : InBank(name, bank) <=> \E r \in KnownRegisters : r.name = name /\ r.bank = bank
  BY RegistersAre DEF InBank, RegisterNamed
<1>4. InBank(name, "simd") <=> \E j \in 0..15 : name = <<"xmm", j>>
  <2>1. ASSUME NEW r \in KnownRegisters, r.bank = "simd" PROVE \E j \in 0..15 : r = XmmRegister(j)
    BY <1>2, <2>1 DEF KnownRegisters
  <2>2. ASSUME NEW j \in 0..15 PROVE XmmRegister(j) \in KnownRegisters
    BY DEF KnownRegisters
  <2>3. ASSUME InBank(name, "simd") PROVE \E j \in 0..15 : name = <<"xmm", j>>
    <3>1. PICK r \in KnownRegisters : r.name = name /\ r.bank = "simd"
      BY <1>3, <2>3
    <3>2. PICK j \in 0..15 : r = XmmRegister(j)
      BY <2>1, <3>1
    <3> QED
      BY <1>2, <3>1, <3>2
  <2>4. ASSUME NEW j \in 0..15, name = <<"xmm", j>> PROVE InBank(name, "simd")
    <3>1. XmmRegister(j).name = name /\ XmmRegister(j).bank = "simd"
      BY <1>2, <2>4
    <3> QED
      BY <1>3, <2>2, <3>1
  <2> QED
    BY <2>3, <2>4
<1>5. InBank(name, "gpr") <=> (\E j \in 0..15 : name = <<"e", j>>) \/ (\E j \in 0..15 : name = <<"r", j>>)
  <2>1. ASSUME NEW r \in KnownRegisters, r.bank = "gpr"
        PROVE  \E j \in 0..15 : r = Low32(j) \/ r = Full64(j)
    BY <1>2, <2>1 DEF KnownRegisters
  <2>2. ASSUME NEW j \in 0..15 PROVE Low32(j) \in KnownRegisters /\ Full64(j) \in KnownRegisters
    BY DEF KnownRegisters
  <2>3. ASSUME InBank(name, "gpr") PROVE \E j \in 0..15 : name = <<"e", j>> \/ name = <<"r", j>>
    <3>1. PICK r \in KnownRegisters : r.name = name /\ r.bank = "gpr"
      BY <1>3, <2>3
    <3>2. PICK j \in 0..15 : r = Low32(j) \/ r = Full64(j)
      BY <2>1, <3>1
    <3> QED
      BY <1>2, <3>1, <3>2
  <2>4. ASSUME NEW j \in 0..15, name = <<"e", j>> \/ name = <<"r", j>> PROVE InBank(name, "gpr")
    <3>1. /\ Low32(j).name = <<"e", j>> /\ Low32(j).bank = "gpr"
          /\ Full64(j).name = <<"r", j>> /\ Full64(j).bank = "gpr"
      BY <1>2
    <3> QED
      BY <1>3, <2>2, <2>4, <3>1
  <2> QED
    BY <2>3, <2>4
<1>6. \A f : (\E j \in 0..15 : name = <<f, j>>) <=> name[1] = f /\ name[2] < 16
  BY <1>1
<1> QED
  BY <1>4, <1>5, <1>6

-----------------------------------------------------------------------------
(* What the resolver accepts is what the architecture encodes.             *)
LEMMA ResolvableOperand ==
  ASSUME NEW o \in ParsedOperand
  PROVE  /\ o.kind = "register" => (ResolveError(o) = "ok" <=> IsXmm(o))
         /\ o.kind = "memory" => (ResolveError(o) = "ok" <=> IsAddress(o))
         /\ o.kind = "immediate" => ResolveError(o) = "ok"
         /\ o.kind \in {"register", "memory", "immediate"}
<1>1. o.kind \in {"register", "memory", "immediate"}
  BY DEF ParsedOperand
<1>2. ASSUME o.kind = "register" PROVE ResolveError(o) = "ok" <=> IsXmm(o)
  <2>1. o.name \in RegisterName
    BY <1>2 DEF ParsedOperand
  <2>2. ResolveError(o) = RegisterError(o.name)
    BY <1>2 DEF ResolveError
  <2>3. RegisterError(o.name) = "ok" <=> InBank(o.name, "simd")
    BY DEF RegisterError, InBank
  <2> QED
    BY <1>2, <2>1, <2>2, <2>3, Banks DEF IsXmm
<1>3. ASSUME o.kind = "memory" PROVE ResolveError(o) = "ok" <=> IsAddress(o)
  <2>1. o.base \in RegisterName
    BY <1>3 DEF ParsedOperand
  <2>2. ResolveError(o) = "ok" <=> InBank(o.base, "gpr")
    BY <1>3 DEF ResolveError
  <2> QED
    BY <1>3, <2>1, <2>2, Banks DEF IsAddress
<1>4. o.kind = "immediate" => ResolveError(o) = "ok"
  BY DEF ResolveError
<1> QED
  BY <1>1, <1>2, <1>3, <1>4

LEMMA FormsOfMnemonics ==
  /\ \A m \in PackedBinaries \cup {"unpcklps", "unpckhps"} : \E f \in DOMAIN Forms : Forms[f] = PackedForm(m)
  /\ \A m \in ScalarBinaries \cup ScalarUnaries : \E f \in DOMAIN Forms : Forms[f] = ScalarForm(m)
  /\ \A m \in PackedUnaries : \E f \in DOMAIN Forms : Forms[f] = OverwritingForm(m, "any")
  /\ \A m \in {"movaps", "movups"} : \E f \in DOMAIN Forms : Forms[f] = OverwritingForm(m, "load")
  /\ \A m \in {"movaps", "movups"} : \E f \in DOMAIN Forms : Forms[f] = StoreForm(m, 128)
  /\ \E f \in DOMAIN Forms : Forms[f] = StoreForm("movss", 32)
  /\ \E f \in DOMAIN Forms : Forms[f] = MovssLoadForm
  /\ \E f \in DOMAIN Forms : Forms[f] = ShufpsForm
<1>1. DOMAIN Forms = 1..31
  BY FormsShaped
<1>2. /\ Forms[1] = PackedForm("addps") /\ Forms[3] = PackedForm("subps")
      /\ Forms[5] = PackedForm("mulps") /\ Forms[7] = PackedForm("divps")
      /\ Forms[9] = PackedForm("minps") /\ Forms[11] = PackedForm("maxps")
      /\ Forms[19] = PackedForm("andps") /\ Forms[20] = PackedForm("andnps")
      /\ Forms[21] = PackedForm("orps") /\ Forms[22] = PackedForm("xorps")
      /\ Forms[30] = PackedForm("unpcklps") /\ Forms[31] = PackedForm("unpckhps")
  BY DEF Forms
<1>3. /\ Forms[2] = ScalarForm("addss") /\ Forms[4] = ScalarForm("subss")
      /\ Forms[6] = ScalarForm("mulss") /\ Forms[8] = ScalarForm("divss")
      /\ Forms[10] = ScalarForm("minss") /\ Forms[12] = ScalarForm("maxss")
      /\ Forms[14] = ScalarForm("sqrtss") /\ Forms[16] = ScalarForm("rcpss")
      /\ Forms[18] = ScalarForm("rsqrtss")
  BY DEF Forms
<1>4. /\ Forms[13] = OverwritingForm("sqrtps", "any") /\ Forms[15] = OverwritingForm("rcpps", "any")
      /\ Forms[17] = OverwritingForm("rsqrtps", "any")
      /\ Forms[23] = OverwritingForm("movaps", "load") /\ Forms[25] = OverwritingForm("movups", "load")
      /\ Forms[24] = StoreForm("movaps", 128) /\ Forms[26] = StoreForm("movups", 128)
      /\ Forms[27] = MovssLoadForm /\ Forms[28] = StoreForm("movss", 32)
      /\ Forms[29] = ShufpsForm
  BY DEF Forms, MovssLoadForm, ShufpsForm
<1>5. \A m \in PackedBinaries \cup {"unpcklps", "unpckhps"} : \E f \in 1..31 : Forms[f] = PackedForm(m)
  BY <1>2 DEF PackedBinaries
<1>6. \A m \in ScalarBinaries \cup ScalarUnaries : \E f \in 1..31 : Forms[f] = ScalarForm(m)
  BY <1>3 DEF ScalarBinaries, ScalarUnaries
<1>7. \A m \in PackedUnaries : \E f \in 1..31 : Forms[f] = OverwritingForm(m, "any")
  BY <1>4 DEF PackedUnaries
<1>8. /\ \A m \in {"movaps", "movups"} : \E f \in 1..31 : Forms[f] = OverwritingForm(m, "load")
      /\ \A m \in {"movaps", "movups"} : \E f \in 1..31 : Forms[f] = StoreForm(m, 128)
      /\ \E f \in 1..31 : Forms[f] = StoreForm("movss", 32)
      /\ \E f \in 1..31 : Forms[f] = MovssLoadForm
      /\ \E f \in 1..31 : Forms[f] = ShufpsForm
  BY <1>4
<1> QED
  BY <1>1, <1>5, <1>6, <1>7, <1>8

(* How an instruction matches: the ways a form takes its operands.         *)
LoadLike(u) ==
  Len(u.operands) = 2 /\ u.operands[1].kind = "register" /\ u.operands[2].kind \in {"register", "memory"}
StoreLike(u) ==
  Len(u.operands) = 2 /\ u.operands[1].kind = "memory" /\ u.operands[2].kind = "register"
ShuffleLike(u) ==
  /\ Len(u.operands) = 3 /\ u.operands[1].kind = "register"
  /\ u.operands[2].kind \in {"register", "memory"} /\ u.operands[3].kind = "immediate"
Arithmetics == PackedBinaries \cup ScalarBinaries \cup PackedUnaries \cup ScalarUnaries
MoveNames == {"movaps", "movups", "movss"}
Unpacks == {"unpcklps", "unpckhps"}

LEMMA MatchesShape ==
  ASSUME NEW form, NEW u \in Unresolveds
  PROVE  /\ \A access, width : form.operands = <<Xmm(access), XmmOrMemory(width)>> =>
              (FormMatches(form, u) <=> form.mnemonic = u.mnemonic /\ LoadLike(u))
         /\ \A width : form.operands = <<Memory(width), Xmm("read")>> =>
              (FormMatches(form, u) <=> form.mnemonic = u.mnemonic /\ StoreLike(u))
         /\ form.operands = <<Xmm("read_write"), XmmOrMemory(128), Imm8>> =>
              (FormMatches(form, u) <=> form.mnemonic = u.mnemonic /\ ShuffleLike(u))
<1>1. PICK n \in Nat : DOMAIN u.operands = 1..n /\ Len(u.operands) = n
  BY DEF Unresolveds
<1>2. ASSUME NEW a, NEW b, form.operands = <<a, b>>
      PROVE  FormMatches(form, u) <=> form.mnemonic = u.mnemonic /\ Len(u.operands) = 2
               /\ u.operands[1].kind \in a.kinds /\ u.operands[2].kind \in b.kinds
  <2>1. Len(form.operands) = 2 /\ form.operands[1] = a /\ form.operands[2] = b
    BY <1>2
  <2>2. n = 2 => 1..n = {1, 2}
    OBVIOUS
  <2> QED
    BY <1>1, <2>1, <2>2 DEF FormMatches
<1>3. ASSUME NEW a, NEW b, NEW c, form.operands = <<a, b, c>>
      PROVE  FormMatches(form, u) <=> form.mnemonic = u.mnemonic /\ Len(u.operands) = 3
               /\ u.operands[1].kind \in a.kinds /\ u.operands[2].kind \in b.kinds
               /\ u.operands[3].kind \in c.kinds
  <2>1. Len(form.operands) = 3 /\ form.operands[1] = a /\ form.operands[2] = b /\ form.operands[3] = c
    BY <1>3
  <2>2. n = 3 => 1..n = {1, 2, 3}
    OBVIOUS
  <2> QED
    BY <1>1, <2>1, <2>2 DEF FormMatches
<1> QED
  BY <1>2, <1>3, ConstraintFields DEF LoadLike, StoreLike, ShuffleLike

LEMMA MatchingIs ==
  ASSUME NEW u \in Unresolveds
  PROVE  Matching(u) # {} <=>
           \/ u.mnemonic \in Arithmetics \cup MoveNames \cup Unpacks /\ LoadLike(u)
           \/ u.mnemonic \in MoveNames /\ StoreLike(u)
           \/ u.mnemonic = "shufps" /\ ShuffleLike(u)
<1> DEFINE Two(form) == \E access, width : form.operands = <<Xmm(access), XmmOrMemory(width)>>
           Stores(form) == \E width : form.operands = <<Memory(width), Xmm("read")>>
           Three(form) == form.operands = <<Xmm("read_write"), XmmOrMemory(128), Imm8>>
<1>1. \A form : /\ Two(form) => (FormMatches(form, u) <=> form.mnemonic = u.mnemonic /\ LoadLike(u))
                /\ Stores(form) => (FormMatches(form, u) <=> form.mnemonic = u.mnemonic /\ StoreLike(u))
                /\ Three(form) => (FormMatches(form, u) <=> form.mnemonic = u.mnemonic /\ ShuffleLike(u))
  BY MatchesShape
<1>2. /\ \A m : PackedForm(m).mnemonic = m /\ Two(PackedForm(m))
      /\ \A m : ScalarForm(m).mnemonic = m /\ Two(ScalarForm(m))
      /\ \A m, v : OverwritingForm(m, v).mnemonic = m /\ Two(OverwritingForm(m, v))
      /\ \A m, w : StoreForm(m, w).mnemonic = m /\ Stores(StoreForm(m, w))
      /\ MovssLoadForm.mnemonic = "movss" /\ Two(MovssLoadForm)
      /\ ShufpsForm.mnemonic = "shufps" /\ Three(ShufpsForm)
  BY FormFields, OtherFields
<1> HIDE DEF Two, Stores, Three
<1>3. ASSUME NEW f \in DOMAIN Forms, FormMatches(Forms[f], u)
      PROVE  \/ u.mnemonic \in Arithmetics \cup MoveNames \cup Unpacks /\ LoadLike(u)
             \/ u.mnemonic \in MoveNames /\ StoreLike(u)
             \/ u.mnemonic = "shufps" /\ ShuffleLike(u)
  <2>1. \/ Two(Forms[f]) /\ Forms[f].mnemonic \in Arithmetics \cup MoveNames \cup Unpacks
        \/ Stores(Forms[f]) /\ Forms[f].mnemonic \in MoveNames
        \/ Three(Forms[f]) /\ Forms[f].mnemonic = "shufps"
    <3>1. Shaped(Forms[f])
      BY FormsShaped
    <3>2. /\ \A m \in PackedBinaries \cup ScalarBinaries \cup PackedUnaries \cup ScalarUnaries : m \in Arithmetics
          /\ \A m \in {"movaps", "movups"} : m \in MoveNames
          /\ "movss" \in MoveNames /\ \A m \in {"unpcklps", "unpckhps"} : m \in Unpacks
      BY DEF Arithmetics, MoveNames, Unpacks
    <3> QED
      BY <1>2, <3>1, <3>2 DEF Shaped
  <2> QED
    BY <1>1, <1>3, <2>1
<1>4. ASSUME NEW f \in DOMAIN Forms, FormMatches(Forms[f], u) PROVE Matching(u) # {}
  BY <1>4 DEF Matching
<1>5. ASSUME u.mnemonic \in Arithmetics \cup MoveNames \cup Unpacks, LoadLike(u)
      PROVE  Matching(u) # {}
  <2>1. \E f \in DOMAIN Forms : Two(Forms[f]) /\ Forms[f].mnemonic = u.mnemonic
    BY <1>2, <1>5, FormsOfMnemonics DEF Arithmetics, MoveNames, Unpacks
  <2> QED
    BY <1>1, <1>4, <1>5, <2>1
<1>6. ASSUME u.mnemonic \in MoveNames, StoreLike(u) PROVE Matching(u) # {}
  <2>1. \E f \in DOMAIN Forms : Stores(Forms[f]) /\ Forms[f].mnemonic = u.mnemonic
    BY <1>2, <1>6, FormsOfMnemonics DEF MoveNames
  <2> QED
    BY <1>1, <1>4, <1>6, <2>1
<1>7. ASSUME u.mnemonic = "shufps", ShuffleLike(u) PROVE Matching(u) # {}
  <2>1. \E f \in DOMAIN Forms : Three(Forms[f]) /\ Forms[f].mnemonic = u.mnemonic
    BY <1>2, <1>7, FormsOfMnemonics
  <2> QED
    BY <1>1, <1>4, <1>7, <2>1
<1> QED
  BY <1>3, <1>5, <1>6, <1>7 DEF Matching

BinaryRow(op, packed, scalar) ==
  /\ op \in DOMAIN BinaryOperation /\ op \notin OneSource
  /\ packed \in BinaryOperation[op] /\ packed \in PackedBinaries
  /\ scalar = "" \/ (scalar \in BinaryOperation[op] /\ scalar \in ScalarBinaries)
UnaryRow(op, packed, scalar) ==
  /\ op \in DOMAIN UnaryOperation /\ op \in OneSource
  /\ packed \in UnaryOperation[op] /\ packed \in PackedUnaries
  /\ scalar \in UnaryOperation[op] /\ scalar \in ScalarUnaries

LEMMA ArithmeticRows ==
  \A p \in Arithmetic : BinaryRow(p[1], p[2], p[3]) \/ UnaryRow(p[1], p[2], p[3])
<1>1. /\ BinaryRow("add", "addps", "addss") /\ BinaryRow("subtract", "subps", "subss")
      /\ BinaryRow("multiply", "mulps", "mulss") /\ BinaryRow("divide", "divps", "divss")
      /\ BinaryRow("minimum", "minps", "minss") /\ BinaryRow("maximum", "maxps", "maxss")
  BY DEF BinaryRow, BinaryOperation, OneSource, PackedBinaries, ScalarBinaries
<1>2. /\ BinaryRow("bit_and", "andps", "") /\ BinaryRow("bit_and_not", "andnps", "")
      /\ BinaryRow("bit_or", "orps", "") /\ BinaryRow("bit_xor", "xorps", "")
  BY DEF BinaryRow, BinaryOperation, OneSource, PackedBinaries, ScalarBinaries
<1>3. /\ UnaryRow("sqrt", "sqrtps", "sqrtss") /\ UnaryRow("approximate_reciprocal", "rcpps", "rcpss")
      /\ UnaryRow("approximate_reciprocal_sqrt", "rsqrtps", "rsqrtss")
  BY DEF UnaryRow, UnaryOperation, OneSource, PackedUnaries, ScalarUnaries
<1> DEFINE Right(p) == BinaryRow(p[1], p[2], p[3]) \/ UnaryRow(p[1], p[2], p[3])
<1>4. \A op, a, b : BinaryRow(op, a, b) \/ UnaryRow(op, a, b) => Right(<<op, a, b>>)
  <2>1. \A op, a, b : <<op, a, b>>[1] = op /\ <<op, a, b>>[2] = a /\ <<op, a, b>>[3] = b
    OBVIOUS
  <2> QED
    BY <2>1, Zenon
<1> HIDE DEF Right
<1>5. /\ Right(<<"add", "addps", "addss">>) /\ Right(<<"subtract", "subps", "subss">>)
      /\ Right(<<"multiply", "mulps", "mulss">>) /\ Right(<<"divide", "divps", "divss">>)
      /\ Right(<<"minimum", "minps", "minss">>) /\ Right(<<"maximum", "maxps", "maxss">>)
      /\ Right(<<"bit_and", "andps", "">>) /\ Right(<<"bit_and_not", "andnps", "">>)
      /\ Right(<<"bit_or", "orps", "">>) /\ Right(<<"bit_xor", "xorps", "">>)
      /\ Right(<<"sqrt", "sqrtps", "sqrtss">>)
      /\ Right(<<"approximate_reciprocal", "rcpps", "rcpss">>)
      /\ Right(<<"approximate_reciprocal_sqrt", "rsqrtps", "rsqrtss">>)
  BY <1>1, <1>2, <1>3, <1>4, Zenon
<1>6. \A p \in Arithmetic : Right(p)
  BY <1>5, Zenon DEF Arithmetic
<1> QED
  BY <1>6 DEF Right

LEMMA ArithmeticsListed ==
  \A m \in Arithmetics : \E p \in Arithmetic : m = p[2] \/ m = p[3]
<1> DEFINE Listed(m) == \E p \in Arithmetic : m = p[2] \/ m = p[3]
<1>1. \A op, a, b : <<op, a, b>> \in Arithmetic => Listed(a) /\ Listed(b)
  <2>1. \A op, a, b : <<op, a, b>>[2] = a /\ <<op, a, b>>[3] = b
    OBVIOUS
  <2> QED
    BY <2>1, Zenon
<1>2. /\ <<"add", "addps", "addss">> \in Arithmetic /\ <<"subtract", "subps", "subss">> \in Arithmetic
      /\ <<"multiply", "mulps", "mulss">> \in Arithmetic /\ <<"divide", "divps", "divss">> \in Arithmetic
      /\ <<"minimum", "minps", "minss">> \in Arithmetic /\ <<"maximum", "maxps", "maxss">> \in Arithmetic
      /\ <<"bit_and", "andps", "">> \in Arithmetic /\ <<"bit_and_not", "andnps", "">> \in Arithmetic
      /\ <<"bit_or", "orps", "">> \in Arithmetic /\ <<"bit_xor", "xorps", "">> \in Arithmetic
      /\ <<"sqrt", "sqrtps", "sqrtss">> \in Arithmetic
      /\ <<"approximate_reciprocal", "rcpps", "rcpss">> \in Arithmetic
      /\ <<"approximate_reciprocal_sqrt", "rsqrtps", "rsqrtss">> \in Arithmetic
  BY DEF Arithmetic
<1> HIDE DEF Listed
<1>3. /\ Listed("addps") /\ Listed("addss") /\ Listed("subps") /\ Listed("subss")
      /\ Listed("mulps") /\ Listed("mulss") /\ Listed("divps") /\ Listed("divss")
      /\ Listed("minps") /\ Listed("minss") /\ Listed("maxps") /\ Listed("maxss")
      /\ Listed("andps") /\ Listed("andnps") /\ Listed("orps") /\ Listed("xorps")
      /\ Listed("sqrtps") /\ Listed("sqrtss") /\ Listed("rcpps") /\ Listed("rcpss")
      /\ Listed("rsqrtps") /\ Listed("rsqrtss")
  BY <1>1, <1>2
<1>4. \A m \in Arithmetics : Listed(m)
  BY <1>3 DEF Arithmetics, PackedBinaries, ScalarBinaries, PackedUnaries, ScalarUnaries
<1> QED
  BY <1>4 DEF Listed

LEMMA ArithmeticNames ==
  ASSUME NEW m
  PROVE  ArithmeticOf(m) # {} <=> m \in Arithmetics
<1>1. "" \notin Arithmetics
  BY DEF Arithmetics, PackedBinaries, ScalarBinaries, PackedUnaries, ScalarUnaries
<1>2. ASSUME NEW p \in ArithmeticOf(m) PROVE m \in Arithmetics
  <2>1. p \in Arithmetic /\ (m = p[2] \/ m = p[3]) /\ m # ""
    BY DEF ArithmeticOf
  <2> QED
    BY <2>1, ArithmeticRows DEF Arithmetics, BinaryRow, UnaryRow
<1>3. ASSUME m \in Arithmetics PROVE ArithmeticOf(m) # {}
  <2>1. PICK p \in Arithmetic : m = p[2] \/ m = p[3]
    BY <1>3, ArithmeticsListed
  <2> QED
    BY <1>1, <1>3, <2>1 DEF ArithmeticOf
<1> QED
  BY <1>2, <1>3

LEMMA InstructionIs ==
  ASSUME NEW u \in Unresolveds
  PROVE  HasInstruction(u) <=> AllResolve(u) /\ Matching(u) # {}
<1> DEFINE a == u.operands[1]  b == u.operands[2]  c == u.operands[3]  m == u.mnemonic
<1>1. PICK n \in Nat : DOMAIN u.operands = 1..n /\ Len(u.operands) = n
                       /\ \A k \in 1..n : u.operands[k] \in ParsedOperand
  <2> HIDE DEF ParsedOperand
  <2> QED
    BY DEF Unresolveds
<1>2. /\ n = 2 => a \in ParsedOperand /\ b \in ParsedOperand
      /\ n = 3 => a \in ParsedOperand /\ b \in ParsedOperand /\ c \in ParsedOperand
  BY <1>1
<1>3. /\ n = 2 => (AllResolve(u) <=> ResolveError(a) = "ok" /\ ResolveError(b) = "ok")
      /\ n = 3 => (AllResolve(u) <=> ResolveError(a) = "ok" /\ ResolveError(b) = "ok" /\ ResolveError(c) = "ok")
  <2>1. (n = 2 => 1..n = {1, 2}) /\ (n = 3 => 1..n = {1, 2, 3})
    OBVIOUS
  <2> QED
    BY <1>1, <2>1 DEF AllResolve
<1>4. /\ \A o : IsXmm(o) => o.kind = "register"
      /\ \A o : IsAddress(o) => o.kind = "memory"
  BY DEF IsXmm, IsAddress
<1> DEFINE Source(o) == IsXmm(o) \/ IsAddress(o)
<1>5. AllResolve(u) /\ LoadLike(u) <=> n = 2 /\ IsXmm(a) /\ Source(b)
  BY <1>1, <1>2, <1>3, <1>4, ResolvableOperand DEF LoadLike
<1>6. AllResolve(u) /\ StoreLike(u) <=> n = 2 /\ IsAddress(a) /\ IsXmm(b)
  BY <1>1, <1>2, <1>3, <1>4, ResolvableOperand DEF StoreLike
<1>7. AllResolve(u) /\ ShuffleLike(u) <=> n = 3 /\ IsXmm(a) /\ Source(b) /\ c.kind = "immediate"
  BY <1>1, <1>2, <1>3, <1>4, ResolvableOperand DEF ShuffleLike
<1>8. /\ "shufps" \notin Arithmetics \cup MoveNames \cup Unpacks
      /\ \A x \in MoveNames : x # "shufps"
  BY DEF Arithmetics, MoveNames, Unpacks, PackedBinaries, ScalarBinaries, PackedUnaries, ScalarUnaries
<1>9. HasInstruction(u) <=>
        /\ m \in Arithmetics \cup MoveNames \cup Unpacks \cup {"shufps"}
        /\ n = IF m = "shufps" THEN 3 ELSE 2
        /\ \/ IsXmm(a) /\ Source(b)
           \/ m \in MoveNames /\ IsAddress(a) /\ IsXmm(b)
        /\ m = "shufps" => c.kind = "immediate"
  BY <1>1, ArithmeticNames DEF HasInstruction, MoveNames, Unpacks
<1> HIDE DEF a, b, c, m, Source
<1>10. HasInstruction(u) <=>
         \/ m \in Arithmetics \cup MoveNames \cup Unpacks /\ n = 2 /\ IsXmm(a) /\ Source(b)
         \/ m \in MoveNames /\ n = 2 /\ IsAddress(a) /\ IsXmm(b)
         \/ m = "shufps" /\ n = 3 /\ IsXmm(a) /\ Source(b) /\ c.kind = "immediate"
  BY <1>8, <1>9
<1> QED
  BY <1>5, <1>6, <1>7, <1>10, MatchingIs DEF m

(* What is made of a resolved instruction the semantic provider accepts.   *)
LEMMA ResolvedPasses ==
  ASSUME NEW u \in Unresolveds, NEW f \in Matching(u), AllResolve(u)
  PROVE  Semantics(f, ResolvedOperands(u, f)).error = "ok"
<1> DEFINE form == Forms[f]  operands == ResolvedOperands(u, f)
<1>1. f \in DOMAIN Forms /\ f \in Nat /\ Shaped(form) /\ FormMatches(form, u)
  BY FormsShaped DEF Matching
<1>2. PICK n \in Nat : DOMAIN u.operands = 1..n /\ Len(u.operands) = n
                       /\ \A k \in 1..n : u.operands[k] \in ParsedOperand
  <2> HIDE DEF ParsedOperand
  <2> QED
    BY DEF Unresolveds
<1>3. /\ DOMAIN operands = 1..n /\ \A k \in 1..n : operands[k] = Resolved(u.operands[k], form.operands[k])
  BY <1>2 DEF ResolvedOperands
<1>4. Len(operands) = n
  <2>1. operands \in Seq(BuiltOperand)
    BY ResolvedTyped
  <2> HIDE DEF operands, BuiltOperand
  <2> QED
    BY <1>3, <2>1
<1>5. Len(form.operands) = n /\ \A k \in 1..n : u.operands[k].kind \in form.operands[k].kinds
  BY <1>1, <1>2 DEF FormMatches
<1>6. \A k \in 1..n : ResolveError(u.operands[k]) = "ok"
  BY <1>2 DEF AllResolve
<1>7. \A k \in 1..n : form.operands[k].width # 0
  <2>1. \/ \E access : \E width \in {32, 128} : form.operands = <<Xmm(access), XmmOrMemory(width)>>
        \/ \E width \in {32, 128} : form.operands = <<Memory(width), Xmm("read")>>
        \/ form.operands = <<Xmm("read_write"), XmmOrMemory(128), Imm8>>
    <3>1. 32 \in {32, 128} /\ 128 \in {32, 128}
      OBVIOUS
    <3> HIDE DEF form
    <3> QED
      BY <1>1, <3>1, FormFields, OtherFields DEF Shaped
  <2>2. \/ \E x, y : form.operands = <<x, y>> /\ x.width # 0 /\ y.width # 0
        \/ \E x, y, z : form.operands = <<x, y, z>> /\ x.width # 0 /\ y.width # 0 /\ z.width # 0
    <3> HIDE DEF form
    <3> QED
      BY <2>1, ConstraintFields
  <2> HIDE DEF form
  <2> QED
    BY <1>5, <2>2
<1>10. \A k \in 1..n : form.operands[k].width \in Range32
  <2>1. DOMAIN form.operands = 1..n
    <3> HIDE DEF form
    <3>1. \/ \E x, y : form.operands = <<x, y>>
          \/ \E x, y, z : form.operands = <<x, y, z>>
      BY <1>1, FormFields, OtherFields DEF Shaped
    <3> QED
      BY <1>5, <3>1
  <2> HIDE DEF form
  <2> QED
    BY <1>1, <2>1, ConstraintsTyped
<1>8. ASSUME NEW k \in 1..n
      PROVE  OperandError(form.operands[k], operands[k]) = "ok" /\ X86OperandError(operands[k]) = "ok"
  <2> DEFINE o == u.operands[k]  constraint == form.operands[k]
  <2>1. /\ o \in ParsedOperand /\ o.kind \in constraint.kinds /\ ResolveError(o) = "ok"
        /\ constraint.width # 0 /\ operands[k] = Resolved(o, constraint)
        /\ constraint.width \in Range32
    BY <1>2, <1>3, <1>5, <1>6, <1>7, <1>10
  <2>2. o.kind \in {"register", "memory", "immediate"}
    BY <2>1, ResolvableOperand
  <2> HIDE DEF o, constraint, operands, form
  <2>3. CASE o.kind = "register"
    <3>1. operands[k] = RegisterOperand(o.name, 0, constraint.width)
      BY <2>1, <2>3 DEF Resolved
    <3>2. RegisterNamed(o.name) # {} /\ InBank(o.name, "simd")
      BY <2>1, <2>3 DEF ResolveError, RegisterError
    <3>3. /\ operands[k].kind = "register" /\ operands[k].reg = o.name
          /\ operands[k].width = constraint.width /\ operands[k].offset = 0
      BY <3>1 DEF RegisterOperand
    <3>6. Valid(operands[k])
      <4>1. /\ constraint.width \in Nat /\ constraint.width < RangeLimit /\ constraint.width # 0
            /\ RangeLimit \in Nat \ {0}
        BY <2>1, RangeLimitAssumption DEF Range32
      <4>2. EndBit(operands[k]) = (0 + constraint.width) % RangeLimit
        BY <3>3 DEF EndBit
      <4>3. (0 + constraint.width) % RangeLimit = constraint.width
        BY <4>1
      <4> QED
        BY <3>3, <4>1, <4>2, <4>3 DEF Valid
    <3>4. OperandError(constraint, operands[k]) = "ok"
      BY <2>1, <2>3, <3>3, <3>6 DEF OperandError
    <3>5. X86OperandError(operands[k]) = "ok"
      BY <3>2, <3>3 DEF X86OperandError
    <3> QED
      BY <3>4, <3>5 DEF constraint
  <2>4. CASE o.kind = "memory"
    <3>1. operands[k] = MemoryOperand(o.base, o.displacement, constraint.width)
      BY <2>1, <2>4 DEF Resolved
    <3>2. RegisterNamed(o.base) # {} /\ InBank(o.base, "gpr")
      BY <2>1, <2>4 DEF ResolveError, InBank
    <3>3. /\ operands[k].kind = "memory" /\ operands[k].base = o.base
          /\ operands[k].width = constraint.width
      BY <3>1 DEF MemoryOperand
    <3>4. OperandError(constraint, operands[k]) = "ok"
      BY <2>1, <2>4, <3>3 DEF OperandError
    <3>5. X86OperandError(operands[k]) = "ok"
      BY <3>2, <3>3 DEF X86OperandError
    <3> QED
      BY <3>4, <3>5 DEF constraint
  <2>5. CASE o.kind = "immediate"
    <3>1. operands[k] = ImmediateOperand(o.value, constraint.width)
      BY <2>1, <2>5 DEF Resolved
    <3>3. operands[k].kind = "immediate" /\ operands[k].width = constraint.width
      BY <3>1 DEF ImmediateOperand
    <3>4. OperandError(constraint, operands[k]) = "ok"
      BY <2>1, <2>5, <3>3 DEF OperandError
    <3>5. X86OperandError(operands[k]) = "ok"
      BY <3>3 DEF X86OperandError
    <3> QED
      BY <3>4, <3>5 DEF constraint
  <2> QED
    BY <2>2, <2>3, <2>4, <2>5
<1>9. OperandsError(form, operands) = "ok"
  <2> DEFINE errors == [k \in DOMAIN operands |-> OperandError(form.operands[k], operands[k])]
  <2>1. DOMAIN errors \subseteq Nat /\ \A k \in DOMAIN errors : errors[k] = "ok"
    BY <1>3, <1>8
  <2>2. OperandsError(form, operands) = FirstError(errors)
    BY <1>4, <1>5 DEF OperandsError
  <2> HIDE DEF errors
  <2> QED
    BY <2>1, <2>2, FirstErrorOk
<1> QED
  BY <1>1, <1>3, <1>8, <1>9, SemanticsIs

LEMMA ResolvedStep ==
  ASSUME NEW u \in Instructions, Step(u)
  PROVE  \E f \in Matching(u) :
           /\ AllResolve(u) /\ Semantics(f, ResolvedOperands(u, f)).error = "ok"
           /\ last' = Looked("resolved", u, f, ResolvedOperands(u, f), "ok",
                             Semantics(f, ResolvedOperands(u, f)).effects)
           /\ machine' = Execute(machine, ResolvedOperands(u, f), Semantics(f, ResolvedOperands(u, f)).effects)
<1> DEFINE r == Resolve(u)  s == Semantics(r.form, r.operands)
<1>1. /\ r.error = "ok" /\ last' = Looked("resolved", u, r.form, r.operands, s.error, s.effects)
      /\ machine' = Execute(machine, r.operands, s.effects)
  BY DEF Step
<1>2. u \in Unresolveds
  BY InstructionsTyped
<1>3. AllResolve(u) /\ \E f \in Matching(u) : r.form = f /\ r.operands = ResolvedOperands(u, f)
  BY <1>1, <1>2, ResolveIs
<1>4. PICK f \in Matching(u) : r.form = f /\ r.operands = ResolvedOperands(u, f)
  BY <1>3
<1> HIDE DEF r
<1>5. s = Semantics(f, ResolvedOperands(u, f))
  BY <1>4
<1> HIDE DEF s
<1>6. Semantics(f, ResolvedOperands(u, f)).error = "ok"
  BY <1>2, <1>3, ResolvedPasses
<1> QED
  BY <1>1, <1>3, <1>4, <1>5, <1>6

(* The form of a mnemonic, the one that stores being the next.             *)
FormOf ==
  [addps |-> 1, addss |-> 2, subps |-> 3, subss |-> 4, mulps |-> 5, mulss |-> 6, divps |-> 7,
   divss |-> 8, minps |-> 9, minss |-> 10, maxps |-> 11, maxss |-> 12, sqrtps |-> 13, sqrtss |-> 14,
   rcpps |-> 15, rcpss |-> 16, rsqrtps |-> 17, rsqrtss |-> 18, andps |-> 19, andnps |-> 20,
   orps |-> 21, xorps |-> 22, movaps |-> 23, movups |-> 25, movss |-> 27, shufps |-> 29,
   unpcklps |-> 30, unpckhps |-> 31]
WritesMemory(form) == form.operands[1].kinds = {"memory"}

LEMMA FormsTold ==
  /\ \A f \in DOMAIN Forms :
       f = IF WritesMemory(Forms[f]) THEN FormOf[Forms[f].mnemonic] + 1 ELSE FormOf[Forms[f].mnemonic]
  /\ \A f \in DOMAIN Forms : Forms[f].operands[1].kinds \in {{"memory"}, {"register"}}
<1> DEFINE Told(form, f) ==
             /\ f = IF WritesMemory(form) THEN FormOf[form.mnemonic] + 1 ELSE FormOf[form.mnemonic]
             /\ form.operands[1].kinds \in {{"memory"}, {"register"}}
<1>1. /\ \A m : /\ PackedForm(m).mnemonic = m /\ ScalarForm(m).mnemonic = m
                /\ PackedForm(m).operands[1].kinds = {"register"}
                /\ ScalarForm(m).operands[1].kinds = {"register"}
      /\ \A m, v : /\ OverwritingForm(m, v).mnemonic = m
                   /\ OverwritingForm(m, v).operands[1].kinds = {"register"}
      /\ \A m, w : /\ StoreForm(m, w).mnemonic = m
                   /\ StoreForm(m, w).operands[1].kinds = {"memory"}
      /\ MovssLoadForm.mnemonic = "movss" /\ MovssLoadForm.operands[1].kinds = {"register"}
      /\ ShufpsForm.mnemonic = "shufps" /\ ShufpsForm.operands[1].kinds = {"register"}
  BY FormFields, ConstraintFields, OtherFields
<1>2. {"register"} # {"memory"}
  OBVIOUS
<1>3. ASSUME NEW f \in 1..31 PROVE Told(Forms[f], f)
  BY <1>1, <1>2, SMTT(120) DEF Forms, WritesMemory, FormOf, MovssLoadForm, ShufpsForm
<1> QED
  BY <1>3, FormsShaped

(* No instruction matches two forms.                                       *)
LEMMA OneCandidate ==
  ASSUME NEW u, NEW f \in Matching(u), NEW g \in Matching(u)
  PROVE  f = g
<1>1. /\ f \in DOMAIN Forms /\ g \in DOMAIN Forms
      /\ FormMatches(Forms[f], u) /\ FormMatches(Forms[g], u)
  BY DEF Matching
<1>2. Forms[f].mnemonic = Forms[g].mnemonic
  BY <1>1 DEF FormMatches
<1>3. 1 \in DOMAIN u.operands
  <2>1. \/ \E x, y : Forms[f].operands = <<x, y>>
        \/ \E x, y, z : Forms[f].operands = <<x, y, z>>
    <3> DEFINE form == Forms[f]
    <3>1. Shaped(form)
      BY <1>1, FormsShaped
    <3> HIDE DEF form
    <3>2. \/ \E x, y : form.operands = <<x, y>>
          \/ \E x, y, z : form.operands = <<x, y, z>>
      BY <3>1, FormFields, OtherFields DEF Shaped
    <3> QED
      BY <3>2 DEF form
  <2>2. Len(u.operands) \in {2, 3}
    BY <1>1, <2>1 DEF FormMatches
  <2> QED
    BY <2>2
<1>4. u.operands[1].kind \in Forms[f].operands[1].kinds /\ u.operands[1].kind \in Forms[g].operands[1].kinds
  BY <1>1, <1>3 DEF FormMatches
<1>5. Forms[f].operands[1].kinds = Forms[g].operands[1].kinds
  BY <1>1, <1>4, FormsTold
<1> QED
  BY <1>1, <1>2, <1>5, FormsTold DEF WritesMemory

(* The resolver accepts exactly the instructions the architecture encodes  *)
(* and those no encoding has room for the values of; one form of the       *)
(* catalogue matches them, and the semantic provider refuses none.         *)
THEOREM EncodablesResolve == MachineSpec => []ResolvesTheEncodable
<1>1. MachineInit => ResolvesTheEncodable
  BY LookedFields DEF MachineInit, ResolvesTheEncodable
<1>2. ASSUME [MachineNext]_machineVars, ResolvesTheEncodable PROVE ResolvesTheEncodable'
  <2>1. ASSUME NEW u \in Instructions, Step(u) PROVE ResolvesTheEncodable'
    <3>1. PICK f \in Matching(u) :
            /\ AllResolve(u)
            /\ last' = Looked("resolved", u, f, ResolvedOperands(u, f), "ok",
                              Semantics(f, ResolvedOperands(u, f)).effects)
      BY <2>1, ResolvedStep
    <3>2. last'.how = "resolved" /\ last'.instruction = u /\ last'.error = "ok" /\ last'.form = f
      BY <3>1, LookedFields
    <3>3. Encodable(u) \/ OutOfRange(u)
      BY <3>1, InstructionsTyped, InstructionIs DEF Encodable, OutOfRange
    <3>4. {g \in DOMAIN Forms : FormMatches(Forms[g], u)} = {f}
      BY <3>1, OneCandidate DEF Matching
    <3> QED
      BY <3>2, <3>3, <3>4 DEF ResolvesTheEncodable
  <2>2. ASSUME NEW u \in Instructions, Refuse(u) PROVE ResolvesTheEncodable'
    <3>1. Resolve(u).error # "ok" /\ last' = Looked("refused", u, 0, <<>>, Resolve(u).error, <<>>)
      BY <2>2 DEF Refuse
    <3>2. last'.how = "refused" /\ last'.instruction = u
      BY <3>1, LookedFields
    <3>3. ~Encodable(u) /\ ~OutOfRange(u)
      BY <3>1, InstructionsTyped, InstructionIs, ResolveIs DEF Encodable, OutOfRange
    <3> QED
      BY <3>2, <3>3 DEF ResolvesTheEncodable
  <2>3. ASSUME NEW b \in Built, Examine(b) PROVE ResolvesTheEncodable'
    <3>1. last'.how = "built"
      BY <2>3, LookedFields DEF Examine
    <3> QED
      BY <3>1 DEF ResolvesTheEncodable
  <2>4. ASSUME UNCHANGED machineVars PROVE ResolvesTheEncodable'
    BY <1>2, <2>4 DEF machineVars, ResolvesTheEncodable
  <2> QED
    BY <1>2, <2>1, <2>2, <2>3, <2>4 DEF MachineNext
<1> QED
  BY <1>1, <1>2, PTL DEF MachineSpec

-----------------------------------------------------------------------------
(* What effects do to registers and memory.                                *)
Terms(m, operands, value) == [k \in DOMAIN value |-> Term(m, operands, value[k])]
RegisterGets(m, name, value) ==
  [xmm |-> [x \in XmmNames |-> IF x = name THEN value ELSE m.xmm[x]],
   mem |-> [c \in Cells |-> m.mem[c]]]

LEMMA EffectFields ==
  /\ \A o : MemoryRead(o).kind = "memory_read" /\ MemoryRead(o).operand = o
  /\ \A o, v, merges : /\ RegisterWrite(o, v, merges).kind = "register_write"
                       /\ RegisterWrite(o, v, merges).operand = o /\ RegisterWrite(o, v, merges).value = v
  /\ \A o, v : /\ MemoryWrite(o, v).kind = "memory_write"
               /\ MemoryWrite(o, v).operand = o /\ MemoryWrite(o, v).value = v
BY DEF MemoryRead, RegisterWrite, MemoryWrite

LEMMA RegisterExecution ==
  ASSUME NEW m, NEW form, NEW operands, form.variant # "store"
  PROVE  Execute(m, operands, Effects(form, operands))
           = RegisterGets(m, operands[1].reg, Terms(m, operands, Value(form, operands)))
<1> DEFINE effects == Effects(form, operands)
           value == Value(form, operands)
           write == RegisterWrite(operands[1], value, MergesOld(form, operands))
           read == MemoryRead(operands[2])
<1>1. /\ write.kind = "register_write" /\ write.operand = operands[1] /\ write.value = value
      /\ read.kind = "memory_read"
  BY EffectFields
<1>2. ToSet(effects) = {write} \/ ToSet(effects) = {read, write}
  <2>1. CASE operands[2].kind = "memory"
    <3>1. effects = <<read>> \o <<write>>
      BY <2>1 DEF Effects
    <3> HIDE DEF effects, read, write
    <3>2. effects = <<read, write>>
      BY <3>1, ConcatOnes
    <3> QED
      BY <3>2 DEF ToSet
  <2>2. CASE operands[2].kind # "memory"
    <3>1. effects = <<>> \o <<write>>
      BY <2>2 DEF Effects
    <3> HIDE DEF effects, read, write
    <3>2. effects = <<write>>
      BY <3>1
    <3> QED
      BY <3>2 DEF ToSet
  <2> QED
    BY <2>1, <2>2
<1> HIDE DEF effects, write, read, value
<1>3. \A x : RegisterWrites(effects, x) = IF operands[1].reg = x THEN {write} ELSE {}
  BY <1>1, <1>2 DEF RegisterWrites
<1>4. \A c : LaneWrites(effects, c) = {}
  <2>1. {e \in ToSet(effects) : e.kind = "memory_write"} = {}
    BY <1>1, <1>2
  <2> QED
    BY <2>1 DEF LaneWrites
<1>5. (CHOOSE e \in {write} : TRUE) = write
  OBVIOUS
<1> DEFINE Now(x) == IF RegisterWrites(effects, x) = {} THEN m.xmm[x]
                     ELSE LET v == (CHOOSE e \in RegisterWrites(effects, x) : TRUE).value
                          IN [k \in DOMAIN v |-> Term(m, operands, v[k])]
           Cellwise(c) == IF LaneWrites(effects, c) = {} THEN m.mem[c]
                          ELSE LET p == CHOOSE q \in LaneWrites(effects, c) : TRUE
                               IN Term(m, operands, p[1].value[p[2]])
<1>6. ASSUME NEW x PROVE Now(x) = IF x = operands[1].reg THEN Terms(m, operands, value) ELSE m.xmm[x]
  <2>1. CASE x = operands[1].reg
    <3>1. RegisterWrites(effects, x) = {write}
      BY <1>3, <2>1
    <3>2. (CHOOSE e \in RegisterWrites(effects, x) : TRUE).value = value
      BY <1>1, <1>5, <3>1
    <3> QED
      BY <2>1, <3>1, <3>2, Zenon DEF Terms
  <2>2. CASE x # operands[1].reg
    BY <1>3, <2>2
  <2> QED
    BY <2>1, <2>2
<1>7. ASSUME NEW c PROVE Cellwise(c) = m.mem[c]
  BY <1>4
<1>8. Execute(m, operands, effects) = [xmm |-> [x \in XmmNames |-> Now(x)], mem |-> [c \in Cells |-> Cellwise(c)]]
  BY Zenon DEF Execute
<1> HIDE DEF Now, Cellwise
<1>9. Execute(m, operands, effects) = RegisterGets(m, operands[1].reg, Terms(m, operands, value))
  BY <1>6, <1>7, <1>8 DEF RegisterGets
<1> QED
  BY <1>9 DEF effects, value

CellsGet(m, operands, value, n) ==
  [xmm |-> [x \in XmmNames |-> m.xmm[x]],
   mem |-> [c \in Cells |->
     IF \E l \in 0..(n - 1) : c = Cell(operands[1], l)
     THEN Term(m, operands, value[1 + (c[2] - operands[1].displacement) \div 4])
     ELSE m.mem[c]]]

LEMMA StoreExecution ==
  ASSUME NEW m, NEW form, NEW operands, form.variant = "store", operands[1].displacement \in Int,
         NEW n \in 1..4, DOMAIN Value(form, operands) = 1..n
  PROVE  Execute(m, operands, Effects(form, operands))
           = CellsGet(m, operands, Value(form, operands), n)
<1> DEFINE effects == Effects(form, operands)
           value == Value(form, operands)
           write == MemoryWrite(operands[1], value)
           d == operands[1].displacement
<1>1. write.kind = "memory_write" /\ write.operand = operands[1] /\ write.value = value
  BY EffectFields
<1>2. ToSet(effects) = {write}
  <2>1. effects = <<write>>
    BY DEF Effects
  <2> HIDE DEF effects, write
  <2> QED
    BY <2>1 DEF ToSet
<1> HIDE DEF effects, write, value
<1>3. \A x : RegisterWrites(effects, x) = {}
  BY <1>1, <1>2 DEF RegisterWrites
<1>4. \A c, p : p \in LaneWrites(effects, c) <=>
                  \E k \in 1..n : p = <<write, k>> /\ Cell(operands[1], k - 1) = c
  <2>1. {e \in ToSet(effects) : e.kind = "memory_write"} = {write}
    BY <1>1, <1>2
  <2>2. \A c : LaneWrites(effects, c) =
          {p \in {write} \X (1..4) : p[2] \in DOMAIN p[1].value /\ Cell(p[1].operand, p[2] - 1) = c}
    BY <2>1, Zenon DEF LaneWrites
  <2>3. \A p : p \in {write} \X (1..4) <=> \E k \in 1..4 : p = <<write, k>>
    OBVIOUS
  <2>4. \A k : <<write, k>>[1] = write /\ <<write, k>>[2] = k
    OBVIOUS
  <2>5. 1..n \subseteq 1..4 /\ DOMAIN write.value = 1..n
    BY <1>1 DEF value
  <2>6. \A c, k : k \in 1..4 => (<<write, k>> \in LaneWrites(effects, c) <=> k \in 1..n /\ Cell(operands[1], k - 1) = c)
    BY <1>1, <2>2, <2>3, <2>4, <2>5
  <2> QED
    BY <2>2, <2>3, <2>5, <2>6
<1>5. \A l \in 0..(n - 1) : Cell(operands[1], l)[2] = d + 4 * l
  BY DEF Cell
<1> DEFINE Now(x) == IF RegisterWrites(effects, x) = {} THEN m.xmm[x]
                     ELSE LET v == (CHOOSE e \in RegisterWrites(effects, x) : TRUE).value
                          IN [k \in DOMAIN v |-> Term(m, operands, v[k])]
           Cellwise(c) == IF LaneWrites(effects, c) = {} THEN m.mem[c]
                          ELSE LET p == CHOOSE q \in LaneWrites(effects, c) : TRUE
                               IN Term(m, operands, p[1].value[p[2]])
           Stored(c) == IF \E l \in 0..(n - 1) : c = Cell(operands[1], l)
                        THEN Term(m, operands, value[1 + (c[2] - d) \div 4]) ELSE m.mem[c]
<1>6. ASSUME NEW x PROVE Now(x) = m.xmm[x]
  BY <1>3
<1>7. ASSUME NEW c PROVE Cellwise(c) = Stored(c)
  <2>1. CASE \E l \in 0..(n - 1) : c = Cell(operands[1], l)
    <3>1. PICK l \in 0..(n - 1) : c = Cell(operands[1], l)
      BY <2>1
    <3>2. l + 1 \in 1..n /\ (l + 1) - 1 = l
      OBVIOUS
    <3>3. <<write, l + 1>> \in LaneWrites(effects, c)
      BY <1>4, <3>1, <3>2
    <3>4. PICK p : p \in LaneWrites(effects, c) /\ p = CHOOSE q \in LaneWrites(effects, c) : TRUE
      BY <3>3, Zenon
    <3>5. PICK k \in 1..n : p = <<write, k>> /\ Cell(operands[1], k - 1) = c
      BY <1>4, <3>4
    <3>6. k - 1 \in 0..(n - 1)
      OBVIOUS
    <3>7. c[2] = d + 4 * l /\ c[2] = d + 4 * (k - 1)
      BY <1>5, <3>1, <3>5, <3>6
    <3>8. k = 1 + (c[2] - d) \div 4
      BY <3>7
    <3>9. p[1].value[p[2]] = value[k]
      BY <1>1, <3>5
    <3> QED
      BY <2>1, <3>3, <3>4, <3>8, <3>9, Zenon
  <2>2. CASE ~ \E l \in 0..(n - 1) : c = Cell(operands[1], l)
    <3>1. \A k \in 1..n : k - 1 \in 0..(n - 1)
      OBVIOUS
    <3>2. LaneWrites(effects, c) = {}
      BY <1>4, <2>2, <3>1
    <3> QED
      BY <2>2, <3>2
  <2> QED
    BY <2>1, <2>2
<1>8. Execute(m, operands, effects) = [xmm |-> [x \in XmmNames |-> Now(x)], mem |-> [c \in Cells |-> Cellwise(c)]]
  BY Zenon DEF Execute
<1> HIDE DEF Now, Cellwise, Stored
<1>9. Execute(m, operands, effects) = [xmm |-> [x \in XmmNames |-> m.xmm[x]], mem |-> [c \in Cells |-> Stored(c)]]
  BY <1>6, <1>7, <1>8
<1> QED
  BY <1>9, Zenon DEF effects, value, Stored, CellsGet

-----------------------------------------------------------------------------
(* What the provider says of an instruction, and the machine it describes. *)
(* The operation of the architecture's table is the one the provider finds. *)
Operation(m) == (CHOOSE q \in ArithmeticOf(m) : TRUE)[1]

LEMMA ClassesDiffer ==
  /\ PackedBinaries \cap (ScalarBinaries \cup PackedUnaries \cup ScalarUnaries) = {}
  /\ ScalarBinaries \cap (PackedUnaries \cup ScalarUnaries) = {} /\ PackedUnaries \cap ScalarUnaries = {}
  /\ Arithmetics \cap {"movaps", "movups", "movss", "shufps", "unpcklps", "unpckhps", ""} = {}
BY SMTT(30) DEF Arithmetics, PackedBinaries, ScalarBinaries, PackedUnaries, ScalarUnaries

LEMMA OperationsPlain ==
  \A op \in DOMAIN BinaryOperation \cup DOMAIN UnaryOperation : op # "copy" /\ op # "zero"
BY DEF BinaryOperation, UnaryOperation

LEMMA ArithmeticMeans ==
  ASSUME NEW m
  PROVE  /\ m \in PackedBinaries \cup ScalarBinaries =>
              Operation(m) = OperationIn(BinaryOperation, m) /\ Operation(m) \notin OneSource
         /\ m \in PackedUnaries \cup ScalarUnaries =>
              Operation(m) = OperationIn(UnaryOperation, m) /\ Operation(m) \in OneSource
         /\ m \in Arithmetics => Operation(m) # "copy" /\ Operation(m) # "zero"
         /\ (\E p \in ArithmeticOf(m) : p[2] = m) <=> m \in PackedBinaries \cup PackedUnaries
         /\ (\E p \in ArithmeticOf(m) : p[3] = m) <=> m \in ScalarBinaries \cup ScalarUnaries
<1>1. ASSUME NEW p \in ArithmeticOf(m)
      PROVE  /\ m \in PackedBinaries \cup ScalarBinaries =>
                  p[1] = OperationIn(BinaryOperation, m) /\ p[1] \notin OneSource
             /\ m \in PackedUnaries \cup ScalarUnaries =>
                  p[1] = OperationIn(UnaryOperation, m) /\ p[1] \in OneSource
             /\ p[1] # "copy" /\ p[1] # "zero"
             /\ p[2] = m => m \in PackedBinaries \cup PackedUnaries
             /\ p[3] = m => m \in ScalarBinaries \cup ScalarUnaries
             /\ p[2] = m \/ p[3] = m
  <2>1. p \in Arithmetic /\ (m = p[2] \/ m = p[3]) /\ m # ""
    BY DEF ArithmeticOf
  <2>2. CASE BinaryRow(p[1], p[2], p[3])
    <3>1. m \in BinaryOperation[p[1]] /\ p[1] \in DOMAIN BinaryOperation /\ p[1] \notin OneSource
      BY <2>1, <2>2 DEF BinaryRow
    <3>2. p[1] = OperationIn(BinaryOperation, m)
      BY <3>1, OperationsNamed
    <3> QED
      BY <2>1, <2>2, <3>1, <3>2, OperationsPlain, ClassesDiffer DEF BinaryRow
  <2>3. CASE UnaryRow(p[1], p[2], p[3])
    <3>1. m \in UnaryOperation[p[1]] /\ p[1] \in DOMAIN UnaryOperation /\ p[1] \in OneSource
      BY <2>1, <2>3 DEF UnaryRow
    <3>2. p[1] = OperationIn(UnaryOperation, m)
      BY <3>1, OperationsNamed
    <3> QED
      BY <2>1, <2>3, <3>1, <3>2, OperationsPlain, ClassesDiffer DEF UnaryRow
  <2> QED
    BY <2>1, <2>2, <2>3, ArithmeticRows
<1>2. m \in Arithmetics => \E p \in ArithmeticOf(m) : Operation(m) = p[1]
  BY ArithmeticNames DEF Operation
<1>3. m \in Arithmetics => (\E p \in ArithmeticOf(m) : p[2] = m \/ p[3] = m)
  BY <1>1, <1>2
<1> QED
  BY <1>1, <1>2, <1>3, ClassesDiffer DEF Arithmetics
-----------------------------------------------------------------------------
(* What the operands of an effect hold: the lanes of the destination and   *)
(* of the source, of the source as far as top.                             *)
Holds(m, operands, d, s, top) ==
  /\ \A l \in 0..3 : ReadLane(m, operands[1], l) = d[l + 1]
  /\ \A l \in 0..top : ReadLane(m, operands[2], l) = s[l + 1]

LEMMA TermsAre ==
  ASSUME NEW m, NEW operands, NEW d, NEW s, NEW top, Holds(m, operands, d, s, top)
  PROVE  /\ \A l \in 0..3 : Term(m, operands, CopyLane(OldLane(l))) = d[l + 1]
         /\ \A l \in 0..top : Term(m, operands, CopyLane(SourceLane(l))) = s[l + 1]
         /\ Term(m, operands, ZeroLane) = <<"zero">>
         /\ \A op, l : op # "copy" /\ op # "zero" /\ l \in 0..top =>
              /\ op \in OneSource =>
                   Term(m, operands, UnaryLane(op, l)) = Compute(op, d[l + 1], s[l + 1])
              /\ op \notin OneSource /\ l \in 0..3 =>
                   Term(m, operands, BinaryLane(op, l)) = Compute(op, d[l + 1], s[l + 1])
<1>1. \A l \in 0..3 : InputTerm(m, operands, OldLane(l)) = d[l + 1]
  <2> TAKE l \in 0..3
  <2>1. OldLane(l)[1] = "old" /\ OldLane(l)[2] = l
    BY DEF OldLane
  <2> QED
    BY <2>1 DEF InputTerm, Holds
<1>2. \A l \in 0..top : InputTerm(m, operands, SourceLane(l)) = s[l + 1]
  <2> TAKE l \in 0..top
  <2>1. SourceLane(l)[1] # "old" /\ SourceLane(l)[2] = l
    BY DEF SourceLane
  <2> QED
    BY <2>1 DEF InputTerm, Holds
<1>3. /\ \A x : CopyLane(x).operation = "copy" /\ CopyLane(x).inputs[1] = x
      /\ ZeroLane.operation = "zero"
      /\ \A op, l : UnaryLane(op, l).operation = op /\ UnaryLane(op, l).inputs = <<SourceLane(l)>>
      /\ \A op, l : BinaryLane(op, l).operation = op /\ BinaryLane(op, l).inputs = <<OldLane(l), SourceLane(l)>>
  BY DEF CopyLane, ZeroLane, UnaryLane, BinaryLane, Lane
<1>4. \A lane : /\ lane.operation = "copy" => Term(m, operands, lane) = InputTerm(m, operands, lane.inputs[1])
                /\ lane.operation = "zero" => Term(m, operands, lane) = <<"zero">>
                /\ lane.operation # "copy" /\ lane.operation # "zero" =>
                     Term(m, operands, lane) = <<lane.operation>>
                       \o [k \in DOMAIN lane.inputs |-> InputTerm(m, operands, lane.inputs[k])]
  BY DEF Term
<1>5. \A x : [k \in DOMAIN <<x>> |-> InputTerm(m, operands, <<x>>[k])] = <<InputTerm(m, operands, x)>>
  OBVIOUS
<1>6. \A x, y : [k \in DOMAIN <<x, y>> |-> InputTerm(m, operands, <<x, y>>[k])]
                  = <<InputTerm(m, operands, x), InputTerm(m, operands, y)>>
  OBVIOUS
<1>7. ASSUME NEW op, op # "copy", op # "zero", NEW l \in 0..top
      PROVE  Term(m, operands, UnaryLane(op, l)) = <<op, s[l + 1]>>
  <2> DEFINE lane == UnaryLane(op, l)
  <2>3. lane.operation = op /\ lane.inputs = <<SourceLane(l)>>
    BY <1>3
  <2>4. Term(m, operands, lane)
          = <<op>> \o [k \in DOMAIN <<SourceLane(l)>> |-> InputTerm(m, operands, <<SourceLane(l)>>[k])]
    <3> HIDE DEF lane
    <3>1. lane.operation # "copy" /\ lane.operation # "zero"
      BY <1>7, <2>3
    <3>2. Term(m, operands, lane) = <<lane.operation>>
            \o [k \in DOMAIN lane.inputs |-> InputTerm(m, operands, lane.inputs[k])]
      BY <1>4, <3>1
    <3> QED
      BY <2>3, <3>2
  <2>1. Term(m, operands, UnaryLane(op, l)) = <<op>> \o <<InputTerm(m, operands, SourceLane(l))>>
    BY <1>5, <2>4
  <2>2. Term(m, operands, UnaryLane(op, l)) = <<op>> \o <<s[l + 1]>>
    BY <1>2, <2>1, Zenon
  <2> QED
    BY <2>2, ConcatOnes
<1>14. \A op, x, y : /\ op \in OneSource => Compute(op, x, y) = <<op, y>>
                     /\ op \notin OneSource => Compute(op, x, y) = <<op, x, y>>
  BY DEF Compute
<1>8. ASSUME NEW op, op # "copy", op # "zero", NEW l \in 0..3, l \in 0..top
      PROVE  Term(m, operands, BinaryLane(op, l)) = <<op, d[l + 1], s[l + 1]>>
  <2> DEFINE lane == BinaryLane(op, l)  both == <<OldLane(l), SourceLane(l)>>
  <2>3. lane.operation = op /\ lane.inputs = both
    BY <1>3
  <2>4. Term(m, operands, lane)
          = <<op>> \o [k \in DOMAIN both |-> InputTerm(m, operands, both[k])]
    <3> HIDE DEF lane, both
    <3>1. lane.operation # "copy" /\ lane.operation # "zero"
      BY <1>8, <2>3
    <3>2. Term(m, operands, lane) = <<lane.operation>>
            \o [k \in DOMAIN lane.inputs |-> InputTerm(m, operands, lane.inputs[k])]
      BY <1>4, <3>1
    <3> QED
      BY <2>3, <3>2
  <2>1. Term(m, operands, BinaryLane(op, l))
          = <<op>> \o <<InputTerm(m, operands, OldLane(l)), InputTerm(m, operands, SourceLane(l))>>
    BY <1>6, <2>4
  <2>2. Term(m, operands, BinaryLane(op, l)) = <<op>> \o <<d[l + 1], s[l + 1]>>
    BY <1>1, <1>2, <1>8, <2>1, Zenon
  <2> QED
    BY <2>2, ConcatOnes
<1>9. ASSUME NEW x PROVE Term(m, operands, CopyLane(x)) = InputTerm(m, operands, x)
  <2> DEFINE lane == CopyLane(x)
  <2>1. lane.operation = "copy" /\ lane.inputs[1] = x
    BY <1>3
  <2> HIDE DEF lane
  <2>2. Term(m, operands, lane) = InputTerm(m, operands, x)
    BY <1>4, <2>1
  <2> QED
    BY <2>2 DEF lane
<1>10. Term(m, operands, ZeroLane) = <<"zero">>
  BY <1>3, <1>4
<1>11. \A op, l : op # "copy" /\ op # "zero" /\ l \in 0..top /\ op \in OneSource =>
         Term(m, operands, UnaryLane(op, l)) = Compute(op, d[l + 1], s[l + 1])
  BY <1>7, <1>14, Zenon
<1>12. \A op, l : op # "copy" /\ op # "zero" /\ l \in 0..top /\ op \notin OneSource /\ l \in 0..3 =>
         Term(m, operands, BinaryLane(op, l)) = Compute(op, d[l + 1], s[l + 1])
  <2> TAKE op, l
  <2> HAVE op # "copy" /\ op # "zero" /\ l \in 0..top /\ op \notin OneSource /\ l \in 0..3
  <2>1. Term(m, operands, BinaryLane(op, l)) = <<op, d[l + 1], s[l + 1]>>
    BY <1>8
  <2> QED
    BY <1>14, <2>1, Zenon
<1>13. /\ \A l \in 0..3 : Term(m, operands, CopyLane(OldLane(l))) = d[l + 1]
       /\ \A l \in 0..top : Term(m, operands, CopyLane(SourceLane(l))) = s[l + 1]
  BY <1>1, <1>2, <1>9, Zenon
<1> QED
  BY <1>10, <1>11, <1>12, <1>13, Zenon

-----------------------------------------------------------------------------
(* What the architecture makes of the destination, class by class.         *)
FourLanes(d) == d = <<d[1], d[2], d[3], d[4]>>

Computed(m, d, s, l) == Compute(Operation(m), d[l], s[l])
LaneChosen(d, s, immediate, l) ==
  (IF l <= 2 THEN d ELSE s)[1 + ((immediate \div <<1, 4, 16, 64>>[l]) % 4)]
LoadedFor(m, d, s, immediate, kind, lanes) == Loaded(m, d, s, immediate, kind = "memory") = lanes

LEMMA LoadedIs ==
  ASSUME NEW m, NEW d, NEW s, NEW immediate, NEW kind
  PROVE  /\ m \in PackedBinaries \cup PackedUnaries =>
              LoadedFor(m, d, s, immediate, kind, [l \in 1..4 |-> Computed(m, d, s, l)])
         /\ m \in ScalarBinaries \cup ScalarUnaries =>
              LoadedFor(m, d, s, immediate, kind, [d EXCEPT ![1] = Computed(m, d, s, 1)])
         /\ m \in {"movaps", "movups"} => LoadedFor(m, d, s, immediate, kind, s)
         /\ m = "movss" /\ kind = "memory" =>
              LoadedFor(m, d, s, immediate, kind, <<s[1], <<"zero">>, <<"zero">>, <<"zero">> >>)
         /\ m = "movss" /\ kind # "memory" => LoadedFor(m, d, s, immediate, kind, [d EXCEPT ![1] = s[1]])
         /\ m = "shufps" =>
              LoadedFor(m, d, s, immediate, kind, [l \in 1..4 |-> LaneChosen(d, s, immediate, l)])
         /\ m = "unpcklps" => LoadedFor(m, d, s, immediate, kind, <<d[1], s[1], d[2], s[2]>>)
         /\ m = "unpckhps" => LoadedFor(m, d, s, immediate, kind, <<d[3], s[3], d[4], s[4]>>)
<1> DEFINE loaded == Loaded(m, d, s, immediate, kind = "memory")
           packed == \E p \in ArithmeticOf(m) : p[2] = m
           scalar == \E p \in ArithmeticOf(m) : p[3] = m
<1>1. packed <=> m \in PackedBinaries \cup PackedUnaries
  BY ArithmeticMeans
<1>2. scalar <=> m \in ScalarBinaries \cup ScalarUnaries
  BY ArithmeticMeans
<1>3. /\ packed => ~scalar /\ m \notin {"movaps", "movups", "movss", "shufps", "unpcklps", "unpckhps"}
      /\ scalar => ~packed /\ m \notin {"movaps", "movups", "movss", "shufps", "unpcklps", "unpckhps"}
  BY <1>1, <1>2, ClassesDiffer DEF Arithmetics
<1>4. ASSUME packed PROVE loaded = [l \in 1..4 |-> Computed(m, d, s, l)]
  <2> HIDE DEF packed, scalar
  <2> QED
    BY <1>3, <1>4 DEF Loaded, Operation, Computed, packed, scalar
<1>5. ASSUME scalar PROVE loaded = [d EXCEPT ![1] = Computed(m, d, s, 1)]
  <2> HIDE DEF packed, scalar
  <2> QED
    BY <1>3, <1>5 DEF Loaded, Operation, Computed, packed, scalar
<1>6. ASSUME ~packed, ~scalar
      PROVE  /\ m \in {"movaps", "movups"} => loaded = s
             /\ m = "movss" /\ kind = "memory" => loaded = <<s[1], <<"zero">>, <<"zero">>, <<"zero">> >>
             /\ m = "movss" /\ kind # "memory" => loaded = [d EXCEPT ![1] = s[1]]
             /\ m = "shufps" => loaded = [l \in 1..4 |-> LaneChosen(d, s, immediate, l)]
             /\ m = "unpcklps" => loaded = <<d[1], s[1], d[2], s[2]>>
             /\ m = "unpckhps" => loaded = <<d[3], s[3], d[4], s[4]>>
  <2>1. m \in {"movaps", "movups"} => loaded = s
    BY <1>6 DEF Loaded
  <2>2. m = "movss" /\ kind = "memory" => loaded = <<s[1], <<"zero">>, <<"zero">>, <<"zero">> >>
    BY <1>6 DEF Loaded
  <2>3. m = "movss" /\ kind # "memory" => loaded = [d EXCEPT ![1] = s[1]]
    BY <1>6 DEF Loaded
  <2>4. m = "shufps" => loaded = [l \in 1..4 |-> LaneChosen(d, s, immediate, l)]
    BY <1>6 DEF Loaded, LaneChosen
  <2>5. /\ m = "unpcklps" => loaded = <<d[1], s[1], d[2], s[2]>>
        /\ m = "unpckhps" => loaded = <<d[3], s[3], d[4], s[4]>>
    BY <1>6 DEF Loaded
  <2> QED
    BY <2>1, <2>2, <2>3, <2>4, <2>5
<1> HIDE DEF loaded, packed, scalar
<1>7. m \in {"movaps", "movups", "movss", "shufps", "unpcklps", "unpckhps"} => ~packed /\ ~scalar
  BY <1>3
<1>8. /\ m \in {"movaps", "movups"} => loaded = s
      /\ m = "movss" /\ kind = "memory" => loaded = <<s[1], <<"zero">>, <<"zero">>, <<"zero">> >>
      /\ m = "movss" /\ kind # "memory" => loaded = [d EXCEPT ![1] = s[1]]
      /\ m = "shufps" => loaded = [l \in 1..4 |-> LaneChosen(d, s, immediate, l)]
      /\ m = "unpcklps" => loaded = <<d[1], s[1], d[2], s[2]>>
      /\ m = "unpckhps" => loaded = <<d[3], s[3], d[4], s[4]>>
  BY <1>6, <1>7
<1>9. /\ m \in PackedBinaries \cup PackedUnaries => loaded = [l \in 1..4 |-> Computed(m, d, s, l)]
      /\ m \in ScalarBinaries \cup ScalarUnaries => loaded = [d EXCEPT ![1] = Computed(m, d, s, 1)]
  BY <1>1, <1>2, <1>4, <1>5
<1> QED
  BY <1>8, <1>9, Zenon DEF loaded, LoadedFor

LEMMA TermsOfFour ==
  ASSUME NEW m, NEW operands, NEW a, NEW b, NEW c, NEW e
  PROVE  Terms(m, operands, <<a, b, c, e>>)
           = <<Term(m, operands, a), Term(m, operands, b), Term(m, operands, c), Term(m, operands, e)>>
<1> DEFINE v == <<a, b, c, e>>
<1>1. DOMAIN v = 1..4 /\ v[1] = a /\ v[2] = b /\ v[3] = c /\ v[4] = e
  OBVIOUS
<1> HIDE DEF v
<1>2. [k \in 1..4 |-> Term(m, operands, v[k])]
        = <<Term(m, operands, a), Term(m, operands, b), Term(m, operands, c), Term(m, operands, e)>>
  BY <1>1
<1> QED
  BY <1>1, <1>2 DEF Terms, v

LEMMA SelectorMeans ==
  ASSUME NEW bits \in Nat, NEW k \in 0..3
  PROVE  Selector(bits, k) = (bits \div <<1, 4, 16, 64>>[k + 1]) % 4
<1>1. PICK h \in Nat, r \in 0..255 : bits = 256 * h + r /\ bits % 256 = r
  <2>1. bits = 256 * (bits \div 256) + (bits % 256) /\ bits \div 256 \in Nat /\ bits % 256 \in 0..255
    OBVIOUS
  <2> QED
    BY <2>1
<1>2. (r \div 1) % 4 = (bits \div 1) % 4
  BY <1>1
<1>3. (r \div 4) % 4 = (bits \div 4) % 4
  BY <1>1
<1>4. (r \div 16) % 4 = (bits \div 16) % 4
  BY <1>1
<1>5. (r \div 64) % 4 = (bits \div 64) % 4
  BY <1>1
<1>6. <<1, 4, 16, 64>>[k + 1] \in {1, 4, 16, 64}
  OBVIOUS
<1> QED
  BY <1>1, <1>2, <1>3, <1>4, <1>5, <1>6 DEF Selector

(* What a form that loads writes is what the architecture loads: d and s   *)
(* are the lanes its operands hold.                                        *)
LoadsRight(form, st, operands, d, s, immediate) ==
  Terms(st, operands, Value(form, operands))
    = Loaded(form.mnemonic, d, s, immediate, operands[2].kind = "memory")

LEMMA LoadsBy ==
  ASSUME NEW form, NEW st, NEW operands, NEW d, NEW s, NEW immediate, NEW value, NEW lanes,
         Value(form, operands) = value, Terms(st, operands, value) = lanes,
         LoadedFor(form.mnemonic, d, s, immediate, operands[2].kind, lanes)
  PROVE  LoadsRight(form, st, operands, d, s, immediate)
BY Zenon DEF LoadsRight, LoadedFor

LEMMA PackedLoads ==
  ASSUME NEW form, NEW st, NEW operands, NEW d, NEW s, NEW immediate,
         form.mnemonic \in PackedBinaries \cup PackedUnaries,
         Holds(st, operands, d, s, 3)
  PROVE  LoadsRight(form, st, operands, d, s, immediate)
<1> DEFINE m == form.mnemonic  op == Operation(m)
<1>1. op # "copy" /\ op # "zero"
  BY ArithmeticMeans DEF Arithmetics
<1>2. LoadedFor(m, d, s, immediate, operands[2].kind,
                <<Compute(op, d[1], s[1]), Compute(op, d[2], s[2]), Compute(op, d[3], s[3]), Compute(op, d[4], s[4])>>)
  <2>1. LoadedFor(m, d, s, immediate, operands[2].kind, [l \in 1..4 |-> Computed(m, d, s, l)])
    BY LoadedIs
  <2>2. \A l : Computed(m, d, s, l) = Compute(op, d[l], s[l])
    BY DEF Computed
  <2> HIDE DEF m, op
  <2>3. [l \in 1..4 |-> Computed(m, d, s, l)]
          = <<Compute(op, d[1], s[1]), Compute(op, d[2], s[2]), Compute(op, d[3], s[3]), Compute(op, d[4], s[4])>>
    BY <2>2
  <2> QED
    BY <2>1, <2>3, Zenon
<1>3. 0 \in 0..3 /\ 1 \in 0..3 /\ 2 \in 0..3 /\ 3 \in 0..3 /\ 0 + 1 = 1 /\ 1 + 1 = 2 /\ 2 + 1 = 3 /\ 3 + 1 = 4
  OBVIOUS
<1>4. CASE m \in PackedBinaries
  <2>1. op = OperationIn(BinaryOperation, m) /\ op \notin OneSource
    BY <1>4, ArithmeticMeans
  <2>2. Value(form, operands) = PackedBinary(op)
    BY <1>4, <2>1, ArithmeticValues DEF ValueFor
  <2> HIDE DEF op, m
  <2>3. Value(form, operands) = <<BinaryLane(op, 0), BinaryLane(op, 1), BinaryLane(op, 2), BinaryLane(op, 3)>>
    BY <2>2 DEF PackedBinary
  <2>4. \A l \in 0..3 : Term(st, operands, BinaryLane(op, l)) = Compute(op, d[l + 1], s[l + 1])
    BY <1>1, <2>1, TermsAre
  <2>5. Terms(st, operands, Value(form, operands))
          = <<Compute(op, d[1], s[1]), Compute(op, d[2], s[2]), Compute(op, d[3], s[3]), Compute(op, d[4], s[4])>>
    BY <1>3, <2>3, <2>4, TermsOfFour
  <2> QED
    BY <1>2, <2>5, LoadsBy DEF m
<1>5. CASE m \in PackedUnaries
  <2>1. op = OperationIn(UnaryOperation, m) /\ op \in OneSource
    BY <1>5, ArithmeticMeans
  <2>2. Value(form, operands) = PackedUnary(op)
    BY <1>5, <2>1, ArithmeticValues DEF ValueFor
  <2> HIDE DEF op, m
  <2>3. Value(form, operands) = <<UnaryLane(op, 0), UnaryLane(op, 1), UnaryLane(op, 2), UnaryLane(op, 3)>>
    BY <2>2 DEF PackedUnary
  <2>4. \A l \in 0..3 : Term(st, operands, UnaryLane(op, l)) = Compute(op, d[l + 1], s[l + 1])
    BY <1>1, <2>1, TermsAre
  <2>5. Terms(st, operands, Value(form, operands))
          = <<Compute(op, d[1], s[1]), Compute(op, d[2], s[2]), Compute(op, d[3], s[3]), Compute(op, d[4], s[4])>>
    BY <1>3, <2>3, <2>4, TermsOfFour
  <2> QED
    BY <1>2, <2>5, LoadsBy DEF m
<1> QED
  BY <1>4, <1>5

(* The first lane replaced.                                                *)
LEMMA FirstReplaced ==
  ASSUME NEW st, NEW operands, NEW d, NEW s, NEW top, Holds(st, operands, d, s, top),
         FourLanes(d), NEW lane
  PROVE  Terms(st, operands, OnlyFirst(lane)) = [d EXCEPT ![1] = Term(st, operands, lane)]
<1> DEFINE x == Term(st, operands, lane)
<1> HIDE DEF x
<1>1. 1 \in 0..3 /\ 2 \in 0..3 /\ 3 \in 0..3 /\ 1 + 1 = 2 /\ 2 + 1 = 3 /\ 3 + 1 = 4
  OBVIOUS
<1>2. /\ Term(st, operands, CopyLane(OldLane(1))) = d[2] /\ Term(st, operands, CopyLane(OldLane(2))) = d[3]
      /\ Term(st, operands, CopyLane(OldLane(3))) = d[4]
  BY <1>1, TermsAre
<1>3. Terms(st, operands, OnlyFirst(lane)) = <<x, d[2], d[3], d[4]>>
  BY <1>2, TermsOfFour DEF OnlyFirst, x
<1>4. [d EXCEPT ![1] = x] = <<x, d[2], d[3], d[4]>>
  BY DEF FourLanes
<1> QED
  BY <1>3, <1>4 DEF x

LEMMA ScalarLoads ==
  ASSUME NEW form, NEW st, NEW operands, NEW d, NEW s, NEW immediate,
         form.mnemonic \in ScalarBinaries \cup ScalarUnaries,
         Holds(st, operands, d, s, 0), FourLanes(d)
  PROVE  LoadsRight(form, st, operands, d, s, immediate)
<1> DEFINE m == form.mnemonic  op == Operation(m)
<1>1. op # "copy" /\ op # "zero"
  BY ArithmeticMeans DEF Arithmetics
<1>2. LoadedFor(m, d, s, immediate, operands[2].kind, [d EXCEPT ![1] = Compute(op, d[1], s[1])])
  BY LoadedIs DEF Computed
<1>3. 0 \in 0..3 /\ 0 \in 0..0 /\ 0 + 1 = 1
  OBVIOUS
<1>4. CASE m \in ScalarBinaries
  <2>1. op = OperationIn(BinaryOperation, m) /\ op \notin OneSource
    BY <1>4, ArithmeticMeans
  <2>2. Value(form, operands) = OnlyFirst(PackedBinary(op)[1])
    BY <1>4, <2>1, ArithmeticValues DEF ValueFor
  <2> HIDE DEF op, m
  <2>3. PackedBinary(op)[1] = BinaryLane(op, 0)
    BY <1>1, PackedIs
  <2>4. Term(st, operands, BinaryLane(op, 0)) = Compute(op, d[1], s[1])
    BY <1>1, <1>3, <2>1, TermsAre
  <2> QED
    <3>1. Terms(st, operands, Value(form, operands)) = [d EXCEPT ![1] = Compute(op, d[1], s[1])]
      BY <2>2, <2>3, <2>4, FirstReplaced
    <3> QED
      BY <1>2, <3>1, LoadsBy DEF m
<1>5. CASE m \in ScalarUnaries
  <2>1. op = OperationIn(UnaryOperation, m) /\ op \in OneSource
    BY <1>5, ArithmeticMeans
  <2>2. Value(form, operands) = OnlyFirst(PackedUnary(op)[1])
    BY <1>5, <2>1, ArithmeticValues DEF ValueFor
  <2> HIDE DEF op, m
  <2>3. PackedUnary(op)[1] = UnaryLane(op, 0)
    BY <1>1, PackedIs
  <2>4. Term(st, operands, UnaryLane(op, 0)) = Compute(op, d[1], s[1])
    BY <1>1, <1>3, <2>1, TermsAre
  <2> QED
    <3>1. Terms(st, operands, Value(form, operands)) = [d EXCEPT ![1] = Compute(op, d[1], s[1])]
      BY <2>2, <2>3, <2>4, FirstReplaced
    <3> QED
      BY <1>2, <3>1, LoadsBy DEF m
<1> QED
  BY <1>4, <1>5

LEMMA MoveLoads ==
  ASSUME NEW form, NEW st, NEW operands, NEW d, NEW s, NEW immediate,
         form.mnemonic \in {"movaps", "movups"}, Holds(st, operands, d, s, 3), FourLanes(s)
  PROVE  LoadsRight(form, st, operands, d, s, immediate)
<1>1. Value(form, operands) = FullCopy
  BY MoveValues DEF ValueFor
<1>2. FullCopy = <<CopyLane(SourceLane(0)), CopyLane(SourceLane(1)), CopyLane(SourceLane(2)), CopyLane(SourceLane(3))>>
  BY DEF FullCopy
<1>3. 0 \in 0..3 /\ 1 \in 0..3 /\ 2 \in 0..3 /\ 3 \in 0..3 /\ 0 + 1 = 1 /\ 1 + 1 = 2 /\ 2 + 1 = 3 /\ 3 + 1 = 4
  OBVIOUS
<1>4. Terms(st, operands, FullCopy) = <<s[1], s[2], s[3], s[4]>>
  BY <1>2, <1>3, TermsAre, TermsOfFour
<1>5. LoadedFor(form.mnemonic, d, s, immediate, operands[2].kind, s)
  BY LoadedIs
<1> QED
  BY <1>1, <1>4, <1>5, LoadsBy DEF FourLanes

LEMMA MovssLoads ==
  ASSUME NEW form, NEW st, NEW operands, NEW d, NEW s, NEW immediate,
         form.mnemonic = "movss", form.variant = "load", Holds(st, operands, d, s, 0), FourLanes(d)
  PROVE  LoadsRight(form, st, operands, d, s, immediate)
<1>1. 0 \in 0..0 /\ 0 + 1 = 1
  OBVIOUS
<1>2. Term(st, operands, CopyLane(SourceLane(0))) = s[1] /\ Term(st, operands, ZeroLane) = <<"zero">>
  BY <1>1, TermsAre
<1>3. CASE operands[2].kind = "memory"
  <2>1. Value(form, operands) = <<CopyLane(SourceLane(0)), ZeroLane, ZeroLane, ZeroLane>>
    BY <1>3, MoveValues, Zenon DEF ValueFor, MovssLoad
  <2>2. Terms(st, operands, Value(form, operands))
          = <<Term(st, operands, CopyLane(SourceLane(0))), Term(st, operands, ZeroLane),
              Term(st, operands, ZeroLane), Term(st, operands, ZeroLane)>>
    BY <2>1, TermsOfFour
  <2>3. Terms(st, operands, Value(form, operands)) = <<s[1], <<"zero">>, <<"zero">>, <<"zero">> >>
    BY <1>2, <2>2, Zenon
  <2>4. LoadedFor(form.mnemonic, d, s, immediate, operands[2].kind, <<s[1], <<"zero">>, <<"zero">>, <<"zero">> >>)
    BY <1>3, LoadedIs, Zenon
  <2> QED
    BY <2>3, <2>4, LoadsBy, Zenon
<1>4. CASE operands[2].kind # "memory"
  <2>1. Value(form, operands) = OnlyFirst(CopyLane(SourceLane(0)))
    BY <1>4, MoveValues, Zenon DEF ValueFor, MovssLoad
  <2>2. Terms(st, operands, Value(form, operands)) = [d EXCEPT ![1] = s[1]]
    BY <1>2, <2>1, FirstReplaced
  <2>3. LoadedFor(form.mnemonic, d, s, immediate, operands[2].kind, [d EXCEPT ![1] = s[1]])
    BY <1>4, LoadedIs, Zenon
  <2> QED
    BY <2>2, <2>3, LoadsBy, Zenon
<1> QED
  BY <1>3, <1>4

LEMMA UnpackLoads ==
  ASSUME NEW form, NEW st, NEW operands, NEW d, NEW s, NEW immediate,
         form.mnemonic \in Unpacks, Holds(st, operands, d, s, 3)
  PROVE  LoadsRight(form, st, operands, d, s, immediate)
<1>1. 0 \in 0..3 /\ 1 \in 0..3 /\ 2 \in 0..3 /\ 3 \in 0..3 /\ 0 + 1 = 1 /\ 1 + 1 = 2 /\ 2 + 1 = 3 /\ 3 + 1 = 4
  OBVIOUS
<1>2. CASE form.mnemonic = "unpcklps"
  <2>1. Value(form, operands) = Unpacked(0)
    BY <1>2, ShuffleValues DEF ValueFor
  <2>2. Unpacked(0) = <<CopyLane(OldLane(0)), CopyLane(SourceLane(0)), CopyLane(OldLane(1)), CopyLane(SourceLane(1))>>
    BY DEF Unpacked
  <2>3. Terms(st, operands, Unpacked(0)) = <<d[1], s[1], d[2], s[2]>>
    BY <1>1, <2>2, TermsAre, TermsOfFour
  <2>4. LoadedFor(form.mnemonic, d, s, immediate, operands[2].kind, <<d[1], s[1], d[2], s[2]>>)
    BY <1>2, LoadedIs
  <2> QED
    BY <2>1, <2>3, <2>4, LoadsBy
<1>3. CASE form.mnemonic = "unpckhps"
  <2>1. Value(form, operands) = Unpacked(2)
    BY <1>3, ShuffleValues DEF ValueFor
  <2>2. Unpacked(2) = <<CopyLane(OldLane(2)), CopyLane(SourceLane(2)), CopyLane(OldLane(3)), CopyLane(SourceLane(3))>>
    BY DEF Unpacked
  <2>3. Terms(st, operands, Unpacked(2)) = <<d[3], s[3], d[4], s[4]>>
    BY <1>1, <2>2, TermsAre, TermsOfFour
  <2>4. LoadedFor(form.mnemonic, d, s, immediate, operands[2].kind, <<d[3], s[3], d[4], s[4]>>)
    BY <1>3, LoadedIs
  <2> QED
    BY <2>1, <2>3, <2>4, LoadsBy
<1> QED
  BY <1>2, <1>3 DEF Unpacks

LEMMA ShufpsLoads ==
  ASSUME NEW form, NEW st, NEW operands, NEW d, NEW s, NEW immediate \in Nat,
         form.mnemonic = "shufps", operands[3].bits = immediate, Holds(st, operands, d, s, 3)
  PROVE  LoadsRight(form, st, operands, d, s, immediate)
<1> DEFINE at(k) == Selector(immediate, k)
<1>1. Value(form, operands) = Shufps(immediate)
  BY ShuffleValues DEF ValueFor
<1>2. \A k \in 0..3 : at(k) \in 0..3 /\ at(k) = (immediate \div <<1, 4, 16, 64>>[k + 1]) % 4
  BY SelectorIs, SelectorMeans
<1> HIDE DEF at
<1>3. 0 \in 0..3 /\ 1 \in 0..3 /\ 2 \in 0..3 /\ 3 \in 0..3 /\ 0 + 1 = 1 /\ 1 + 1 = 2 /\ 2 + 1 = 3 /\ 3 + 1 = 4
  OBVIOUS
<1>4. Shufps(immediate) = <<CopyLane(OldLane(at(0))), CopyLane(OldLane(at(1))),
                            CopyLane(SourceLane(at(2))), CopyLane(SourceLane(at(3)))>>
  BY DEF Shufps, at
<1>5. Terms(st, operands, Shufps(immediate))
          = <<d[at(0) + 1], d[at(1) + 1], s[at(2) + 1], s[at(3) + 1]>>
  <2>1. Terms(st, operands, Shufps(immediate))
          = <<Term(st, operands, CopyLane(OldLane(at(0)))), Term(st, operands, CopyLane(OldLane(at(1)))),
              Term(st, operands, CopyLane(SourceLane(at(2)))), Term(st, operands, CopyLane(SourceLane(at(3))))>>
    BY <1>4, TermsOfFour
  <2>2. /\ Term(st, operands, CopyLane(OldLane(at(0)))) = d[at(0) + 1]
        /\ Term(st, operands, CopyLane(OldLane(at(1)))) = d[at(1) + 1]
        /\ Term(st, operands, CopyLane(SourceLane(at(2)))) = s[at(2) + 1]
        /\ Term(st, operands, CopyLane(SourceLane(at(3)))) = s[at(3) + 1]
    BY <1>2, <1>3, TermsAre
  <2> QED
    BY <2>1, <2>2, Zenon
<1> DEFINE At(l) == LaneChosen(d, s, immediate, l)
<1>6. LoadedFor(form.mnemonic, d, s, immediate, operands[2].kind, [l \in 1..4 |-> At(l)])
  BY LoadedIs
<1>7. /\ At(1) = d[at(0) + 1] /\ At(2) = d[at(1) + 1]
      /\ At(3) = s[at(2) + 1] /\ At(4) = s[at(3) + 1]
  <2>1. /\ at(0) = (immediate \div <<1, 4, 16, 64>>[1]) % 4 /\ at(1) = (immediate \div <<1, 4, 16, 64>>[2]) % 4
        /\ at(2) = (immediate \div <<1, 4, 16, 64>>[3]) % 4 /\ at(3) = (immediate \div <<1, 4, 16, 64>>[4]) % 4
    BY <1>2, <1>3
  <2>2. \A k \in 0..3 : 1 + at(k) = at(k) + 1
    BY <1>2
  <2>3. 1 <= 2 /\ 2 <= 2 /\ ~(3 <= 2) /\ ~(4 <= 2)
    OBVIOUS
  <2>4. \A l : /\ l <= 2 => At(l) = d[1 + ((immediate \div <<1, 4, 16, 64>>[l]) % 4)]
               /\ ~(l <= 2) => At(l) = s[1 + ((immediate \div <<1, 4, 16, 64>>[l]) % 4)]
    BY DEF LaneChosen
  <2>5. 1 + at(0) = at(0) + 1 /\ 1 + at(1) = at(1) + 1 /\ 1 + at(2) = at(2) + 1 /\ 1 + at(3) = at(3) + 1
    BY <1>3, <2>2
  <2> HIDE DEF At
  <2>6. At(1) = d[1 + at(0)]
    BY <2>1, <2>3, <2>4
  <2>7. At(2) = d[1 + at(1)]
    BY <2>1, <2>3, <2>4
  <2>8. At(3) = s[1 + at(2)]
    BY <2>1, <2>3, <2>4
  <2>9. At(4) = s[1 + at(3)]
    BY <2>1, <2>3, <2>4
  <2> QED
    BY <2>5, <2>6, <2>7, <2>8, <2>9, Zenon
<1> HIDE DEF At
<1>8. [l \in 1..4 |-> At(l)] = <<At(1), At(2), At(3), At(4)>>
  OBVIOUS
<1>9. LoadedFor(form.mnemonic, d, s, immediate, operands[2].kind,
                <<d[at(0) + 1], d[at(1) + 1], s[at(2) + 1], s[at(3) + 1]>>)
  BY <1>6, <1>7, <1>8, Zenon
<1> QED
  BY <1>1, <1>5, <1>9, LoadsBy, Zenon

-----------------------------------------------------------------------------
(* What the resolver makes of an operand, and where it finds it.           *)
Refined(o, p) ==
  /\ o \in ParsedOperand /\ p.kind = o.kind
  /\ o.kind = "register" => o.name \in XmmNames /\ p.reg = o.name
  /\ o.kind = "memory" => /\ p.displacement = o.displacement /\ o.displacement \in Int
                          /\ \A l \in 0..3 : Cell(p, l) = Cell(o, l) /\ Cell(o, l) \in Cells
  /\ o.kind = "immediate" => p.bits = o.value /\ o.value \in Nat

LEMMA OperandsRefined ==
  ASSUME NEW u \in Instructions, NEW f \in Matching(u), AllResolve(u)
  PROVE  \A k \in DOMAIN u.operands : Refined(u.operands[k], ResolvedOperands(u, f)[k])
<1> SUFFICES ASSUME NEW k \in DOMAIN u.operands
             PROVE  Refined(u.operands[k], ResolvedOperands(u, f)[k])
  OBVIOUS
<1> DEFINE o == u.operands[k]  constraint == Forms[f].operands[k]  p == Resolved(o, constraint)
<1>1. o \in ParsedOperand /\ InPlay(o) /\ ResolveError(o) = "ok"
  <2>1. o \in ParsedOperand
    <3>1. u.operands \in Seq(ParsedOperand)
      BY InstructionsTyped DEF Unresolveds
    <3> HIDE DEF ParsedOperand
    <3> QED
      BY <3>1
  <2> QED
    BY <2>1, InstructionsAssumption DEF AllResolve
<1>2. ResolvedOperands(u, f)[k] = p
  BY DEF ResolvedOperands
<1>3. o.kind \in {"register", "memory", "immediate"}
  BY <1>1, ResolvableOperand
<1> HIDE DEF o, constraint
<1>4. CASE o.kind = "register"
  <2>1. o.name \in XmmNames
    BY <1>1, <1>4, ResolvableOperand DEF InPlay
  <2>2. p.kind = "register" /\ p.reg = o.name
    BY <1>4 DEF Resolved, RegisterOperand
  <2> QED
    BY <1>1, <1>2, <1>4, <2>1, <2>2 DEF Refined, o
<1>5. CASE o.kind = "memory"
  <2>1. \A l \in 0..3 : Cell(o, l) \in Cells
    BY <1>1, <1>5, ResolvableOperand DEF InPlay, Lanes
  <2>2. p.kind = "memory" /\ p.base = o.base /\ p.displacement = o.displacement
    BY <1>5 DEF Resolved, MemoryOperand
  <2>3. o.displacement \in Int
    BY <1>1, <1>5 DEF ParsedOperand
  <2>4. \A l \in 0..3 : Cell(p, l) = Cell(o, l)
    BY <2>2 DEF Cell
  <2> HIDE DEF p
  <2> QED
    BY <1>1, <1>2, <1>5, <2>1, <2>2, <2>3, <2>4 DEF Refined, o
<1>6. CASE o.kind = "immediate"
  <2>1. o.value \in Nat
    BY <1>1, <1>6 DEF ParsedOperand
  <2>2. p.kind = "immediate" /\ p.bits = o.value
    BY <1>6 DEF Resolved, ImmediateOperand
  <2> QED
    BY <1>1, <1>2, <1>6, <2>1, <2>2 DEF Refined, o
<1> QED
  BY <1>3, <1>4, <1>5, <1>6

(* Registers of four lanes.                                                *)
IsMachine(m) ==
  /\ m = [xmm |-> m.xmm, mem |-> m.mem]
  /\ m.xmm = [x \in XmmNames |-> m.xmm[x]] /\ m.mem = [c \in Cells |-> m.mem[c]]
  /\ \A x \in XmmNames : FourLanes(m.xmm[x])

LEMMA OperandsHold ==
  ASSUME NEW m, IsMachine(m), NEW target, NEW source, NEW operands, NEW mnemonic,
         Refined(target, operands[1]), Refined(source, operands[2]),
         target.kind = "register", source.kind \in {"register", "memory"}
  PROVE  /\ Holds(m, operands, m.xmm[target.name], Contents(m, source, mnemonic), 0)
         /\ ~ScalarSource(mnemonic) =>
              /\ Holds(m, operands, m.xmm[target.name], Contents(m, source, mnemonic), 3)
              /\ FourLanes(Contents(m, source, mnemonic))
<1> DEFINE d == m.xmm[target.name]  s == Contents(m, source, mnemonic)
<1>1. \A l \in 0..3 : ReadLane(m, operands[1], l) = d[l + 1]
  BY DEF Refined, ReadLane
<1>2. \A l \in 0..3 : l \in 0..3 /\ (l + 1) \in 1..4 /\ (l + 1) - 1 = l
  OBVIOUS
<1>3. CASE source.kind = "register"
  <2>1. s = m.xmm[source.name]
    BY <1>3 DEF Contents
  <2>2. \A l \in 0..3 : ReadLane(m, operands[2], l) = s[l + 1]
    BY <1>3, <2>1 DEF Refined, ReadLane
  <2>3. FourLanes(s)
    BY <1>3, <2>1 DEF Refined, IsMachine
  <2> HIDE DEF s, d
  <2>4. Holds(m, operands, d, s, 0) /\ Holds(m, operands, d, s, 3)
    BY <1>1, <2>2 DEF Holds
  <2> QED
    BY <2>3, <2>4 DEF s, d
<1>4. CASE source.kind = "memory"
  <2>1. s = [l \in 1..4 |-> IF ScalarSource(mnemonic) /\ l > 1 THEN <<"none">> ELSE m.mem[Cell(source, l - 1)]]
    BY <1>4 DEF Contents
  <2>2. \A l \in 0..3 : ReadLane(m, operands[2], l) = m.mem[Cell(source, l)]
    BY <1>4 DEF Refined, ReadLane
  <2> HIDE DEF s, d
  <2>3. s[1] = m.mem[Cell(source, 0)]
    BY <2>1
  <2>4. Holds(m, operands, d, s, 0)
    BY <1>1, <2>2, <2>3 DEF Holds
  <2>5. ASSUME ~ScalarSource(mnemonic) PROVE Holds(m, operands, d, s, 3) /\ FourLanes(s)
    <3>1. s = [l \in 1..4 |-> m.mem[Cell(source, l - 1)]]
      BY <2>1, <2>5
    <3>2. \A l \in 0..3 : s[l + 1] = m.mem[Cell(source, l)]
      BY <1>2, <3>1
    <3>3. FourLanes(s)
      <4> DEFINE Of(l) == m.mem[Cell(source, l - 1)]
      <4>1. s = [l \in 1..4 |-> Of(l)]
        BY <3>1
      <4> HIDE DEF Of
      <4> QED
        BY <4>1 DEF FourLanes
    <3> QED
      BY <1>1, <2>2, <3>2, <3>3 DEF Holds
  <2> QED
    BY <2>4, <2>5 DEF s, d
<1> QED
  BY <1>3, <1>4

LEMMA ScalarSources ==
  ASSUME NEW m
  PROVE  ScalarSource(m) <=> m = "movss" \/ m \in ScalarBinaries \cup ScalarUnaries
BY ArithmeticMeans DEF ScalarSource

LEMMA InstructedLoad ==
  ASSUME NEW m, IsMachine(m), NEW u, NEW immediate, NEW lanes,
         u.operands[1].kind = "register", u.operands[1].name \in XmmNames,
         immediate = IF Len(u.operands) = 3 THEN u.operands[3].value ELSE 0,
         LoadedFor(u.mnemonic, m.xmm[u.operands[1].name], Contents(m, u.operands[2], u.mnemonic),
                   immediate, u.operands[2].kind, lanes)
  PROVE  Instructed(m, u) = RegisterGets(m, u.operands[1].name, lanes)
<1> DEFINE name == u.operands[1].name
           s == Contents(m, u.operands[2], u.mnemonic)
           loaded == Loaded(u.mnemonic, m.xmm[name], s, immediate, u.operands[2].kind = "memory")
<1>1. loaded = lanes
  BY Zenon DEF LoadedFor
<1>2. Instructed(m, u) = [m EXCEPT !.xmm[name] = loaded]
  BY Zenon DEF Instructed
<1> HIDE DEF loaded, s
<1>3. Instructed(m, u) = [m EXCEPT !.xmm[name] = lanes]
  BY <1>1, <1>2, Zenon
<1> HIDE DEF name
<1>4. [m EXCEPT !.xmm[name] = lanes] = [xmm |-> [m.xmm EXCEPT ![name] = lanes], mem |-> m.mem]
  BY DEF IsMachine
<1>5. [m.xmm EXCEPT ![name] = lanes] = [x \in XmmNames |-> IF x = name THEN lanes ELSE m.xmm[x]]
  BY DEF IsMachine
<1>6. m.mem = [c \in Cells |-> m.mem[c]]
  BY DEF IsMachine
<1> QED
  BY <1>3, <1>4, <1>5, <1>6, Zenon DEF RegisterGets, name

LEMMA MachineKept ==
  ASSUME NEW m, IsMachine(m), NEW name, NEW lanes, FourLanes(lanes)
  PROVE  IsMachine(RegisterGets(m, name, lanes))
<1> DEFINE r == RegisterGets(m, name, lanes)
<1>1. /\ r.xmm = [x \in XmmNames |-> IF x = name THEN lanes ELSE m.xmm[x]]
      /\ r.mem = [c \in Cells |-> m.mem[c]] /\ r = [xmm |-> r.xmm, mem |-> r.mem]
  BY DEF RegisterGets
<1> HIDE DEF r
<1>2. r.xmm = [x \in XmmNames |-> r.xmm[x]] /\ r.mem = [c \in Cells |-> r.mem[c]]
  BY <1>1
<1>3. \A x \in XmmNames : FourLanes(r.xmm[x])
  <2> TAKE x \in XmmNames
  <2>1. r.xmm[x] = lanes \/ r.xmm[x] = m.xmm[x]
    BY <1>1
  <2>2. FourLanes(m.xmm[x])
    BY DEF IsMachine
  <2> QED
    BY <2>1, <2>2, Zenon
<1> QED
  BY <1>1, <1>2, <1>3 DEF IsMachine, r

LEMMA LoadsFour ==
  ASSUME NEW form, NEW operands, Passed(form, operands), form.variant # "store"
  PROVE  DOMAIN Value(form, operands) = 1..4
<1> DEFINE Goal == \E old, most, keeps : ShapeFacts(form, operands, 4, old, most, keeps)
<1>1. \A old, most, keeps : ShapeFacts(form, operands, 4, old, most, keeps) => Goal
  BY Zenon
<1> HIDE DEF Goal
<1>2. ASSUME NEW m \in PackedBinaries \cup {"unpcklps", "unpckhps"}, form = PackedForm(m) PROVE Goal
  BY <1>1, <1>2, PackedBinaryShape, Zenon
<1>3. ASSUME NEW m \in ScalarBinaries \cup ScalarUnaries, form = ScalarForm(m) PROVE Goal
  BY <1>1, <1>3, ScalarShape, Zenon
<1>4. ASSUME NEW m \in PackedUnaries \cup {"movaps", "movups"}, NEW variant \in {"any", "load"},
             form = OverwritingForm(m, variant)
      PROVE  Goal
  BY <1>1, <1>4, OverwritingShape, Zenon
<1>5. ASSUME form = MovssLoadForm PROVE Goal
  <2>1. CASE operands[2].kind = "memory"
    BY <1>1, <1>5, <2>1, MovssLoadShape, Zenon
  <2>2. CASE operands[2].kind # "memory"
    BY <1>1, <1>5, <2>2, MovssLoadShape, Zenon
  <2> QED
    BY <2>1, <2>2
<1>6. ASSUME form = ShufpsForm PROVE Goal
  BY <1>1, <1>6, ShufpsShape, Zenon
<1>7. ASSUME NEW m, NEW width, form = StoreForm(m, width) PROVE Goal
  BY <1>7, FormFields
<1>8. Goal
  BY <1>2, <1>3, <1>4, <1>5, <1>6, <1>7 DEF Passed, Shaped
<1> QED
  BY <1>8 DEF Goal, ShapeFacts, ValueIs

(* Which instructions a form takes.                                        *)
TakesLoad(form, u) ==
  /\ form.variant # "store" /\ LoadLike(u) /\ u.mnemonic = form.mnemonic
  /\ \/ form.mnemonic \in Arithmetics \cup Unpacks \cup {"movaps", "movups"}
     \/ form.mnemonic = "movss" /\ form.variant = "load"
TakesStore(form, u) ==
  form.variant = "store" /\ StoreLike(u) /\ u.mnemonic = form.mnemonic /\ form.mnemonic \in MoveNames
TakesShuffle(form, u) ==
  form.variant # "store" /\ ShuffleLike(u) /\ u.mnemonic = form.mnemonic /\ form.mnemonic = "shufps"

LEMMA TakenBy ==
  ASSUME NEW form, NEW u \in Unresolveds, FormMatches(form, u), Shaped(form)
  PROVE  TakesLoad(form, u) \/ TakesStore(form, u) \/ TakesShuffle(form, u)
<1> DEFINE Loads == TakesLoad(form, u)  Stores == TakesStore(form, u)  Shuffles == TakesShuffle(form, u)
<1>1. ASSUME NEW m \in PackedBinaries \cup Unpacks, form = PackedForm(m) PROVE Loads
  BY <1>1, FormFields, MatchesShape DEF Arithmetics, TakesLoad
<1>2. ASSUME NEW m \in ScalarBinaries \cup ScalarUnaries, form = ScalarForm(m) PROVE Loads
  BY <1>2, FormFields, MatchesShape DEF Arithmetics, TakesLoad
<1>3. ASSUME NEW m \in PackedUnaries \cup {"movaps", "movups"}, NEW variant \in {"any", "load"},
             form = OverwritingForm(m, variant)
      PROVE  Loads
  BY <1>3, FormFields, MatchesShape DEF Arithmetics, TakesLoad
<1>4. ASSUME NEW m \in MoveNames, NEW width, form = StoreForm(m, width) PROVE Stores
  BY <1>4, FormFields, MatchesShape DEF TakesStore
<1>5. ASSUME form = MovssLoadForm PROVE Loads
  BY <1>5, OtherFields, MatchesShape DEF TakesLoad
<1>6. ASSUME form = ShufpsForm PROVE Shuffles
  BY <1>6, OtherFields, MatchesShape DEF TakesShuffle
<1> HIDE DEF Loads, Stores, Shuffles
<1>7. Loads \/ Stores \/ Shuffles
  BY <1>1, <1>2, <1>3, <1>4, <1>5, <1>6 DEF Shaped, Unpacks, MoveNames
<1> QED
  BY <1>7 DEF Loads, Stores, Shuffles

(* A form that loads executes as its instruction does.                     *)
LEMMA LoadStep ==
  ASSUME NEW m, IsMachine(m), NEW u \in Instructions, NEW f \in Matching(u), AllResolve(u),
         Passed(Forms[f], ResolvedOperands(u, f)), Forms[f].variant # "store"
  PROVE  /\ Execute(m, ResolvedOperands(u, f), Effects(Forms[f], ResolvedOperands(u, f))) = Instructed(m, u)
         /\ IsMachine(Instructed(m, u))
<1> DEFINE form == Forms[f]  operands == ResolvedOperands(u, f)
           target == u.operands[1]  source == u.operands[2]
           d == m.xmm[target.name]  s == Contents(m, source, u.mnemonic)
           immediate == IF Len(u.operands) = 3 THEN u.operands[3].value ELSE 0
           lanes == Terms(m, operands, Value(form, operands))
<1>1. u \in Unresolveds /\ Shaped(form) /\ FormMatches(form, u)
  BY InstructionsTyped, FormsShaped DEF Matching
<1>2. \A k \in DOMAIN u.operands : Refined(u.operands[k], operands[k])
  BY OperandsRefined
<1>3. PICK n \in Nat : DOMAIN u.operands = 1..n /\ Len(u.operands) = n
  BY <1>1 DEF Unresolveds
<1>4. DOMAIN Value(form, operands) = 1..4
  BY LoadsFour
<1> HIDE DEF form, operands
<1>5. TakesLoad(form, u) \/ TakesShuffle(form, u)
  BY <1>1, TakenBy DEF TakesStore, form
<1>6. /\ target.kind = "register" /\ source.kind \in {"register", "memory"}
      /\ Refined(target, operands[1]) /\ Refined(source, operands[2]) /\ u.mnemonic = form.mnemonic
  <2>1. /\ target.kind = "register" /\ source.kind \in {"register", "memory"} /\ n \in {2, 3}
        /\ u.mnemonic = form.mnemonic
    BY <1>3, <1>5 DEF TakesLoad, TakesShuffle, LoadLike, ShuffleLike
  <2>2. 1 \in 1..n /\ 2 \in 1..n
    BY <2>1
  <2> QED
    BY <1>2, <1>3, <2>1, <2>2
<1>7. target.name \in XmmNames /\ operands[1].reg = target.name /\ operands[2].kind = source.kind
  BY <1>6 DEF Refined
<1>8. FourLanes(d)
  BY <1>7 DEF IsMachine
<1>9. /\ Holds(m, operands, d, s, 0)
      /\ ~ScalarSource(u.mnemonic) => Holds(m, operands, d, s, 3) /\ FourLanes(s)
  BY <1>6, OperandsHold
<1> HIDE DEF s, d, target, source
<1>10. LoadsRight(form, m, operands, d, s, immediate)
  <2>1. CASE TakesShuffle(form, u)
    <3>1. form.mnemonic = "shufps" /\ n = 3 /\ u.operands[3].kind = "immediate" /\ 3 \in 1..3
      BY <1>3, <2>1 DEF TakesShuffle, ShuffleLike
    <3>2. immediate \in Nat /\ operands[3].bits = immediate
      BY <1>2, <1>3, <3>1 DEF Refined
    <3>3. ~ScalarSource(u.mnemonic)
      BY <1>6, <3>1, ScalarSources, ClassesDiffer DEF Arithmetics
    <3> HIDE DEF immediate
    <3> QED
      BY <1>9, <3>1, <3>2, <3>3, ShufpsLoads
  <2>2. CASE TakesLoad(form, u)
    <3> HIDE DEF immediate
    <3>1. CASE form.mnemonic \in PackedBinaries \cup PackedUnaries
      <4>1. ~ScalarSource(u.mnemonic)
        BY <1>6, <3>1, ScalarSources, ClassesDiffer DEF Arithmetics
      <4> QED
        BY <1>9, <3>1, <4>1, PackedLoads
    <3>2. CASE form.mnemonic \in ScalarBinaries \cup ScalarUnaries
      BY <1>8, <1>9, <3>2, ScalarLoads
    <3>3. CASE form.mnemonic \in {"movaps", "movups"}
      <4>1. ~ScalarSource(u.mnemonic)
        BY <1>6, <3>3, ScalarSources, ClassesDiffer DEF Arithmetics
      <4> QED
        BY <1>9, <3>3, <4>1, MoveLoads
    <3>4. CASE form.mnemonic \in Unpacks
      <4>1. ~ScalarSource(u.mnemonic)
        BY <1>6, <3>4, ScalarSources, ClassesDiffer DEF Arithmetics, Unpacks
      <4> QED
        BY <1>9, <3>4, <4>1, UnpackLoads
    <3>5. CASE form.mnemonic = "movss" /\ form.variant = "load"
      BY <1>8, <1>9, <3>5, MovssLoads
    <3> QED
      BY <2>2, <3>1, <3>2, <3>3, <3>4, <3>5 DEF TakesLoad, Arithmetics
  <2> QED
    BY <1>5, <2>1, <2>2
<1>11. LoadedFor(u.mnemonic, d, s, immediate, source.kind, lanes)
  BY <1>6, <1>7, <1>10, Zenon DEF LoadsRight, LoadedFor
<1>12. Instructed(m, u) = RegisterGets(m, target.name, lanes)
  <2>1. immediate = IF Len(u.operands) = 3 THEN u.operands[3].value ELSE 0
    OBVIOUS
  <2> HIDE DEF immediate, lanes
  <2> QED
    BY <1>6, <1>7, <1>11, <2>1, InstructedLoad DEF d, s, target, source
<1>13. Execute(m, operands, Effects(form, operands)) = RegisterGets(m, target.name, lanes)
  BY <1>7, RegisterExecution DEF form
<1>14. FourLanes(lanes)
  <2> DEFINE Of(k) == Term(m, operands, Value(form, operands)[k])
  <2>1. lanes = [k \in 1..4 |-> Of(k)]
    BY <1>4 DEF Terms, form, operands
  <2> HIDE DEF Of, lanes
  <2> QED
    BY <2>1 DEF FourLanes
<1>15. IsMachine(RegisterGets(m, target.name, lanes))
  BY <1>14, MachineKept
<1> QED
  BY <1>12, <1>13, <1>15 DEF form, operands

(* And a form that stores.                                                 *)
StoredCells(target, mnemonic) == {Cell(target, l) : l \in IF mnemonic = "movss" THEN {0} ELSE Lanes}
LEMMA StoreStep ==
  ASSUME NEW m, IsMachine(m), NEW u \in Instructions, NEW f \in Matching(u), AllResolve(u),
         Passed(Forms[f], ResolvedOperands(u, f)), Forms[f].variant = "store"
  PROVE  /\ Execute(m, ResolvedOperands(u, f), Effects(Forms[f], ResolvedOperands(u, f))) = Instructed(m, u)
         /\ IsMachine(Instructed(m, u))
<1> DEFINE form == Forms[f]  operands == ResolvedOperands(u, f)
           target == u.operands[1]  source == u.operands[2]
           s == Contents(m, source, u.mnemonic)
           value == Value(form, operands)
           cells == StoredCells(target, u.mnemonic)
           At(c) == 1 + (c[2] - target.displacement) \div 4
           n == IF u.mnemonic = "movss" THEN 1 ELSE 4
<1>1. u \in Unresolveds /\ Shaped(form) /\ FormMatches(form, u)
  BY InstructionsTyped, FormsShaped DEF Matching
<1>2. \A k \in DOMAIN u.operands : Refined(u.operands[k], operands[k])
  BY OperandsRefined
<1>3. PICK len \in Nat : DOMAIN u.operands = 1..len /\ Len(u.operands) = len
  BY <1>1 DEF Unresolveds
<1> HIDE DEF operands
<1>4. TakesStore(form, u)
  <2> HIDE DEF form
  <2>1. TakesLoad(form, u) \/ TakesStore(form, u) \/ TakesShuffle(form, u)
    BY <1>1, TakenBy
  <2> QED
    BY <2>1 DEF TakesLoad, TakesShuffle, form
<1> HIDE DEF form
<1>5. /\ target.kind = "memory" /\ source.kind = "register" /\ u.mnemonic = form.mnemonic
      /\ form.mnemonic \in MoveNames /\ Refined(target, operands[1]) /\ Refined(source, operands[2])
  <2>1. target.kind = "memory" /\ source.kind = "register" /\ len = 2
    BY <1>3, <1>4 DEF TakesStore, StoreLike
  <2>2. 1 \in 1..2 /\ 2 \in 1..2
    OBVIOUS
  <2> QED
    BY <1>2, <1>3, <1>4, <2>1, <2>2 DEF TakesStore
<1>6. /\ operands[1].displacement = target.displacement /\ target.displacement \in Int
      /\ \A l \in 0..3 : Cell(operands[1], l) = Cell(target, l)
      /\ operands[2].kind = "register" /\ operands[2].reg = source.name
  BY <1>5 DEF Refined
<1>7. s = m.xmm[source.name] /\ \A l \in 0..3 : ReadLane(m, operands[2], l) = s[l + 1]
  BY <1>5, <1>6 DEF Contents, ReadLane
<1> HIDE DEF s, target, source
<1>8. Term(m, operands, CopyLane(SourceLane(0))) = s[1]
      /\ \A l \in 0..3 : Term(m, operands, CopyLane(SourceLane(l))) = s[l + 1]
  <2>1. \A x : CopyLane(x).operation = "copy" /\ CopyLane(x).inputs[1] = x
    BY DEF CopyLane, Lane
  <2>2. \A l : SourceLane(l)[1] # "old" /\ SourceLane(l)[2] = l
    BY DEF SourceLane
  <2>3. \A l : InputTerm(m, operands, SourceLane(l)) = ReadLane(m, operands[2], l)
    BY <2>2 DEF InputTerm
  <2>4. ASSUME NEW l PROVE Term(m, operands, CopyLane(SourceLane(l))) = ReadLane(m, operands[2], l)
    <3> DEFINE lane == CopyLane(SourceLane(l))
    <3>1. lane.operation = "copy" /\ lane.inputs[1] = SourceLane(l)
      BY <2>1
    <3> HIDE DEF lane
    <3>2. Term(m, operands, lane) = InputTerm(m, operands, SourceLane(l))
      BY <3>1 DEF Term
    <3> QED
      BY <2>3, <3>2 DEF lane
  <2>5. \A l \in 0..3 : Term(m, operands, CopyLane(SourceLane(l))) = s[l + 1]
    BY <1>7, <2>4
  <2>6. 0 \in 0..3 /\ 0 + 1 = 1
    OBVIOUS
  <2> QED
    BY <2>5, <2>6
<1>9. /\ n \in 1..4 /\ DOMAIN value = 1..n
      /\ \A l \in 0..(n - 1) : l \in 0..3 /\ Term(m, operands, value[1 + l]) = s[1 + l]
  <2>1. CASE u.mnemonic = "movss"
    <3>1. value = ScalarStoreCopy
      BY <1>4, <1>5, <2>1, MoveValues DEF ValueFor, TakesStore
    <3>2. DOMAIN value = 1..1 /\ value[1] = CopyLane(SourceLane(0))
      BY <3>1 DEF ScalarStoreCopy
    <3>3. n = 1 /\ 0..(1 - 1) = {0} /\ 0 \in 0..3 /\ 1 + 0 = 1 /\ 1 \in 1..4
      BY <2>1
    <3> HIDE DEF n, value
    <3> QED
      BY <1>8, <3>2, <3>3
  <2>2. CASE u.mnemonic # "movss"
    <3>1. value = FullCopy
      BY <1>5, <2>2, MoveValues DEF ValueFor, MoveNames
    <3>2. DOMAIN value = 1..4 /\ \A l \in 0..3 : value[1 + l] = CopyLane(SourceLane(l))
      BY <3>1 DEF FullCopy
    <3>3. n = 4 /\ 4 - 1 = 3 /\ 4 \in 1..4 /\ \A l \in 0..3 : l + 1 = 1 + l
      BY <2>2
    <3> HIDE DEF n, value
    <3> QED
      BY <1>8, <3>2, <3>3
  <2> QED
    BY <2>1, <2>2
<1>10. \A c : c \in cells <=> \E l \in 0..(n - 1) : c = Cell(operands[1], l)
  <2>1. CASE u.mnemonic = "movss"
    <3>1. cells = {Cell(target, 0)} /\ n = 1 /\ 0..(1 - 1) = {0} /\ 0 \in 0..3
      BY <2>1 DEF StoredCells
    <3> HIDE DEF cells, n
    <3> QED
      BY <1>6, <3>1
  <2>2. CASE u.mnemonic # "movss"
    <3>1. cells = {Cell(target, l) : l \in 0..3} /\ n = 4 /\ 4 - 1 = 3
      BY <2>2 DEF StoredCells, Lanes
    <3> HIDE DEF cells, n
    <3> QED
      BY <1>6, <3>1
  <2> QED
    BY <2>1, <2>2
<1> HIDE DEF n, value, cells
<1>11. \A c \in cells : Term(m, operands, value[At(c)]) = s[At(c)]
  <2> TAKE c \in cells
  <2>1. PICK l \in 0..(n - 1) : c = Cell(operands[1], l)
    BY <1>10
  <2>2. l \in 0..3 /\ Term(m, operands, value[1 + l]) = s[1 + l]
    BY <1>9
  <2>3. c[2] = target.displacement + 4 * l
    BY <1>6, <2>1 DEF Cell
  <2>4. At(c) = 1 + l
    BY <1>6, <2>2, <2>3
  <2> QED
    BY <2>2, <2>4, Zenon
<1> DEFINE NowIn(c) == IF c \in cells THEN s[At(c)] ELSE m.mem[c]
           result == [xmm |-> m.xmm, mem |-> [c \in Cells |-> NowIn(c)]]
<1>12. Execute(m, operands, Effects(form, operands)) = result
  <2> DEFINE Stored(c) == IF \E l \in 0..(n - 1) : c = Cell(operands[1], l)
                          THEN Term(m, operands, Value(form, operands)[1 + (c[2] - operands[1].displacement) \div 4])
                          ELSE m.mem[c]
  <2>1. /\ form.variant = "store" /\ operands[1].displacement \in Int /\ n \in 1..4
        /\ DOMAIN Value(form, operands) = 1..n
    BY <1>4, <1>6, <1>9 DEF TakesStore, value
  <2>2. Execute(m, operands, Effects(form, operands))
          = [xmm |-> [x \in XmmNames |-> m.xmm[x]], mem |-> [c \in Cells |-> Stored(c)]]
    <3>1. Execute(m, operands, Effects(form, operands)) = CellsGet(m, operands, Value(form, operands), n)
      BY <2>1, StoreExecution
    <3> QED
      BY <3>1, Zenon DEF CellsGet
  <2>3. ASSUME NEW c PROVE Stored(c) = NowIn(c)
    <3>1. CASE c \in cells
      BY <1>6, <1>10, <1>11, <3>1, Zenon DEF value
    <3>2. CASE c \notin cells
      BY <1>10, <3>2, Zenon
    <3> QED
      BY <3>1, <3>2
  <2>4. m.xmm = [x \in XmmNames |-> m.xmm[x]]
    BY DEF IsMachine
  <2> HIDE DEF Stored, NowIn
  <2> QED
    BY <2>2, <2>3, <2>4 DEF result
<1>13. Instructed(m, u) = result
  <2>1. Instructed(m, u) = [m EXCEPT !.mem = [c \in Cells |-> NowIn(c)]]
    BY <1>5, Zenon DEF Instructed, StoredCells, cells, s, target, source
  <2> HIDE DEF NowIn
  <2> QED
    BY <2>1 DEF IsMachine
<1>14. IsMachine(result)
  <2> HIDE DEF NowIn
  <2>1. result.xmm = m.xmm /\ result.mem = [c \in Cells |-> NowIn(c)] /\ result = [xmm |-> result.xmm, mem |-> result.mem]
    OBVIOUS
  <2> HIDE DEF result
  <2>2. result.mem = [c \in Cells |-> result.mem[c]]
    BY <2>1
  <2> QED
    BY <2>1, <2>2, Zenon DEF IsMachine
<1> QED
  BY <1>12, <1>13, <1>14 DEF form, operands

-----------------------------------------------------------------------------
MachinesAgree ==
  /\ machine = architecture /\ IsMachine(machine)
  /\ executed \in 0..MaxInstructions /\ LookedRight

LEMMA AgreeInitially == MachineInit => MachinesAgree
<1> SUFFICES ASSUME MachineInit PROVE MachinesAgree
  OBVIOUS
<1>1. /\ machine.xmm = [x \in XmmNames |-> [l \in 1..4 |-> <<x[1], x[2], l>>]]
      /\ machine.mem = [c \in Cells |-> <<"cell", c>>] /\ machine = [xmm |-> machine.xmm, mem |-> machine.mem]
      /\ architecture = machine /\ executed = 0
  BY DEF MachineInit
<1>2. \A x \in XmmNames : FourLanes(machine.xmm[x])
  <2> TAKE x \in XmmNames
  <2> DEFINE Of(l) == <<x[1], x[2], l>>
  <2>1. machine.xmm[x] = [l \in 1..4 |-> Of(l)]
    BY <1>1
  <2> HIDE DEF Of
  <2> QED
    BY <2>1 DEF FourLanes
<1>3. /\ machine.xmm = [x \in XmmNames |-> machine.xmm[x]]
      /\ machine.mem = [c \in Cells |-> machine.mem[c]]
  BY <1>1
<1>4. executed \in 0..MaxInstructions
  BY <1>1, MachineAssumption
<1> QED
  BY <1>1, <1>2, <1>3, <1>4, LookedInitially DEF MachinesAgree, IsMachine

LEMMA AgreeKept ==
  ASSUME [MachineNext]_machineVars, MachinesAgree
  PROVE  MachinesAgree'
<1>1. LookedRight'
  BY LookedKept DEF MachinesAgree
<1>2. ASSUME NEW u \in Instructions, Step(u) PROVE machine' = architecture' /\ IsMachine(machine)'
  <2>1. PICK f \in Matching(u) :
          /\ AllResolve(u) /\ Semantics(f, ResolvedOperands(u, f)).error = "ok"
          /\ machine' = Execute(machine, ResolvedOperands(u, f), Semantics(f, ResolvedOperands(u, f)).effects)
    BY <1>2, ResolvedStep
  <2>2. u \in Unresolveds /\ f \in Nat
    BY InstructionsTyped, FormsShaped DEF Matching
  <2>3. ResolvedOperands(u, f) \in Seq(BuiltOperand)
    BY <2>2, ResolvedTyped
  <2>4. /\ Passed(Forms[f], ResolvedOperands(u, f))
        /\ Semantics(f, ResolvedOperands(u, f)).effects = Effects(Forms[f], ResolvedOperands(u, f))
    BY <2>1, <2>2, <2>3, BuiltLook
  <2>5. /\ Execute(machine, ResolvedOperands(u, f), Effects(Forms[f], ResolvedOperands(u, f)))
             = Instructed(machine, u)
        /\ IsMachine(Instructed(machine, u))
    BY <2>1, <2>4, LoadStep, StoreStep DEF MachinesAgree
  <2>6. HasInstruction(u)
    BY <2>1, <2>2, InstructionIs
  <2>7. architecture' = Instructed(architecture, u)
    BY <1>2, <2>6 DEF Step
  <2>8. machine' = Instructed(machine, u)
    BY <2>1, <2>4, <2>5
  <2>9. machine' = architecture'
    BY <2>7, <2>8 DEF MachinesAgree
  <2>10. IsMachine(machine')
    BY <2>5, <2>8
  <2> QED
    BY <2>9, <2>10 DEF IsMachine
<1>3. ASSUME UNCHANGED <<machine, architecture>> PROVE machine' = architecture' /\ IsMachine(machine)'
  BY <1>3 DEF MachinesAgree, IsMachine
<1>7. executed \in Nat /\ MaxInstructions \in Nat
  BY MachineAssumption DEF MachinesAgree
<1>4. ASSUME NEW u \in Instructions, Step(u), executed < MaxInstructions PROVE MachinesAgree'
  <2>1. executed' = executed + 1
    BY <1>4 DEF Step
  <2>2. executed' \in 0..MaxInstructions
    BY <1>4, <1>7, <2>1
  <2> QED
    BY <1>1, <1>2, <1>4, <2>2 DEF MachinesAgree
<1>5. CASE (\E u \in Instructions : Refuse(u)) \/ \E b \in Built : Examine(b)
  <2>1. UNCHANGED <<machine, architecture>> /\ executed' = MaxInstructions
    BY <1>5 DEF Refuse, Examine
  <2> QED
    BY <1>1, <1>3, <1>7, <2>1 DEF MachinesAgree
<1>6. CASE UNCHANGED machineVars
  BY <1>1, <1>3, <1>6 DEF MachinesAgree, machineVars
<1> QED
  BY <1>4, <1>5, <1>6 DEF MachineNext

(* What the effects of resolved instructions make of registers and memory  *)
(* is at every moment what the architecture makes of them.                 *)
THEOREM MachinesMatch == MachineSpec => []MatchesArchitecture
<1>1. MachineSpec => []MachinesAgree
  BY AgreeInitially, AgreeKept, PTL DEF MachineSpec
<1>2. MachinesAgree => MatchesArchitecture
  <2> SUFFICES ASSUME MachinesAgree PROVE MatchesArchitecture
    OBVIOUS
  <2>1. DOMAIN machine.xmm = XmmNames /\ DOMAIN machine.mem = Cells
    BY DEF MachinesAgree, IsMachine
  <2>2. AcceptedForm => Declares(Forms[last.form], last.operands, last.effects)
    BY LookedDeclares DEF MachinesAgree
  <2> QED
    BY <2>1, <2>2 DEF MachinesAgree, MatchesArchitecture, MachineTypeOK, Declares, Written
<1> QED
  BY <1>1, <1>2, PTL
=============================================================================
