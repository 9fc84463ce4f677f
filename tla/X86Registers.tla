----------------------------- MODULE X86Registers -----------------------------
(***************************************************************************)
(* semantic_provider::relate (lib/x86/semantic_provider.cpp): how two      *)
(* machine locations lie to one another, registers with a parent being     *)
(* parts of it.                                                            *)
(***************************************************************************)
EXTENDS X86Catalogue

CONSTANT Locations           \* the locations a client may ask about
VARIABLES lhs, rhs, relation \* the last question and its answer
relateVars == <<lhs, rhs, relation>>

(* A register slice, or one of the locations of which only equality is     *)
(* known.                                                                  *)
Location ==
  [kind : {"register"}, reg : STRING \X Nat, bits : BitRange] \cup [kind : {"memory"}, name : STRING]
ASSUME LocationsAssumption == Locations \subseteq Location
RegisterSlice(reg, bits) == [kind |-> "register", reg |-> reg, bits |-> bits]
OtherLocation(name) == [kind |-> "memory", name |-> name]
Info(name) == CHOOSE r \in RegisterNamed(name) : TRUE

(* canonicalize: the set of the one slice of a register without parent it  *)
(* is, or none.                                                            *)
CanonicalSlices(slice) ==
  IF RegisterNamed(slice.reg) = {} \/ ~Valid(slice.bits) THEN {}
  ELSE IF Info(slice.reg).parent = {} THEN {slice}
  ELSE {RegisterSlice(p.reg, [slice.bits EXCEPT !.offset = @ + p.offset]) :
          p \in {q \in Info(slice.reg).parent : ~(EndBit(slice.bits) > q.width)}}

RelateBits(a, b) ==
  IF a = b THEN "equal" ELSE IF ContainsRange(a, b) THEN "contains"
  ELSE IF ContainsRange(b, a) THEN "contained_by"
  ELSE IF OverlapsRange(a, b) THEN "overlaps" ELSE "disjoint"

Relate(l, r) ==
  IF l.kind # "register" \/ r.kind # "register"
  THEN IF l = r THEN "equal" ELSE "unknown"
  ELSE IF CanonicalSlices(l) = {} \/ CanonicalSlices(r) = {} THEN "unknown"
  ELSE LET a == CHOOSE c \in CanonicalSlices(l) : TRUE
           b == CHOOSE c \in CanonicalSlices(r) : TRUE
       IN IF a.reg # b.reg THEN "disjoint" ELSE RelateBits(a.bits, b.bits)

(* relate keeps nothing, so every question is asked of a fresh provider.   *)
RelateInit == relation = "unasked" /\ lhs \in Locations /\ rhs = lhs
Ask(r) == relation = "unasked" /\ rhs' = r /\ relation' = Relate(lhs, r) /\ UNCHANGED lhs
RelateNext == \E r \in Locations : Ask(r)
RelateSpec == RelateInit /\ [][RelateNext]_relateVars

-----------------------------------------------------------------------------
(* The flip-flops a slice stands for.  The low 32 of a general-purpose     *)
(* register are shared by its two names, e and r.                          *)
Holders(name) == IF name[1] = "e" THEN <<"r", name[2]>> ELSE name
FlipFlops(slice) ==
  {<<Holders(slice.reg), b>> : b \in slice.bits.offset..(slice.bits.offset + slice.bits.width - 1)}

(* A slice the provider can place: of a register of its catalogue, not     *)
(* empty, its end representable, and inside a register with a parent.      *)
Placeable(slice) ==
  /\ slice.kind = "register" /\ RegisterNamed(slice.reg) # {}
  /\ slice.bits.width > 0 /\ slice.bits.offset + slice.bits.width < RangeLimit
  /\ slice.reg[1] = "e" => slice.bits.offset + slice.bits.width <= 32

(* How the flip-flops of the two locations lie to one another.             *)
ExactRelation ==
  IF Placeable(lhs) /\ Placeable(rhs)
  THEN LET a == FlipFlops(lhs)  b == FlipFlops(rhs)
       IN CASE a = b -> "equal"
            [] b \subseteq a /\ a # b -> "contains"
            [] a \subseteq b /\ a # b -> "contained_by"
            [] a \cap b = {} -> "disjoint"
            [] OTHER -> "overlaps"
  ELSE IF lhs = rhs /\ lhs.kind # "register" THEN "equal" ELSE "unknown"

(* The answer says of the flip-flops what it names, for all aliases, and   *)
(* is "unknown" only where nothing can be said (x86_tests.cpp, "x86        *)
(* register relation accounts for GPR aliases").                           *)
RelationExact == relation \in {"unasked", ExactRelation}
=============================================================================
