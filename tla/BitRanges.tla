------------------------------ MODULE BitRanges ------------------------------
(***************************************************************************)
(* program::bit_range (lib/program/operand.cpp): a range of bits of a      *)
(* register, in unsigned integers whose sums wrap.                         *)
(***************************************************************************)
EXTENDS Integers

CONSTANT RangeLimit          \* 2^32, the number of values of the integers
ASSUME RangeLimitAssumption == RangeLimit \in Nat \ {0}

Range32 == 0..(RangeLimit - 1)
BitRange == [offset : Range32, width : Range32]

EndBit(r) == (r.offset + r.width) % RangeLimit
Valid(r) == r.width # 0 /\ ~(EndBit(r) < r.offset)

(* Fault: the ends are not compared.                                       *)
BeginsWithin(r, other) ==
  r.width # 0 /\ other.width # 0 /\ r.offset <= other.offset /\ other.offset < EndBit(r)
ContainsRange(r, other) ==
  r.width # 0 /\ other.width # 0 /\ r.offset <= other.offset /\ EndBit(r) >= EndBit(other)
OverlapsRange(r, other) ==
  r.width # 0 /\ other.width # 0 /\ r.offset < EndBit(other) /\ other.offset < EndBit(r)

(* The bits a range stands for.                                            *)
BitsOf(r) == r.offset..(r.offset + r.width - 1)
=============================================================================
