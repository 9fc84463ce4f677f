-------------------------------- MODULE Sorting --------------------------------
(***************************************************************************)
(* std::ranges::stable_sort, and std::ranges::sort where no two elements   *)
(* are equivalent or what becomes of them does not matter.  The comparison *)
(* is given by the pairs of positions whose elements compare less.  Also   *)
(* what a loop that passes over some elements leaves of a sequence.        *)
(***************************************************************************)
EXTENDS Integers, Functions, FiniteSets

(* What comes before a position, or is it.                                 *)
UpTo(s, less, i) == {j \in DOMAIN s : <<j, i>> \in less \/ (<<i, j>> \notin less /\ j <= i)}

StableSorted(s, less) ==
  LET rank == [i \in DOMAIN s |-> Cardinality(UpTo(s, less, i))]
  IN [k \in DOMAIN s |-> s[CHOOSE i \in DOMAIN s : rank[i] = k]]

(* The elements at some positions, in their order.                         *)
Picked(s, at) ==
  LET rank == [i \in at |-> Cardinality({j \in at : j <= i})]
  IN [k \in 1..Cardinality(at) |-> s[CHOOSE i \in at : rank[i] = k]]

(* Every order in which the elements of a sequence may have been given.    *)
Rearrangements(s) == {[k \in DOMAIN s |-> s[p[k]]] : p \in Bijection(DOMAIN s, DOMAIN s)}
=============================================================================
