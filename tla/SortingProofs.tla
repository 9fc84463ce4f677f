----------------------------- MODULE SortingProofs -----------------------------
(***************************************************************************)
(* What a sort does to a sequence of any length, by any comparison that is *)
(* a strict weak order, that an ordered sequence is determined by its      *)
(* elements, and what a loop keeps that passes over some of them.          *)
(***************************************************************************)
EXTENDS Sorting, Sequences, FiniteSetTheorems, WellFoundedInduction, TLAPS

(* What the comparisons of the library are: strict weak orders.            *)
WeakOrder(less, D) ==
  /\ \A i, j \in D : <<i, j>> \in less => <<j, i>> \notin less
  /\ \A i, j, k \in D : <<i, k>> \in less => <<i, j>> \in less \/ <<j, k>> \in less

Sortable(s, n, less) == n \in Nat /\ DOMAIN s = 1..n /\ WeakOrder(less, 1..n)

(* The positions of a sort in the sequence it sorts.                       *)
Places(p, n, less) ==
  /\ p \in [1..n -> 1..n]
  /\ \A i \in 1..n : \E k \in 1..n : p[k] = i
  /\ \A k, l \in 1..n : k < l =>
       /\ p[k] # p[l]
       /\ <<p[k], p[l]>> \in less \/ (<<p[l], p[k]>> \notin less /\ p[k] < p[l])

Prior(less, i, j) == <<i, j>> \in less \/ (<<j, i>> \notin less /\ i <= j)

LEMMA PriorIsTotal ==
  ASSUME NEW n \in Nat, NEW less, WeakOrder(less, 1..n)
  PROVE  /\ \A i \in 1..n : Prior(less, i, i)
         /\ \A i, j \in 1..n : Prior(less, i, j) \/ Prior(less, j, i)
         /\ \A i, j \in 1..n : Prior(less, i, j) /\ Prior(less, j, i) => i = j
         /\ \A i, j, k \in 1..n : Prior(less, i, j) /\ Prior(less, j, k) => Prior(less, i, k)
<1>1. \A i \in 1..n : Prior(less, i, i)
  BY DEF Prior, WeakOrder
<1>2. ASSUME NEW i \in 1..n, NEW j \in 1..n
      PROVE  Prior(less, i, j) \/ Prior(less, j, i)
  <2>1. i <= j \/ j <= i
    OBVIOUS
  <2> QED
    BY <2>1, Zenon DEF Prior, WeakOrder
<1>3. ASSUME NEW i \in 1..n, NEW j \in 1..n, Prior(less, i, j), Prior(less, j, i)
      PROVE  i = j
  <2>1. <<i, j>> \in less => <<j, i>> \notin less
    BY DEF WeakOrder
  <2>2. i <= j /\ j <= i
    BY <1>3, <2>1 DEF Prior
  <2> QED
    BY <2>2
<1>4. ASSUME NEW i \in 1..n, NEW j \in 1..n, NEW k \in 1..n, Prior(less, i, j), Prior(less, j, k)
      PROVE  Prior(less, i, k)
  <2>1. CASE <<i, j>> \in less /\ <<j, k>> \in less
    BY <2>1 DEF Prior, WeakOrder
  <2>2. CASE <<i, j>> \in less /\ <<k, j>> \notin less
    BY <2>2 DEF Prior, WeakOrder
  <2>3. CASE <<j, i>> \notin less /\ <<j, k>> \in less
    BY <2>3 DEF Prior, WeakOrder
  <2>4. CASE /\ <<j, i>> \notin less /\ <<k, j>> \notin less
             /\ i <= j /\ j <= k
    <3>1. <<k, i>> \notin less
      BY <2>4 DEF WeakOrder
    <3> QED
      BY <2>4, <3>1 DEF Prior
  <2> QED
    BY <1>4, <2>1, <2>2, <2>3, <2>4 DEF Prior
<1> QED
  BY <1>1, <1>2, <1>3, <1>4

Rank(s, less, n) == [i \in 1..n |-> Cardinality(UpTo(s, less, i))]

(* Ranks are the positions from 1 on, each once, in the order of Prior.    *)
LEMMA Ranks ==
  ASSUME NEW n, NEW s, NEW less, Sortable(s, n, less)
  PROVE  /\ Rank(s, less, n) \in [1..n -> 1..n]
         /\ \A i, j \in 1..n :
              i # j /\ Prior(less, i, j) => Rank(s, less, n)[i] < Rank(s, less, n)[j]
         /\ \A k \in 1..n : \E i \in 1..n : Rank(s, less, n)[i] = k
<1> USE DEF Sortable
<1> DEFINE r == Rank(s, less, n)
<1>0. r = [i \in 1..n |-> Cardinality(UpTo(s, less, i))]
  BY DEF Rank
<1> HIDE DEF r
<1>1. IsFiniteSet(1..n) /\ Cardinality(1..n) = n
  BY FS_Interval
<1>2. \A i \in 1..n : UpTo(s, less, i) = {j \in 1..n : Prior(less, j, i)}
  BY DEF UpTo, Prior
<1>3. ASSUME NEW i \in 1..n
      PROVE  /\ IsFiniteSet(UpTo(s, less, i)) /\ Cardinality(UpTo(s, less, i)) \in Nat
             /\ Cardinality(UpTo(s, less, i)) <= n /\ i \in UpTo(s, less, i)
  <2>1. UpTo(s, less, i) \in SUBSET (1..n) /\ i \in UpTo(s, less, i)
    BY <1>2, PriorIsTotal
  <2> QED
    BY <1>1, <2>1, FS_Subset, FS_CardinalityType
<1>4. ASSUME NEW i \in 1..n
      PROVE  r[i] \in 1..n
  <2>1. Cardinality(UpTo(s, less, i)) # 0
    BY <1>3, FS_EmptySet
  <2> QED
    BY <1>0, <1>3, <2>1
<1>5. ASSUME NEW i \in 1..n, NEW j \in 1..n, i # j, Prior(less, i, j)
      PROVE  r[i] < r[j]
  <2>1. j \notin UpTo(s, less, i)
    BY <1>2, <1>5, PriorIsTotal
  <2>2. UpTo(s, less, i) \in SUBSET UpTo(s, less, j)
    BY <1>2, <1>5, PriorIsTotal
  <2>3. /\ Cardinality(UpTo(s, less, i)) <= Cardinality(UpTo(s, less, j))
        /\ Cardinality(UpTo(s, less, i)) # Cardinality(UpTo(s, less, j))
    BY <1>3, <2>1, <2>2, FS_Subset
  <2> QED
    BY <1>0, <1>3, <2>3
<1>6. r \in [1..n -> 1..n]
  BY <1>0, <1>4
<1>7. r \in Injection(1..n, 1..n)
  <2>1. \A i, j \in 1..n : i # j => r[i] # r[j]
    BY <1>4, <1>5, PriorIsTotal
  <2> QED
    BY <1>6, <2>1, Zenon DEF Injection, IsInjective
<1>8. r \in Surjection(1..n, 1..n)
  BY <1>1, <1>7, FS_Injection
<1> QED
  BY <1>5, <1>6, <1>8 DEF Surjection, r

Rearranges(t, s, p, n) == t = [k \in 1..n |-> s[p[k]]]

(* A sort rearranges: every element has one place in the result, smaller   *)
(* ones come first, and equivalent ones stay in the order they were in.    *)
LEMMA SortRearranges ==
  ASSUME NEW n, NEW s, NEW less, Sortable(s, n, less)
  PROVE  \E p : Places(p, n, less) /\ Rearranges(StableSorted(s, less), s, p, n)
<1> DEFINE r == Rank(s, less, n)
           p == [k \in 1..n |-> CHOOSE i \in 1..n : r[i] = k]
<1>1. StableSorted(s, less) = [k \in 1..n |-> s[p[k]]]
  BY DEF StableSorted, Rank, Sortable
<1> HIDE DEF r
<1>2. /\ r \in [1..n -> 1..n]
      /\ \A i, j \in 1..n : i # j /\ Prior(less, i, j) => r[i] < r[j]
      /\ \A k \in 1..n : \E i \in 1..n : r[i] = k
  BY Ranks DEF r
<1> USE DEF Sortable
<1>3. \A k \in 1..n : p[k] \in 1..n /\ r[p[k]] = k
  BY <1>2
<1> HIDE DEF p
<1>4. p \in [1..n -> 1..n]
  BY <1>3 DEF p
<1>5. ASSUME NEW i \in 1..n, NEW j \in 1..n, i # j
      PROVE  r[i] # r[j]
  <2>1. Prior(less, i, j) \/ Prior(less, j, i)
    BY PriorIsTotal
  <2>2. r[i] < r[j] \/ r[j] < r[i]
    BY <1>2, <1>5, <2>1
  <2> QED
    BY <1>2, <2>2
<1>6. \A i \in 1..n : p[r[i]] = i
  BY <1>2, <1>3, <1>5
<1>7. ASSUME NEW k \in 1..n, NEW l \in 1..n, k < l
      PROVE  /\ p[k] # p[l]
             /\ <<p[k], p[l]>> \in less \/ (<<p[l], p[k]>> \notin less /\ p[k] < p[l])
  <2>1. r[p[k]] = k /\ r[p[l]] = l /\ p[k] # p[l] /\ p[k] \in 1..n /\ p[l] \in 1..n
    BY <1>3, <1>7
  <2>2. ~Prior(less, p[l], p[k])
    <3>1. Prior(less, p[l], p[k]) => r[p[l]] < r[p[k]]
      BY <1>2, <2>1
    <3> QED
      BY <1>7, <2>1, <3>1
  <2>3. Prior(less, p[k], p[l])
    BY <2>1, <2>2, PriorIsTotal
  <2> QED
    BY <2>1, <2>3 DEF Prior
<1>8. Places(p, n, less)
  BY <1>2, <1>4, <1>6, <1>7 DEF Places
<1> QED
  BY <1>1, <1>8 DEF Rearranges

-----------------------------------------------------------------------------
(* Sorting by an order in which every two elements differ.                 *)
Elements(f) == {f[k] : k \in DOMAIN f}

Ordered(f, R) == \A k, l \in DOMAIN f : k < l => <<f[k], f[l]>> \in R

Strict(R) == \A x, y : <<x, y>> \in R => <<y, x>> \notin R

LEMMA LeastPosition ==
  ASSUME NEW S \in SUBSET Nat, S # {}
  PROVE  \E x \in S : \A y \in S : x <= y
<1>1. PICK Less : Less = OpToRel(<, Nat)
  OBVIOUS
<1>2. IsWellFoundedOn(Less, Nat)
  BY <1>1, NatLessThanWellFounded
<1>3. \A j, k \in Nat : j < k => <<j, k>> \in Less
  BY <1>1 DEF OpToRel
<1>4. PICK x \in S : \A y \in S : ~(<<y, x>> \in Less)
  BY <1>2, WFMin
<1>5. ASSUME NEW y \in S
      PROVE  x <= y
  <2>1. x \in Nat /\ y \in Nat /\ ~(y < x)
    BY <1>3, <1>4
  <2> QED
    BY <2>1
<1> QED
  BY <1>5

(* An ordered sequence is determined by its elements.                      *)
LEMMA OrderedAgree ==
  ASSUME NEW R, Strict(R), NEW n \in Nat, NEW m \in Nat, NEW a, NEW b,
         DOMAIN a = 1..n, DOMAIN b = 1..m, Ordered(a, R), Ordered(b, R),
         Elements(a) = Elements(b)
  PROVE  \A k \in 1..n : k \in 1..m /\ a[k] = b[k]
<1> DEFINE Differ == {k \in 1..n : ~(k \in 1..m /\ a[k] = b[k])}
<1>1. SUFFICES ASSUME Differ # {} PROVE FALSE
  OBVIOUS
<1>2. PICK k \in Differ : \A j \in Differ : k <= j
  <2>1. Differ \in SUBSET Nat
    OBVIOUS
  <2> QED
    BY <1>1, <2>1, LeastPosition
<1>3. k \in 1..n /\ \A j \in 1..n : j < k => j \in 1..m /\ a[j] = b[j]
  BY <1>2
<1>4. PICK l \in 1..m : b[l] = a[k]
  <2>1. a[k] \in Elements(b)
    BY <1>3 DEF Elements
  <2> QED
    BY <2>1 DEF Elements
<1>5. ~(l < k)
  <2>1. ASSUME l < k PROVE FALSE
    <3>1. l \in 1..n /\ a[l] = b[l]
      BY <1>3, <1>4, <2>1
    <3>2. <<a[l], a[k]>> \in R
      BY <1>3, <2>1, <3>1 DEF Ordered
    <3> QED
      BY <1>4, <3>1, <3>2 DEF Strict
  <2> QED
    BY <2>1
<1>6. l # k /\ k \in 1..m /\ k < l
  BY <1>2, <1>3, <1>4, <1>5
<1>7. PICK j \in 1..n : a[j] = b[k]
  <2>1. b[k] \in Elements(a)
    BY <1>6 DEF Elements
  <2> QED
    BY <2>1 DEF Elements
<1>8. <<b[k], b[l]>> \in R
  BY <1>6 DEF Ordered
<1>9. CASE j < k
  <2>1. j \in 1..m /\ b[j] = b[k]
    BY <1>3, <1>7, <1>9
  <2>2. <<b[j], b[k]>> \in R
    BY <1>6, <1>9, <2>1 DEF Ordered
  <2> QED
    BY <2>1, <2>2 DEF Strict
<1>10. CASE j = k
  BY <1>2, <1>6, <1>7, <1>10
<1>11. CASE k < j
  <2>1. <<a[k], a[j]>> \in R
    BY <1>3, <1>11 DEF Ordered
  <2> QED
    BY <1>4, <1>7, <1>8, <2>1 DEF Strict
<1> QED
  BY <1>3, <1>9, <1>10, <1>11

LEMMA OrderedUnique ==
  ASSUME NEW R, Strict(R), NEW S, NEW n \in Nat, NEW m \in Nat,
         NEW a \in [1..n -> S], NEW b \in [1..m -> S], Ordered(a, R), Ordered(b, R),
         Elements(a) = Elements(b)
  PROVE  a = b
<1>1. \A k \in 1..n : k \in 1..m /\ a[k] = b[k]
  BY OrderedAgree
<1>2. \A k \in 1..m : k \in 1..n /\ b[k] = a[k]
  BY OrderedAgree
<1>3. 1..n = 1..m
  BY <1>1, <1>2
<1> QED
  BY <1>1, <1>3

Tells(less, s, n, R) ==
  /\ \A i, j \in 1..n : <<i, j>> \in less => <<s[i], s[j]>> \in R
  /\ \A i, j \in 1..n : i # j => <<i, j>> \in less \/ <<j, i>> \in less

(* Where every two elements differ, the result is ordered and has the      *)
(* elements of what is sorted.                                             *)
LEMMA SortOrders ==
  ASSUME NEW n, NEW S, NEW s \in [1..n -> S], NEW less, NEW R,
         Sortable(s, n, less), Tells(less, s, n, R)
  PROVE  /\ StableSorted(s, less) \in [1..n -> S]
         /\ Elements(StableSorted(s, less)) = Elements(s)
         /\ Ordered(StableSorted(s, less), R)
<1> DEFINE t == StableSorted(s, less)
<1>1. PICK p : Places(p, n, less) /\ Rearranges(t, s, p, n)
  BY SortRearranges
<1>2. /\ p \in [1..n -> 1..n] /\ n \in Nat
      /\ \A i \in 1..n : \E k \in 1..n : p[k] = i
  BY <1>1 DEF Places, Sortable
<1> HIDE DEF t
<1>3. t \in [1..n -> S] /\ DOMAIN t = 1..n /\ \A k \in 1..n : t[k] = s[p[k]]
  BY <1>1, <1>2 DEF Rearranges
<1>4. Elements(t) = Elements(s)
  <2>1. \A k \in 1..n : t[k] \in Elements(s)
    BY <1>2, <1>3 DEF Elements
  <2>2. \A i \in 1..n : s[i] \in Elements(t)
    <3> TAKE i \in 1..n
    <3>1. PICK k \in 1..n : p[k] = i
      BY <1>2
    <3> QED
      BY <1>3, <3>1 DEF Elements
  <2> QED
    BY <1>3, <2>1, <2>2 DEF Elements
<1>5. ASSUME NEW k \in 1..n, NEW l \in 1..n, k < l
      PROVE  <<t[k], t[l]>> \in R
  <2>1. /\ p[k] # p[l] /\ p[k] \in 1..n /\ p[l] \in 1..n
        /\ <<p[k], p[l]>> \in less \/ <<p[l], p[k]>> \notin less
    BY <1>1, <1>2, <1>5 DEF Places
  <2>2. <<p[k], p[l]>> \in less
    BY <2>1 DEF Tells
  <2> QED
    BY <1>3, <2>1, <2>2 DEF Tells
<1> QED
  BY <1>3, <1>4, <1>5 DEF t, Ordered

-----------------------------------------------------------------------------
(* Places of the elements that a loop keeps.                               *)
Kept(q, m, at) ==
  /\ q \in [1..m -> at]
  /\ \A i \in at : \E k \in 1..m : q[k] = i
  /\ \A k, l \in 1..m : q[k] < q[l] <=> k < l

Keeps(list, s, n, at) ==
  \E m \in 0..n : \E q : Kept(q, m, at) /\ list = [k \in 1..m |-> s[q[k]]]

(* The places picked, in their order; the k-th has k places up to it.      *)
Standing(at) == [i \in at |-> Cardinality({j \in at : j <= i})]
Chosen(at) == [k \in 1..Cardinality(at) |-> CHOOSE i \in at : Standing(at)[i] = k]

LEMMA PlacesChosen ==
  ASSUME NEW n \in Nat, NEW at \in SUBSET (1..n)
  PROVE  /\ IsFiniteSet(at) /\ Cardinality(at) \in 0..n
         /\ Kept(Chosen(at), Cardinality(at), at)
         /\ \A k \in 1..Cardinality(at) : Standing(at)[Chosen(at)[k]] = k
         /\ \A i \in at : Standing(at)[i] \in 1..Cardinality(at) /\ Chosen(at)[Standing(at)[i]] = i
<1> DEFINE m == Cardinality(at)
           Below(i) == {j \in at : j <= i}
           r == [i \in at |-> Cardinality(Below(i))]
           q == [k \in 1..m |-> CHOOSE i \in at : r[i] = k]
<1>0. r = Standing(at) /\ q = Chosen(at)
  BY DEF Standing, Chosen
<1> HIDE DEF Below, m, r, q
<1>1. IsFiniteSet(1..n) /\ Cardinality(1..n) = n
  BY FS_Interval
<1>2. IsFiniteSet(at) /\ m \in 0..n /\ at \subseteq Nat
  <2>1. IsFiniteSet(at) /\ Cardinality(at) <= n
    BY <1>1, FS_Subset
  <2>2. Cardinality(at) \in Nat
    BY <2>1, FS_CardinalityType
  <2> QED
    BY <2>1, <2>2 DEF m
<1> USE DEF Below, m
<1>3. ASSUME NEW i \in at
      PROVE  /\ IsFiniteSet(Below(i)) /\ Cardinality(Below(i)) \in 1..m
             /\ i \in Below(i)
  <2>1. Below(i) \in SUBSET at /\ i \in Below(i)
    BY <1>2
  <2>2. /\ IsFiniteSet(Below(i)) /\ Cardinality(Below(i)) \in Nat
        /\ Cardinality(Below(i)) <= m
    BY <1>2, <2>1, FS_Subset, FS_CardinalityType
  <2>3. Cardinality(Below(i)) # 0
    BY <2>1, <2>2, FS_EmptySet
  <2> HIDE DEF Below, m
  <2> QED
    BY <1>2, <2>1, <2>2, <2>3
<1>4. ASSUME NEW i \in at, NEW j \in at, i < j
      PROVE  r[i] < r[j]
  <2>1. Below(i) \in SUBSET Below(j) /\ j \notin Below(i) /\ j \in Below(j)
    <3>1. i \in Nat /\ j \in Nat /\ i < j
      BY <1>2, <1>4
    <3>2. \A o \in at : o \in Nat /\ (o <= i => o <= j)
      BY <1>2, <3>1
    <3>3. \A o \in Below(i) : o \in Below(j)
      BY <3>2
    <3>4. j \notin Below(i)
      <4>1. ~(j <= i)
        BY <3>1
      <4> QED
        BY <4>1
    <3>5. j \in Below(j)
      BY <3>1
    <3> HIDE DEF Below
    <3> QED
      BY <3>3, <3>4, <3>5
  <2>2. /\ Cardinality(Below(i)) <= Cardinality(Below(j))
        /\ Cardinality(Below(i)) # Cardinality(Below(j))
    BY <1>3, <2>1, FS_Subset
  <2>3. Cardinality(Below(i)) \in 1..m /\ Cardinality(Below(j)) \in 1..m
    BY <1>3
  <2> HIDE DEF Below, m
  <2>4. r[i] = Cardinality(Below(i)) /\ r[j] = Cardinality(Below(j))
    BY DEF r
  <2> QED
    BY <1>2, <2>2, <2>3, <2>4
<1>5. r \in [at -> 1..m]
  BY <1>3 DEF r
<1> HIDE DEF Below, r
<1>6. \A i, j \in at : r[i] < r[j] <=> i < j
  BY <1>2, <1>4, <1>5
<1>7. r \in Injection(at, 1..m)
  <2>1. \A i, j \in at : i # j => r[i] # r[j]
    BY <1>2, <1>5, <1>6
  <2> QED
    BY <1>5, <2>1, Zenon DEF Injection, IsInjective
<1>8. IsFiniteSet(1..m) /\ Cardinality(1..m) = m
  BY <1>2, FS_Interval
<1>9. r \in Surjection(at, 1..m)
  BY <1>7, <1>8, FS_Injection
<1>10. \A k \in 1..m : q[k] \in at /\ r[q[k]] = k
  BY <1>9 DEF Surjection, q
<1> HIDE DEF q, m
<1>12. q \in [1..m -> at]
  BY <1>10 DEF q
<1>13. \A i \in at : q[r[i]] = i
  <2> TAKE i \in at
  <2>1. r[i] \in 1..m /\ q[r[i]] \in at /\ r[q[r[i]]] = r[i]
    BY <1>5, <1>10
  <2> QED
    BY <1>7, <2>1 DEF Injection, IsInjective
<1>14. \A k, l \in 1..m : q[k] < q[l] <=> k < l
  <2> TAKE k, l \in 1..m
  <2>1. q[k] \in at /\ q[l] \in at /\ r[q[k]] = k /\ r[q[l]] = l
    BY <1>10
  <2>2. r[q[k]] < r[q[l]] <=> q[k] < q[l]
    BY <1>6, <2>1
  <2> QED
    BY <2>1, <2>2
<1>15. Kept(q, m, at)
  BY <1>5, <1>12, <1>13, <1>14 DEF Kept
<1> QED
  BY <1>0, <1>2, <1>5, <1>10, <1>13, <1>15 DEF m

LEMMA PickedChosen ==
  ASSUME NEW s, NEW at
  PROVE  Picked(s, at) = [k \in 1..Cardinality(at) |-> s[Chosen(at)[k]]]
BY DEF Picked, Chosen, Standing

LEMMA PickedNothing ==
  ASSUME NEW s
  PROVE  Picked(s, {}) = <<>>
<1>1. Cardinality({}) = 0 /\ 1..0 = {}
  BY FS_EmptySet
<1>2. Picked(s, {}) = [k \in {} |-> s[Chosen({})[k]]]
  BY <1>1, PickedChosen
<1> QED
  BY <1>2

LEMMA PickedInOrder ==
  ASSUME NEW n \in Nat, NEW at \in SUBSET (1..n), NEW s
  PROVE  Keeps(Picked(s, at), s, n, at)
<1>1. Cardinality(at) \in 0..n /\ Kept(Chosen(at), Cardinality(at), at)
  BY PlacesChosen
<1> QED
  BY <1>1, PickedChosen DEF Keeps

(* What is picked of a sequence does not change when it grows, and grows   *)
(* itself if the new place is picked.                                      *)
Grows(S, s, t, at) ==
  /\ Picked(s, at) \in Seq(S)
  /\ Picked(Append(s, t), at) = Picked(s, at)
  /\ Picked(Append(s, t), at \cup {Len(s) + 1}) = Append(Picked(s, at), t)

LEMMA PickedGrows ==
  ASSUME NEW S, NEW s \in Seq(S), NEW t \in S, NEW at \in SUBSET (1..Len(s))
  PROVE  Grows(S, s, t, at)
<1> DEFINE n == Len(s)
           m == Cardinality(at)
           c == Chosen(at)
           last == at \cup {n + 1}
           d == Chosen(last)
<1>0. /\ n \in Nat /\ n = Len(s) /\ at \in SUBSET (1..n)
      /\ DOMAIN s = 1..n /\ \A k \in 1..n : s[k] \in S
  OBVIOUS
<1> HIDE DEF n
<1>1. m \in 0..n /\ IsFiniteSet(at) /\ last \in SUBSET (1..(n + 1))
  <2>1. m \in 0..n /\ IsFiniteSet(at)
    BY <1>0, PlacesChosen
  <2>2. \A k \in last : k \in 1..(n + 1)
    BY <1>0
  <2> QED
    BY <2>1, <2>2
<1>2. Cardinality(last) = m + 1
  <2>1. n + 1 \notin at
    BY <1>0
  <2> QED
    BY <1>1, <2>1, FS_AddElement
<1>3. /\ c \in [1..m -> at] /\ DOMAIN c = 1..m
      /\ \A k \in 1..m : Standing(at)[c[k]] = k
  BY <1>0, PlacesChosen DEF Kept
<1>4. /\ d \in [1..(m + 1) -> last] /\ DOMAIN d = 1..(m + 1)
      /\ \A i \in last : Standing(last)[i] \in 1..(m + 1) /\ d[Standing(last)[i]] = i
  <2>1. n + 1 \in Nat
    BY <1>0
  <2>2. /\ Kept(d, Cardinality(last), last)
        /\ \A i \in last : Standing(last)[i] \in 1..Cardinality(last) /\ d[Standing(last)[i]] = i
    BY <1>1, <2>1, PlacesChosen
  <2> QED
    BY <1>2, <2>2 DEF Kept
<1> DEFINE u == Append(s, t)
           p == Picked(s, at)
<1>5. /\ u \in Seq(S) /\ DOMAIN u = 1..(n + 1) /\ u[n + 1] = t
      /\ \A k \in 1..n : u[k] = s[k]
  BY <1>0
<1> HIDE DEF u
<1>6. /\ p = [k \in 1..m |-> s[c[k]]]
      /\ Picked(u, at) = [k \in 1..m |-> u[c[k]]]
      /\ Picked(u, last) = [k \in 1..(m + 1) |-> u[d[k]]]
  BY <1>2, PickedChosen
<1>7. \A k \in 1..m : d[k] = c[k]
  <2> TAKE k \in 1..m
  <2>1. c[k] \in at /\ c[k] \in 1..n
    BY <1>0, <1>3
  <2>2. {j \in last : j <= c[k]} = {j \in at : j <= c[k]}
    BY <1>0, <2>1
  <2>3. Standing(last)[c[k]] = Standing(at)[c[k]]
    BY <2>1, <2>2 DEF Standing
  <2> QED
    BY <1>3, <1>4, <2>1, <2>3
<1>8. d[m + 1] = n + 1
  <2>1. {j \in last : j <= n + 1} = last
    <3>1. \A j \in last : j <= n + 1
      BY <1>0
    <3> QED
      BY <3>1
  <2>2. Standing(last)[n + 1] = m + 1
    BY <1>2, <2>1 DEF Standing
  <2> QED
    BY <1>4, <2>2
<1> HIDE DEF c, d, m, last
<1>9. \A k \in 1..m : c[k] \in 1..n /\ s[c[k]] \in S /\ u[c[k]] = s[c[k]]
  <2> TAKE k \in 1..m
  <2>1. c[k] \in at
    BY <1>3
  <2> QED
    BY <1>0, <1>5, <2>1
<1>10. p \in Seq(S) /\ Len(p) = m
  BY <1>1, <1>6, <1>9
<1>11. Picked(u, at) = p
  BY <1>6, <1>9
<1> HIDE DEF p
<1>12. Picked(u, last) = Append(p, t)
  <2>1. \A k \in 1..m : p[k] = s[c[k]]
    BY <1>6
  <2>2. \A k \in 1..m : Picked(u, last)[k] = Append(p, t)[k]
    BY <1>0, <1>1, <1>6, <1>7, <1>9, <1>10, <2>1
  <2>3. Picked(u, last)[m + 1] = Append(p, t)[m + 1]
    BY <1>0, <1>1, <1>5, <1>6, <1>8, <1>10
  <2>4. \A k \in 1..(m + 1) : k \in 1..m \/ k = m + 1
    BY <1>0, <1>1
  <2>5. /\ Append(p, t) \in Seq(S) /\ Len(Append(p, t)) = m + 1
        /\ Picked(u, last) \in [1..(m + 1) -> S]
    <3>1. \A k \in 1..(m + 1) : u[d[k]] \in S
      BY <1>0, <1>5, <1>7, <1>8, <1>9, <2>4
    <3> QED
      BY <1>0, <1>1, <1>6, <1>10, <3>1
  <2> QED
    BY <1>0, <1>1, <2>2, <2>3, <2>4, <2>5
<1> QED
  BY <1>0, <1>10, <1>11, <1>12 DEF p, u, last, Grows

(* What was given in another order has the same elements, each as often.   *)
Rearranged(t, s, n) ==
  \E p \in [1..n -> 1..n] :
    /\ t = [k \in 1..n |-> s[p[k]]]
    /\ \A i \in 1..n : \E k \in 1..n : p[k] = i
    /\ \A k, l \in 1..n : k # l => p[k] # p[l]

LEMMA RearrangedSame ==
  ASSUME NEW n \in Nat, NEW S, NEW s \in [1..n -> S], NEW t \in Rearrangements(s)
  PROVE  /\ t \in [1..n -> S] /\ Elements(t) = Elements(s)
         /\ Rearranged(t, s, n)
<1>1. PICK p \in Bijection(1..n, 1..n) : t = [k \in 1..n |-> s[p[k]]]
  BY DEF Rearrangements
<1>2. /\ p \in [1..n -> 1..n]
      /\ \A i \in 1..n : \E k \in 1..n : p[k] = i
      /\ \A k, l \in 1..n : k # l => p[k] # p[l]
  BY DEF Bijection, Injection, Surjection, IsInjective
<1>3. t \in [1..n -> S] /\ \A k \in 1..n : t[k] = s[p[k]]
  BY <1>1, <1>2
<1>4. \A x : x \in Elements(t) <=> x \in Elements(s)
  <2>1. \A k \in 1..n : t[k] \in Elements(s)
    BY <1>2, <1>3 DEF Elements
  <2>2. \A i \in 1..n : s[i] \in Elements(t)
    <3> TAKE i \in 1..n
    <3>1. PICK k \in 1..n : p[k] = i
      BY <1>2
    <3> QED
      BY <1>3, <3>1 DEF Elements
  <2> QED
    BY <1>3, <2>1, <2>2 DEF Elements
<1> QED
  BY <1>1, <1>2, <1>3, <1>4 DEF Rearranged
=============================================================================
