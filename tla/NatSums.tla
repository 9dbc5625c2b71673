------------------------------- MODULE NatSums ------------------------------
(***************************************************************************)
(* Induction over numbers with sets in place of predicates, and sums over   *)
(* a table that are written as recursive functions.                         *)
(***************************************************************************)
EXTENDS Integers, WellFoundedInduction, TLAPS

(* Every set of natural numbers with an element has a least one.  This is   *)
(* induction in a form that can be used for any set.                        *)
LEMMA LeastInNat ==
    ASSUME NEW S, S \subseteq Nat, S # {}
    PROVE  \E m \in S : \A k \in S : m <= k
<1> DEFINE R == OpToRel(<, Nat)
<1>1. IsWellFoundedOn(R, Nat)
  BY NatLessThanWellFounded
<1>2. \A x, y \in Nat : <<x, y>> \in R <=> x < y
  BY DEF OpToRel
<1> HIDE DEF R
<1>3. PICK m \in S : \A y \in S : ~(<<y, m>> \in R)
  BY <1>1, WFMin
<1>4. \A y \in S : ~(y < m)
  BY <1>2, <1>3
<1>5. \A y \in S : m <= y
  BY <1>4
<1> QED
  BY <1>3, <1>5

(* A sum over the elements of a sequence in front of a place is defined,    *)
(* whatever is added up: finite tables of it exist, and agree.              *)
LEMMA SumDefined ==
    ASSUME NEW a
    PROVE  \E f : f = [i \in Nat |-> IF i <= 1 THEN 0 ELSE f[i - 1] + a[i - 1]]
<1> DEFINE Table(n, f) ==
              f = [i \in 0 .. n |-> IF i <= 1 THEN 0 ELSE f[i - 1] + a[i - 1]]
<1>1. \A n \in Nat : \E f : Table(n, f)
  <2> DEFINE S == {n \in Nat : ~ \E f : Table(n, f)}
  <2> SUFFICES ASSUME S # {}
               PROVE  FALSE
    OBVIOUS
  <2>1. PICK m \in S : \A k \in S : m <= k
    BY LeastInNat
  <2>2. ASSUME NEW g, NEW n \in Nat, Table(n, g)
        PROVE  \E f : Table(n + 1, f)
    <3> DEFINE f == [i \in 0 .. n + 1 |-> IF i <= 1 THEN 0 ELSE g[i - 1] + a[i - 1]]
    <3>1. ASSUME NEW i \in 0 .. n
          PROVE  f[i] = g[i]
      BY <2>2
    <3>2. \A i \in 0 .. n + 1 : i > 1 => i - 1 \in 0 .. n
      OBVIOUS
    <3>3. f = [i \in 0 .. n + 1 |-> f[i]]
      OBVIOUS
    <3>4. \A i \in 0 .. n + 1 : f[i] = IF i <= 1 THEN 0 ELSE g[i - 1] + a[i - 1]
      OBVIOUS
    <3> HIDE DEF f
    <3>5. \A i \in 0 .. n + 1 : f[i] = IF i <= 1 THEN 0 ELSE f[i - 1] + a[i - 1]
      BY <3>1, <3>2, <3>4
    <3> QED
      BY <3>3, <3>5
  <2>3. \E f : Table(0, f)
    <3>1. Table(0, [i \in 0 .. 0 |-> 0])
      OBVIOUS
    <3> QED
      BY <3>1
  <2> HIDE DEF Table
  <2>4. m # 0
    BY <2>3
  <2>5. m - 1 \in Nat /\ m - 1 \notin S
    BY <2>1, <2>4
  <2>6. \E f : Table((m - 1) + 1, f)
    BY <2>2, <2>5
  <2> QED
    BY <2>1, <2>6
<1>2. ASSUME NEW n \in Nat, NEW m \in Nat, NEW f, NEW g, Table(n, f), Table(m, g),
             NEW j \in Nat, j <= n, j <= m
      PROVE  f[j] = g[j]
  <2> DEFINE S == {i \in Nat : i <= n /\ i <= m /\ f[i] # g[i]}
  <2> SUFFICES ASSUME S # {}
               PROVE  FALSE
    BY <1>2
  <2>1. PICK l \in S : \A k \in S : l <= k
    BY LeastInNat
  <2>2. \A i \in 0 .. n : f[i] = IF i <= 1 THEN 0 ELSE f[i - 1] + a[i - 1]
    BY <1>2
  <2>3. \A i \in 0 .. m : g[i] = IF i <= 1 THEN 0 ELSE g[i - 1] + a[i - 1]
    BY <1>2
  <2> HIDE DEF Table
  <2>4. l > 1
    BY <2>1, <2>2, <2>3
  <2>5. f[l - 1] = g[l - 1]
    BY <2>1, <2>4
  <2> QED
    BY <2>1, <2>2, <2>3, <2>4, <2>5
<1> DEFINE tab(n) == CHOOSE f : Table(n, f)
           F == [i \in Nat |-> tab(i)[i]]
<1>3. \A n \in Nat : Table(n, tab(n))
  BY <1>1
<1>4. ASSUME NEW i \in Nat
      PROVE  F[i] = IF i <= 1 THEN 0 ELSE F[i - 1] + a[i - 1]
  <2>1. F[i] = tab(i)[i]
    OBVIOUS
  <2>2. tab(i)[i] = IF i <= 1 THEN 0 ELSE tab(i)[i - 1] + a[i - 1]
    <3> HIDE DEF tab
    <3> QED
      BY <1>3
  <2>3. ASSUME i > 1
        PROVE  tab(i)[i - 1] = F[i - 1]
    <3>1. i - 1 \in Nat /\ F[i - 1] = tab(i - 1)[i - 1]
      BY <2>3
    <3> HIDE DEF tab, Table, F
    <3>2. tab(i)[i - 1] = tab(i - 1)[i - 1]
      BY <1>2, <1>3, <3>1
    <3> QED
      BY <3>1, <3>2
  <2> HIDE DEF tab, Table, F
  <2> QED
    BY <2>1, <2>2, <2>3
<1>5. F = [i \in Nat |-> IF i <= 1 THEN 0 ELSE F[i - 1] + a[i - 1]]
  <2>1. F = [i \in Nat |-> F[i]]
    OBVIOUS
  <2> HIDE DEF F
  <2> QED
    BY <1>4, <2>1
<1> QED
  BY <1>5
=============================================================================
