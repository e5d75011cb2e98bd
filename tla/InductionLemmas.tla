--------------------------- MODULE InductionLemmas ----------------------------
(***************************************************************************)
(* Induction over natural numbers and recursive functions over intervals,  *)
(* stated with sets and functions, so that a proof can instantiate them:   *)
(* what is to be shown of n is that n is in a set, and a recursion is given*)
(* by the functions that lead from each of its values to the next.         *)
(***************************************************************************)
EXTENDS Integers, WellFoundedInduction, TLAPS

\* Every non-empty set of natural numbers has a least element.
LEMMA LeastElement ==
  ASSUME NEW T, T \subseteq Nat, T # {}
  PROVE  \E n \in T : \A m \in T : ~(m < n)
<1> DEFINE R == OpToRel(<, Nat)
<1>1. IsWellFoundedOn(R, Nat)
  BY NatLessThanWellFounded
<1>2. \A m, n \in Nat : m < n => <<m, n>> \in R
  BY DEF OpToRel
<1> HIDE DEF R
<1>3. \E n \in T : \A m \in T : ~(<<m, n>> \in R)
  BY <1>1, WFMin
<1> QED BY <1>2, <1>3

LEMMA SetInduction ==
  ASSUME NEW S, 0 \in S, \A n \in Nat : n \in S => n + 1 \in S
  PROVE  \A n \in Nat : n \in S
<1> DEFINE T == Nat \ S
<1> SUFFICES ASSUME T # {} PROVE FALSE
  OBVIOUS
<1>1. T \subseteq Nat
  OBVIOUS
<1> HIDE DEF T
<1>2. PICK n \in T : \A m \in T : ~(m < n)
  BY <1>1, LeastElement
<1> USE DEF T
<1>3. n # 0 /\ n - 1 \in Nat /\ n - 1 < n /\ n - 1 + 1 = n
  BY <1>2
<1>4. n - 1 \in S
  BY <1>2, <1>3
<1> QED BY <1>2, <1>3, <1>4

LEMMA IntervalInduction ==
  ASSUME NEW n \in Nat, NEW S, 0 \in S, \A i \in 1 .. n : i - 1 \in S => i \in S
  PROVE  \A i \in 0 .. n : i \in S
<1> DEFINE T == {i \in Nat : i <= n => i \in S}
<1>1. 0 \in T
  OBVIOUS
<1>2. \A i \in Nat : i \in T => i + 1 \in T
  <2> TAKE i \in Nat
  <2> HAVE i \in T
  <2> SUFFICES ASSUME i + 1 <= n PROVE i + 1 \in S
    OBVIOUS
  <2>1. i \in S /\ i + 1 \in 1 .. n /\ (i + 1) - 1 = i
    OBVIOUS
  <2> QED BY <2>1
<1> HIDE DEF T
<1>3. \A i \in Nat : i \in T
  BY <1>1, <1>2, SetInduction
<1> QED BY <1>3 DEF T

-----------------------------------------------------------------------------
(***************************************************************************)
(* A recursion over 0 .. n: its first value, and for each further number   *)
(* the function that makes the next value of the last one.                 *)
(***************************************************************************)
Recursion(f, n, first, step) ==
  f = [i \in 0 .. n |-> IF i = 0 THEN first ELSE step[i][f[i - 1]]]

LEMMA RecursionExists ==
  ASSUME NEW V, NEW first \in V, NEW n \in Nat, NEW step \in [1 .. n -> [V -> V]]
  PROVE  \E f \in [0 .. n -> V] : Recursion(f, n, first, step)
<1> DEFINE Has(k) == \E f \in [0 .. k -> V] : Recursion(f, k, first, step)
           S == {k \in 0 .. n : Has(k)}
<1>1. 0 \in S
  <2> DEFINE f == [i \in 0 .. 0 |-> first]
  <2>1. f \in [0 .. 0 -> V]
    OBVIOUS
  <2>2. f = [i \in 0 .. 0 |-> IF i = 0 THEN first ELSE step[i][f[i - 1]]]
    OBVIOUS
  <2> HIDE DEF f
  <2>3. Has(0)
    BY <2>1, <2>2 DEF Recursion
  <2> QED BY <2>3
<1>2. ASSUME NEW i \in 1 .. n, i - 1 \in S
      PROVE  i \in S
  <2>1. PICK g \in [0 .. (i - 1) -> V] : Recursion(g, i - 1, first, step)
    BY <1>2
  <2> DEFINE f == [j \in 0 .. i |-> IF j = i THEN step[i][g[i - 1]] ELSE g[j]]
  <2>2. i \in 1 .. n /\ i - 1 \in 0 .. (i - 1) /\ g[i - 1] \in V /\ step[i] \in [V -> V]
    BY <1>2
  <2>3. f \in [0 .. i -> V]
    <3>1. \A j \in 0 .. i : j # i => j \in 0 .. (i - 1)
      BY <1>2
    <3> QED BY <2>2, <3>1
  <2>4. ASSUME NEW j \in 0 .. i
        PROVE  f[j] = IF j = 0 THEN first ELSE step[j][f[j - 1]]
    <3>1. CASE j = i
      <4>1. j # 0 /\ j - 1 \in 0 .. i /\ j - 1 # i /\ f[j - 1] = g[i - 1]
        BY <1>2, <3>1
      <4> QED BY <3>1, <4>1
    <3>2. CASE j # i
      <4>1. j \in 0 .. (i - 1) /\ f[j] = g[j]
        BY <1>2, <3>2
      <4>2. g[j] = IF j = 0 THEN first ELSE step[j][g[j - 1]]
        BY <2>1, <4>1 DEF Recursion
      <4>3. j # 0 => j - 1 \in 0 .. i /\ j - 1 # i /\ f[j - 1] = g[j - 1]
        BY <1>2, <3>2
      <4> QED BY <4>1, <4>2, <4>3
    <3> QED BY <3>1, <3>2
  <2>5. f = [j \in 0 .. i |-> IF j = 0 THEN first ELSE step[j][f[j - 1]]]
    BY <2>4
  <2> HIDE DEF f
  <2>6. Has(i)
    BY <2>3, <2>5 DEF Recursion
  <2> QED BY <2>6
<1> HIDE DEF S
<1>3. \A i \in 0 .. n : i \in S
  BY <1>1, <1>2, IntervalInduction
<1> QED BY <1>3 DEF S
=============================================================================
