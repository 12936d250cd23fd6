------------------------------ MODULE Recursion ------------------------------
(***************************************************************************)
(* Facts about numbers that the proofs about recursive functions need:     *)
(* induction, in a form without a variable for formulas, and the existence *)
(* of a function that is defined step by step.                             *)
(***************************************************************************)
EXTENDS Integers, WellFoundedInduction, TLAPS

(* Every nonempty set of numbers has a least element. *)
LEMMA Least ==
  ASSUME NEW T \in SUBSET Nat, T # {}
  PROVE  \E m \in T : \A i \in T : m <= i
<1>1. IsWellFoundedOn(OpToRel(<, Nat), Nat)
  BY NatLessThanWellFounded
<1>2. PICK m \in T : \A i \in T : ~ (<<i, m>> \in OpToRel(<, Nat))
  BY <1>1, WFMin
<1>3. \A i \in T : ~(i < m)
  BY <1>2 DEF OpToRel
<1> QED
  BY <1>3

(* A set with 0 and with the successors of its elements below n has all    *)
(* numbers up to n.                                                        *)
LEMMA Induct ==
  ASSUME NEW n \in Nat, NEW T, 0 \in T, \A i \in 0..(n - 1) : i \in T => i + 1 \in T
  PROVE  \A i \in 0..n : i \in T
<1> DEFINE R == {i \in 0..n : i \notin T}
<1>1. ASSUME R # {} PROVE FALSE
  <2>1. R \in SUBSET Nat
    OBVIOUS
  <2>2. PICK m \in R : \A i \in R : m <= i
    <3> HIDE DEF R
    <3> QED
      BY <1>1, <2>1, Least
  <2>3. m \in 1..n /\ m \notin T
    BY <2>2
  <2>4. m - 1 \in 0..(n - 1) /\ m - 1 \in 0..n /\ ~(m <= m - 1) /\ m - 1 + 1 = m
    BY <2>3
  <2>5. m - 1 \in T
    BY <2>2, <2>4
  <2> QED
    BY <2>3, <2>4, <2>5
<1> QED
  BY <1>1

(* A function may be defined step by step. *)
LEMMA Iterates ==
  ASSUME NEW S, NEW a \in S, NEW n \in Nat, NEW f \in [1..n -> [S -> S]]
  PROVE  \E g \in [0..n -> S] : g[0] = a /\ \A i \in 1..n : g[i] = f[i][g[i - 1]]
<1> DEFINE Upto(m, g) == g \in [0..m -> S] /\ g[0] = a /\ \A i \in 1..m : g[i] = f[i][g[i - 1]]
           T == {m \in 0..n : ~ \E g : Upto(m, g)}
<1>1. ASSUME T # {} PROVE FALSE
  <2>a. T \in SUBSET Nat
    OBVIOUS
  <2>1. PICK m \in T : \A i \in T : m <= i
    <3> HIDE DEF T
    <3> QED
      BY <1>1, <2>a, Least
  <2>2. m \in 0..n /\ ~ \E g : Upto(m, g)
    BY <2>1
  <2>3. CASE m = 0
    <3>1. Upto(m, [i \in 0..0 |-> a])
      BY <2>3
    <3> QED
      BY <2>2, <3>1
  <2>4. CASE m # 0
    <3>1. m - 1 \in 0..n /\ m \in 1..n /\ ~(m <= m - 1)
      BY <2>2, <2>4
    <3>2. m - 1 \notin T
      BY <2>1, <3>1
    <3>3. PICK g : Upto(m - 1, g)
      BY <3>1, <3>2
    <3> DEFINE h == [i \in 0..m |-> IF i = m THEN f[m][g[m - 1]] ELSE g[i]]
    <3>4. /\ \A i \in 0..m : i = m \/ i \in 0..(m - 1)
          /\ \A i \in 1..m : (i = m \/ i \in 1..(m - 1)) /\ i - 1 \in 0..(m - 1) /\ i - 1 \in 0..m
                             /\ i - 1 # m
          /\ 0 \in 0..m /\ 0 # m /\ m - 1 \in 0..(m - 1)
      BY <3>1
    <3>5. f[m] \in [S -> S] /\ g[m - 1] \in S
      BY <3>1, <3>3, <3>4
    <3>6. h \in [0..m -> S] /\ h[0] = a
      BY <3>3, <3>4, <3>5
    <3>7. \A i \in 1..m : h[i] = f[i][h[i - 1]]
      <4> SUFFICES ASSUME NEW i \in 1..m PROVE h[i] = f[i][h[i - 1]]
        OBVIOUS
      <4>1. h[i - 1] = g[i - 1] /\ i \in 0..m
        BY <3>4
      <4>2. CASE i = m
        BY <4>1, <4>2
      <4>3. CASE i \in 1..(m - 1)
        BY <3>1, <3>3, <4>1, <4>3
      <4> QED
        BY <3>4, <4>2, <4>3
    <3>8. Upto(m, h)
      BY <3>6, <3>7
    <3> QED
      BY <2>2, <3>8
  <2> QED
    BY <2>3, <2>4
<1>2. \E g : Upto(n, g)
  <2>1. n \in 0..n /\ T = {}
    BY <1>1
  <2> HIDE DEF Upto
  <2> QED
    BY <2>1
<1> QED
  BY <1>2
==============================================================================
