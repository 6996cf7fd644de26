----------------------------- MODULE Iteration ------------------------------
(***************************************************************************)
(* Loops of a known length as recursive functions: a function that starts  *)
(* with a and whose n-th value is computed from the one before exists, and *)
(* what holds of the first value and is kept by every round holds of all.  *)
(* Both are about sets and functions instead of operators, so that they    *)
(* can be cited wherever such a loop is.                                   *)
(***************************************************************************)
EXTENDS Integers, WellFoundedInduction, TLAPS

\* Every non-empty set of naturals has a least element.
LEMMA LeastElement ==
  ASSUME NEW T \in SUBSET Nat, T # {}
  PROVE  \E m \in T : \A k \in T : m <= k
<1>1. IsWellFoundedOn(OpToRel(<, Nat), Nat)
  BY NatLessThanWellFounded
<1>2. PICK m \in T : \A k \in T : ~ (<<k, m>> \in OpToRel(<, Nat))
  BY <1>1, WFMin
<1>3. ASSUME NEW k \in T PROVE m <= k
  <2>1. ~ (<<k, m>> \in OpToRel(<, Nat))
    BY <1>2
  <2>2. <<k, m>> \in Nat \X Nat
    OBVIOUS
  <2>3. ~ (k < m)
    BY <2>1, <2>2 DEF OpToRel
  <2> QED BY <2>3
<1> QED BY <1>3

\* A set that has 0 and, with every number below n, the next one, has 0..n.
LEMMA Rounds ==
  ASSUME NEW n \in Nat, NEW S, 0 \in S,
         \A i \in 1..n : i - 1 \in S => i \in S
  PROVE  \A i \in 0..n : i \in S
<1> DEFINE Bad == (0..n) \ S
<1>1. SUFFICES ASSUME Bad # {} PROVE FALSE
  OBVIOUS
<1>2. PICK m \in Bad : \A k \in Bad : m <= k
  <2>1. Bad \in SUBSET Nat
    OBVIOUS
  <2> HIDE DEF Bad
  <2> QED BY <1>1, <2>1, LeastElement
<1>3. m # 0 /\ m \in 1..n /\ m - 1 \in 0..n /\ ~ (m <= m - 1)
  BY <1>2
<1>4. m - 1 \in S
  BY <1>2, <1>3
<1> QED BY <1>2, <1>3, <1>4

\* The values of n rounds, the i-th of which maps a value to step[i] of it.
Iterates(n, a, step, f) == f = [i \in 0..n |-> IF i = 0 THEN a ELSE step[i][f[i-1]]]

\* They exist, and each is a value.
LEMMA IteratesExist ==
  ASSUME NEW n \in Nat, NEW X, NEW a \in X, NEW step \in [1..n -> [X -> X]]
  PROVE  \E f \in [0..n -> X] : Iterates(n, a, step, f)
<1> DEFINE Good == {k \in 0..n : \E f \in [0..k -> X] : Iterates(k, a, step, f)}
<1>1. 0 \in Good
  <2>1. /\ [i \in 0..0 |-> a] \in [0..0 -> X]
        /\ Iterates(0, a, step, [i \in 0..0 |-> a])
    BY DEF Iterates
  <2> QED BY <2>1
<1>2. ASSUME NEW k \in 1..n, k - 1 \in Good PROVE k \in Good
  <2>1. PICK f \in [0..(k-1) -> X] : Iterates(k - 1, a, step, f)
    BY <1>2
  <2> DEFINE g == [i \in 0..k |-> IF i = k THEN step[k][f[k-1]] ELSE f[i]]
  <2>2. k - 1 \in 0..(k-1) /\ step[k] \in [X -> X] /\ f[k-1] \in X
    BY <2>1
  <2>3. g \in [0..k -> X]
    BY <2>1, <2>2
  <2>4. ASSUME NEW i \in 0..k
        PROVE  g[i] = IF i = 0 THEN a ELSE step[i][g[i-1]]
    <3>1. CASE i = k
      <4>1. i # 0 /\ g[k] = step[k][f[k-1]] /\ k - 1 # k /\ k - 1 \in 0..k
        BY <3>1
      <4>2. g[k-1] = f[k-1]
        BY <4>1
      <4> QED BY <4>1, <4>2, <3>1
    <3>2. CASE i # k
      <4>1. i \in 0..(k-1) /\ (i # 0 => i - 1 \in 0..k /\ i - 1 # k)
        BY <3>2
      <4>2. f[i] = IF i = 0 THEN a ELSE step[i][f[i-1]]
        BY <4>1, <2>1 DEF Iterates
      <4> QED BY <4>1, <4>2, <3>2
    <3> QED BY <3>1, <3>2
  <2>5. Iterates(k, a, step, g)
    <3> HIDE DEF g
    <3>1. g = [i \in 0..k |-> g[i]]
      BY <2>3
    <3> QED BY <3>1, <2>4 DEF Iterates
  <2> HIDE DEF g
  <2>6. k \in 0..n
    OBVIOUS
  <2> QED BY <2>3, <2>5, <2>6
<1> HIDE DEF Good
<1>3. \A k \in 0..n : k \in Good
  BY <1>1, <1>2, Rounds
<1>4. n \in Good
  BY <1>3
<1> QED BY <1>4 DEF Good
=============================================================================
