----------------------------- MODULE Recursion ------------------------------
(* Induction for the proof modules.  The library states induction for an     *)
(* operator; here it is stated for a set of numbers, {n \in Nat : P(n)}      *)
(* where P is wanted, which the provers can use.  From it follows what is    *)
(* needed of the recursive functions of this project, f[i] from f[i - 1]:    *)
(* that there is one, that there is only one, and what all its values share. *)
EXTENDS Integers, WellFoundedInduction, TLAPS

\* A set of numbers has a least one.
LEMMA LeastNumber ==
    ASSUME NEW T \in SUBSET Nat, T # {}
    PROVE  \E x \in T : \A y \in T : x <= y
<1> DEFINE R == {p \in Nat \X Nat : p[1] < p[2]}
<1>1. OpToRel(<, Nat) = R
  BY DEF OpToRel
<1>2. IsWellFoundedOn(R, Nat)
  BY <1>1, NatLessThanWellFounded
<1>3. \A x, y \in Nat : y < x => <<y, x>> \in R
  OBVIOUS
<1> HIDE DEF R
<1>4. PICK x \in T : \A y \in T : ~ (<<y, x>> \in R)
  BY <1>2, WFMin
<1>5. ASSUME NEW y \in T PROVE x <= y
  <2>1. ~ (y < x)
    BY <1>3, <1>4
  <2> QED BY <2>1
<1> QED BY <1>5

\* What holds of zero, and of a number's successor when of the number, holds of all.
LEMMA Induction ==
    ASSUME NEW S, 0 \in S, \A n \in Nat : n \in S => n + 1 \in S
    PROVE  Nat \subseteq S
<1> SUFFICES ASSUME Nat \ S # {} PROVE FALSE
  OBVIOUS
<1>1. PICK x \in Nat \ S : \A y \in Nat \ S : x <= y
  BY LeastNumber
<1>2. x # 0 /\ x - 1 \in Nat
  BY <1>1
<1>3. x - 1 \in S
  BY <1>1, <1>2
<1> QED BY <1>1, <1>2, <1>3

\* The same for the numbers up to one.
LEMMA InductionUpTo ==
    ASSUME NEW N \in Nat, NEW S, 0 \in S, \A i \in 1..N : i - 1 \in S => i \in S
    PROVE  0..N \subseteq S
<1> DEFINE T == {n \in Nat : n <= N => n \in S}
<1>1. 0 \in T
  OBVIOUS
<1>2. ASSUME NEW n \in Nat, n \in T PROVE n + 1 \in T
  <2>1. n + 1 <= N => n + 1 \in 1..N /\ (n + 1) - 1 = n
    BY <1>2
  <2> QED BY <1>2, <2>1
<1> HIDE DEF T
<1>3. Nat \subseteq T
  BY <1>1, <1>2, Induction
<1> QED BY <1>3 DEF T

\* The values of a recursive function lie where its steps stay.
LEMMA RecursionStays ==
    ASSUME NEW N \in Nat, NEW V, NEW f, f[0] \in V,
           \A i \in 1..N : f[i - 1] \in V => f[i] \in V
    PROVE  \A i \in 0..N : f[i] \in V
<1> DEFINE S == {i \in 0..N : f[i] \in V}
<1>1. 0 \in S
  OBVIOUS
<1>2. \A i \in 1..N : i - 1 \in S => i \in S
  OBVIOUS
<1> HIDE DEF S
<1>3. 0..N \subseteq S
  BY <1>1, <1>2, InductionUpTo
<1> QED BY <1>3 DEF S

\* A function whose values up to N are made by steps from the value before.
Made(f, N, V, base, Step) ==
    /\ f \in [0..N -> V]
    /\ f[0] = base
    /\ \A i \in 1..N : f[i] = Step[i][f[i - 1]]

\* There is one, for every start and all steps that stay in a set.
LEMMA RecursionExists ==
    ASSUME NEW N \in Nat, NEW V, NEW base \in V, NEW Step \in [1..N -> [V -> V]]
    PROVE  \E f : Made(f, N, V, base, Step)
<1> DEFINE Upto(f, n) ==
              f[0] = base /\ \A i \in 1..n : f[i] = Step[i][f[i - 1]]
           S == {n \in 0..N : \E f \in [0..n -> V] : Upto(f, n)}
<1>1. 0 \in S
  <2>1. [i \in 0..0 |-> base] \in [0..0 -> V]
    OBVIOUS
  <2>2. Upto([i \in 0..0 |-> base], 0)
    OBVIOUS
  <2>3. \E f \in [0..0 -> V] : Upto(f, 0)
    BY <2>1, <2>2
  <2> QED BY <2>3
<1>2. ASSUME NEW n \in 1..N, n - 1 \in S PROVE n \in S
  <2>1. PICK f \in [0..(n - 1) -> V] : Upto(f, n - 1)
    BY <1>2
  <2> DEFINE g == [i \in 0..n |-> IF i = n THEN Step[n][f[n - 1]] ELSE f[i]]
  <2>2. g \in [0..n -> V]
    BY <2>1
  <2>3. g[0] = base
    BY <2>1
  <2>4. ASSUME NEW i \in 1..n PROVE g[i] = Step[i][g[i - 1]]
    <3>1. g[i - 1] = f[i - 1]
      OBVIOUS
    <3>2. CASE i = n
      BY <3>1, <3>2
    <3>3. CASE i # n
      <4>1. i \in 1..(n - 1) /\ g[i] = f[i]
        BY <3>3
      <4> QED BY <2>1, <3>1, <4>1
    <3> QED BY <3>2, <3>3
  <2> HIDE DEF g
  <2> QED BY <2>2, <2>3, <2>4
<1> HIDE DEF S
<1>3. 0..N \subseteq S
  BY <1>1, <1>2, InductionUpTo
<1>4. N \in S
  BY <1>3
<1> QED BY <1>4 DEF S, Made

\* Two functions with the same start and the same steps have the same values.
LEMMA RecursionUnique ==
    ASSUME NEW N \in Nat, NEW f, NEW g, f[0] = g[0],
           \A i \in 1..N : f[i - 1] = g[i - 1] => f[i] = g[i]
    PROVE  \A i \in 0..N : f[i] = g[i]
<1> DEFINE S == {i \in 0..N : f[i] = g[i]}
<1>1. 0 \in S
  OBVIOUS
<1>2. \A i \in 1..N : i - 1 \in S => i \in S
  OBVIOUS
<1> HIDE DEF S
<1>3. 0..N \subseteq S
  BY <1>1, <1>2, InductionUpTo
<1> QED BY <1>3 DEF S

=============================================================================
