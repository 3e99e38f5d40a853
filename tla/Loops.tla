-------------------------------- MODULE Loops --------------------------------
(***************************************************************************)
(* Lemmas about loops: a recursive function                                *)
(*   f[n \in 0..N] == IF n = 0 THEN c ELSE the body of f[n - 1] in turn n   *)
(* computes what its definition says, and what its turns preserve holds of *)
(* its result.  Induction is stated for a set of numbers, not a predicate. *)
(***************************************************************************)
EXTENDS Naturals, WellFoundedInduction, TLAPS

(* A set of numbers has a least element.                                   *)
LEMMA Least ==
  ASSUME NEW S \in SUBSET Nat, S # {} PROVE \E m \in S : \A n \in S : m <= n
<1>1. PICK x \in S : \A y \in S : ~(<<y, x>> \in OpToRel(<, Nat))
  BY NatLessThanWellFounded, WFMin
<1>2. \A y \in S : ~(y < x)
  BY <1>1 DEF OpToRel
<1> QED
  BY <1>2

(* A set of numbers that are none above N has a greatest element.          *)
LEMMA Greatest ==
  ASSUME NEW N \in Nat, NEW S \in SUBSET (0..N), S # {} PROVE \E m \in S : \A n \in S : n <= m
<1> DEFINE T == {k \in 0..N : N - k \in S}
<1>1. T \in SUBSET Nat /\ T # {}
  <2>1. PICK n \in S : TRUE
    OBVIOUS
  <2>2. N - n \in T
    OBVIOUS
  <2> QED
    BY <2>2
<1>2. PICK k \in T : \A j \in T : k <= j
  <2> HIDE DEF T
  <2> QED
    BY <1>1, Least
<1>3. \A n \in S : N - n \in T
  OBVIOUS
<1> QED
  BY <1>2, <1>3

(* What holds of 0, and of n + 1 when it holds of n, holds of every number *)
(* up to N.                                                                *)
LEMMA Induct ==
  ASSUME NEW N \in Nat, NEW S, 0 \in S, \A n \in 0..(N - 1) : n \in S => n + 1 \in S
  PROVE  \A n \in 0..N : n \in S
<1> DEFINE T == (0..N) \ S
<1> SUFFICES ASSUME T # {} PROVE FALSE
  OBVIOUS
<1>1. PICK m \in T : \A n \in T : m <= n
  <2>1. T \in SUBSET Nat
    OBVIOUS
  <2> HIDE DEF T
  <2> QED
    BY <2>1, Least
<1>2. m # 0 /\ m - 1 \in 0..(N - 1) /\ m - 1 \in S
  BY <1>1
<1> QED
  BY <1>1, <1>2

(* There is a function that computes a loop: what the body makes of c in   *)
(* n turns.                                                                *)
LEMMA LoopExists ==
  ASSUME NEW X, NEW c \in X, NEW N \in Nat, NEW G \in [1..N -> [X -> X]]
  PROVE  \E f \in [0..N -> X] : f[0] = c /\ \A i \in 1..N : f[i] = G[i][f[i - 1]]
<1> DEFINE Follows(f, n) == f[0] = c /\ \A i \in 1..n : f[i] = G[i][f[i - 1]]
           S == {n \in 0..N : \E f \in [0..n -> X] : Follows(f, n)}
<1>1. 0 \in S
  <2> DEFINE g == [i \in 0..0 |-> c]
  <2>1. g \in [0..0 -> X] /\ g[0] = c /\ 0 \in 0..N
    OBVIOUS
  <2>2. Follows(g, 0)
    BY <2>1
  <2> HIDE DEF g, Follows
  <2> QED
    BY <2>1, <2>2
<1>2. ASSUME NEW n \in 0..(N - 1), n \in S PROVE n + 1 \in S
  <2>1. PICK f \in [0..n -> X] : Follows(f, n)
    BY <1>2
  <2> DEFINE g == [i \in 0..(n + 1) |-> IF i = n + 1 THEN G[n + 1][f[n]] ELSE f[i]]
  <2>2. n + 1 \in 1..N /\ f[n] \in X
    OBVIOUS
  <2>3. G[n + 1][f[n]] \in X
    BY <2>2
  <2>4. g \in [0..(n + 1) -> X] /\ g[n] = f[n] /\ g[n + 1] = G[n + 1][g[n]]
    BY <2>3
  <2>5. \A i \in 0..n : g[i] = f[i]
    OBVIOUS
  <2> HIDE DEF g
  <2>6. ASSUME NEW i \in 1..(n + 1) PROVE g[i] = G[i][g[i - 1]]
    <3>1. CASE i = n + 1
      BY <2>4, <3>1
    <3>2. CASE i # n + 1
      <4>1. i \in 1..n /\ i \in 0..n /\ i - 1 \in 0..n
        BY <3>2
      <4> QED
        BY <4>1, <2>1, <2>5
    <3> QED
      BY <3>1, <3>2
  <2>7. Follows(g, n + 1)
    BY <2>1, <2>5, <2>6
  <2> HIDE DEF Follows
  <2> QED
    BY <2>4, <2>7
<1>3. \A n \in 0..N : n \in S
  <2> HIDE DEF S
  <2> QED
    BY <1>1, <1>2, Induct
<1> QED
  BY <1>3
==============================================================================
