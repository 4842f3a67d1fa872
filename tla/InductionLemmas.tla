---------------------------- MODULE InductionLemmas ---------------------------
(***************************************************************************)
(* Facts the proofs share: extremes of sets of numbers, induction up to a  *)
(* number as a fact about sets, and recursive functions.                   *)
(***************************************************************************)
EXTENDS Integers, FiniteSetsExt, WellFoundedInduction, TLAPS

LEMMA LeastNumber ==
    ASSUME NEW T, T \subseteq Nat, T # {}
    PROVE  Min(T) \in T /\ \A y \in T: Min(T) <= y
<1> DEFINE R == OpToRel(<, Nat)
<1>1. IsWellFoundedOn(R, Nat)
  BY NatLessThanWellFounded
<1> HIDE DEF R
<1>2. PICK x \in T: \A y \in T: ~ (<<y, x>> \in R)
  BY <1>1, WFMin
<1>3. \A y \in T: y < x => <<y, x>> \in R
  BY DEF R, OpToRel
<1>4. \A y \in T: ~ (y < x)
  BY <1>2, <1>3
<1>5. \E z \in T: \A y \in T: z <= y
  BY <1>4
<1> QED
  BY <1>5 DEF Min

LEMMA GreatestNumber ==
    ASSUME NEW n \in Nat, NEW T, T \subseteq 0 .. n, T # {}
    PROVE  Max(T) \in T /\ \A y \in T: y <= Max(T)
<1> DEFINE Mirror == {m \in 0 .. n: n - m \in T}
<1>1. Mirror \subseteq Nat /\ Mirror # {}
  <2>1. PICK x \in T: TRUE
    OBVIOUS
  <2>2. n - x \in 0 .. n /\ n - (n - x) = x
    OBVIOUS
  <2>3. n - x \in Mirror
    BY <2>1, <2>2
  <2>4. Mirror \subseteq Nat
    OBVIOUS
  <2> QED BY <2>3, <2>4
<1>2. PICK least \in Mirror: \A m \in Mirror: least <= m
  BY <1>1, LeastNumber
<1>3. n - least \in T
  BY <1>2
<1>4. \A y \in T: n - least >= y
  <2> SUFFICES ASSUME NEW y \in T PROVE n - least >= y
    OBVIOUS
  <2>1. y \in 0 .. n /\ n - y \in 0 .. n /\ n - (n - y) = y
    OBVIOUS
  <2>2. n - y \in Mirror
    BY <2>1
  <2>3. least <= n - y /\ least \in 0 .. n
    BY <1>2, <2>2
  <2> QED BY <2>1, <2>3
<1>5. \E x \in T: \A y \in T: x >= y
  BY <1>3, <1>4
<1>6. Max(T) \in T /\ \A y \in T: Max(T) >= y
  BY <1>5 DEF Max
<1> QED BY <1>6

\* What holds at first and is handed on holds to the end.
LEMMA UpTo ==
    ASSUME NEW N \in Nat, NEW T, 0 \in T, \A n \in 1 .. N: n - 1 \in T => n \in T
    PROVE  \A n \in 0 .. N: n \in T
<1> SUFFICES ASSUME NEW n \in 0 .. N, n \notin T
             PROVE  FALSE
  OBVIOUS
<1> DEFINE U == {i \in 0 .. N: i \notin T}
<1>1. Min(U) \in U /\ \A i \in U: Min(U) <= i
  <2>1. U \subseteq Nat /\ U # {}
    OBVIOUS
  <2> QED
    BY <2>1, LeastNumber
<1> DEFINE m == Min(U)
<1>2. m \in 1 .. N
  BY <1>1
<1>3. m - 1 \in 0 .. N /\ m - 1 \notin U
  BY <1>1, <1>2
<1> QED
  BY <1>1, <1>2, <1>3

\* A state taken through the steps 1 to N, each a function of the state.
Steps(N, S) == [1 .. N -> [S -> S]]

IsRun(f, N, S, s0, step) ==
    f \in [0 .. N -> S] /\ f[0] = s0 /\ \A n \in 1 .. N: f[n] = step[n][f[n - 1]]

\* There is a run through any steps, whatever recursive function they make up.
LEMMA RunExists ==
    ASSUME NEW S, NEW N \in Nat, NEW s0 \in S, NEW step, step \in Steps(N, S)
    PROVE  \E f: IsRun(f, N, S, s0, step)
<1> USE DEF Steps
<1> DEFINE Runs(f, n) == f[0] = s0 /\ \A i \in 1 .. n: f[i] = step[i][f[i - 1]]
           T == {n \in 0 .. N: \E f \in [0 .. n -> S]: Runs(f, n)}
<1>1. \E f \in [0 .. 0 -> S]: Runs(f, 0)
  <2>1. [i \in 0 .. 0 |-> s0] \in [0 .. 0 -> S]
    OBVIOUS
  <2>2. Runs([i \in 0 .. 0 |-> s0], 0)
    OBVIOUS
  <2> HIDE DEF Runs
  <2> QED
    BY <2>1, <2>2
<1>2. ASSUME NEW n \in 1 .. N, NEW f \in [0 .. n - 1 -> S], Runs(f, n - 1)
      PROVE  \E h \in [0 .. n -> S]: Runs(h, n)
  <2> DEFINE g == [i \in 0 .. n |-> IF i = n THEN step[n][f[n - 1]] ELSE f[i]]
  <2>1. step[n] \in [S -> S] /\ n - 1 \in 0 .. n - 1 /\ f[n - 1] \in S
    OBVIOUS
  <2>2. g \in [0 .. n -> S]
    <3>1. step[n][f[n - 1]] \in S
      BY <2>1
    <3> QED
      BY <3>1
  <2>3. Runs(g, n)
    <3>1. g[0] = s0
      BY <1>2
    <3>2. ASSUME NEW i \in 1 .. n
          PROVE  g[i] = step[i][g[i - 1]]
      <4>1. g[i - 1] = f[i - 1]
        OBVIOUS
      <4>2. CASE i = n
        BY <4>1, <4>2
      <4>3. CASE i # n
        <5>1. i \in 1 .. n - 1
          BY <4>3
        <5> QED
          BY <1>2, <4>1, <5>1
      <4> QED
        BY <4>2, <4>3
    <3> QED
      BY <3>1, <3>2
  <2> HIDE DEF g, Runs
  <2> QED
    BY <2>2, <2>3
<1> HIDE DEF Runs
<1>3. 0 \in T
  BY <1>1
<1>4. \A n \in 1 .. N: n - 1 \in T => n \in T
  BY <1>2
<1>5. N \in T
  <2> HIDE DEF T
  <2>1. \A n \in 0 .. N: n \in T
    BY <1>3, <1>4, UpTo
  <2> QED
    BY <2>1
<1> QED
  BY <1>5 DEF Runs, IsRun
=============================================================================
