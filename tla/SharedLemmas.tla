---------------------------- MODULE SharedLemmas ----------------------------
(***************************************************************************)
(* Facts about numbers and tables that the proofs share.                   *)
(***************************************************************************)
EXTENDS Tables, Integers, Sequences, WellFoundedInduction, TLAPS

\* A non-empty set of natural numbers has a least one.
LEMMA LeastNumber ==
    ASSUME NEW T \in SUBSET Nat, T # {}
    PROVE  \E m \in T : \A n \in T : m <= n
<1> DEFINE R == OpToRel(<, Nat)
<1>1. IsWellFoundedOn(R, Nat)
  BY NatLessThanWellFounded
<1>2. \A x, y \in Nat : x < y => <<x, y>> \in R
  BY DEF OpToRel
<1> HIDE DEF R
<1>3. PICK m \in T : \A n \in T : ~ (<<n, m>> \in R)
  BY <1>1, WFMin
<1>4. \A n \in T : ~ (n < m)
  BY <1>2, <1>3
<1> QED
  BY <1>4

\* Division rounds down.
LEMMA Quotient ==
    ASSUME NEW a \in Int, NEW b \in Nat, b > 0
    PROVE  /\ a \div b \in Int
           /\ b * (a \div b) <= a
           /\ a < b * (a \div b) + b
OBVIOUS

\* Induction, over the set of the numbers for which a statement holds.
LEMMA SetInduction ==
    ASSUME NEW T, 0 \in T, \A n \in Nat : n \in T => n + 1 \in T
    PROVE  Nat \subseteq T
<1> DEFINE Rest == {n \in Nat : n \notin T}
<1>1. SUFFICES ASSUME Rest # {}
               PROVE  FALSE
  OBVIOUS
<1>2. PICK m \in Rest : \A n \in Rest : m <= n
  BY <1>1, LeastNumber
<1>3. m # 0
  BY <1>2
<1>4. m - 1 \in Nat /\ m - 1 \notin Rest
  BY <1>2, <1>3
<1> QED
  BY <1>2, <1>4

\* What holds at first and after every turn holds after all of them.
LEMMA RunType ==
    ASSUME NEW S, NEW L \in Nat, NEW h, h[0] \in S,
           \A i \in 1 .. L : h[i - 1] \in S => h[i] \in S
    PROVE  \A i \in 0 .. L : h[i] \in S
<1> DEFINE T == {i \in Nat : i <= L => h[i] \in S}
<1>1. 0 \in T
  OBVIOUS
<1>2. ASSUME NEW i \in Nat, i \in T
      PROVE  i + 1 \in T
  <2> SUFFICES ASSUME i + 1 <= L
               PROVE  h[i + 1] \in S
    OBVIOUS
  <2>1. i + 1 \in 1 .. L /\ (i + 1) - 1 = i /\ h[i] \in S
    BY <1>2
  <2>2. h[(i + 1) - 1] \in S => h[i + 1] \in S
    BY <2>1
  <2> QED
    BY <2>1, <2>2
<1> HIDE DEF T
<1>3. Nat \subseteq T
  BY <1>1, <1>2, SetInduction
<1> QED
  BY <1>3 DEF T

\* A bounded non-empty set of natural numbers has a greatest one.
LEMMA GreatestNumber ==
    ASSUME NEW b \in Nat, NEW T \in SUBSET (0 .. b), T # {}
    PROVE  \E m \in T : \A n \in T : n <= m
<1> DEFINE D == {b - x : x \in T}
<1>1. D \in SUBSET Nat /\ D # {}
  <2>1. \A x \in T : x \in 0 .. b
    OBVIOUS
  <2>2. \A x \in 0 .. b : b - x \in Nat
    OBVIOUS
  <2> QED
    BY <2>1, <2>2, Zenon
<1>2. PICK d \in D : \A n \in D : d <= n
  BY <1>1, LeastNumber
<1>3. PICK m \in T : d = b - m
  BY <1>2
<1>4. ASSUME NEW n \in T
      PROVE  n <= m
  <2>1. b - n \in D /\ b - m <= b - n
    BY <1>2, <1>3
  <2>2. m \in 0 .. b /\ n \in 0 .. b
    OBVIOUS
  <2> HIDE DEF D
  <2> QED
    BY <2>1, <2>2
<1> QED
  BY <1>4

\* A table of the numbers up to a bound is a sequence.
LEMMA TableSequence ==
    ASSUME NEW S, NEW n \in Nat, NEW f, f = [i \in 1 .. n |-> f[i]],
           \A i \in 1 .. n : f[i] \in S
    PROVE  f \in Seq(S) /\ Len(f) = n
<1> DEFINE g == [i \in 1 .. n |-> f[i]]
<1>1. g \in Seq(S)
  OBVIOUS
<1>2. Len(g) = n
  OBVIOUS
<1>3. f = g
  OBVIOUS
<1> HIDE DEF g
<1> QED
  BY <1>1, <1>2, <1>3

\* A run of L steps that begins with b.
IsRun(g, b, step, L) == g[0] = b /\ \A i \in 1 .. L : g[i] = step[i][g[i - 1]]

\* A function that is defined by recursion on the numbers up to a bound exists, and
\* has its values in the set that the steps stay in.
LEMMA Recursion ==
    ASSUME NEW S, NEW b \in S, NEW step \in [Nat -> [S -> S]], NEW L \in Nat
    PROVE  \E g \in [0 .. L -> S] : IsRun(g, b, step, L)
<1> DEFINE Turn(g, i) == IF i = 0 THEN b ELSE step[i][g[i - 1]]
           T == {n \in Nat : \E g \in [0 .. n -> S] : g = [i \in 0 .. n |-> Turn(g, i)]}
<1>1. 0 \in T
  <2> DEFINE g == [i \in 0 .. 0 |-> b]
  <2>1. g \in [0 .. 0 -> S]
    OBVIOUS
  <2>2. g = [i \in 0 .. 0 |-> Turn(g, i)]
    BY 0 .. 0 = {0}
  <2> QED
    BY <2>1, <2>2
<1>2. ASSUME NEW n \in Nat, n \in T
      PROVE  n + 1 \in T
  <2>1. PICK g \in [0 .. n -> S] : g = [i \in 0 .. n |-> Turn(g, i)]
    BY <1>2
  <2> DEFINE v == step[n + 1][g[n]]
             h == [i \in 0 .. n + 1 |-> IF i <= n THEN g[i] ELSE v]
  <2>2. v \in S
    <3>1. g[n] \in S /\ n + 1 \in Nat
      BY <2>1
    <3> QED
      BY <3>1
  <2>3. h \in [0 .. n + 1 -> S]
    <3> HIDE DEF v
    <3>1. \A i \in 0 .. n + 1 : i <= n => i \in 0 .. n
      OBVIOUS
    <3> QED
      BY <2>1, <2>2, <3>1
  <2>4. ASSUME NEW i \in 0 .. n + 1
        PROVE  h[i] = Turn(h, i)
    <3>1. CASE i = 0
      <4>1. 0 \in 0 .. n /\ 0 <= n
        OBVIOUS
      <4>2. h[0] = g[0] /\ g[0] = Turn(g, 0)
        BY <2>1, <4>1
      <4> QED
        BY <3>1, <4>2
    <3>2. CASE i \in 1 .. n
      <4>1. i \in 0 .. n /\ i <= n /\ i - 1 \in 0 .. n /\ i - 1 <= n /\ i - 1 \in 0 .. n + 1
        BY <3>2
      <4>2. h[i] = g[i] /\ h[i - 1] = g[i - 1]
        BY <4>1
      <4>3. g[i] = Turn(g, i)
        BY <2>1, <4>1
      <4> HIDE DEF h
      <4> QED
        BY <3>2, <4>2, <4>3
    <3>3. CASE i = n + 1
      <4>1. i # 0 /\ i - 1 = n /\ n \in 0 .. n + 1 /\ n <= n /\ ~ (i <= n)
        BY <3>3
      <4>2. h[i] = v /\ h[i - 1] = g[n]
        BY <4>1
      <4> QED
        BY <3>3, <4>1, <4>2
    <3> QED
      BY <3>1, <3>2, <3>3
  <2>5. h = [i \in 0 .. n + 1 |-> Turn(h, i)]
    <3> HIDE DEF v, Turn
    <3> QED
      BY <2>4
  <2> HIDE DEF h, Turn
  <2>6. \E f \in [0 .. n + 1 -> S] : f = [i \in 0 .. n + 1 |-> Turn(f, i)]
    BY <2>3, <2>5
  <2> QED
    BY <2>6
<1>3. L \in T
  BY <1>1, <1>2, SetInduction
<1>4. PICK g \in [0 .. L -> S] : g = [i \in 0 .. L |-> Turn(g, i)]
  BY <1>3
<1>5. \A i \in 0 .. L : g[i] = Turn(g, i)
  BY <1>4
<1>6. 0 \in 0 .. L /\ \A i \in 1 .. L : i \in 0 .. L /\ i # 0
  OBVIOUS
<1>7. IsRun(g, b, step, L)
  BY <1>5, <1>6 DEF IsRun
<1> QED
  BY <1>7

\* The same for a statement about the numbers of the turns.
LEMMA TurnByTurn ==
    ASSUME NEW L \in Nat, NEW T, 0 \in T, \A i \in 1 .. L : i - 1 \in T => i \in T
    PROVE  \A i \in 0 .. L : i \in T
<1> DEFINE S == {i \in Nat : i <= L => i \in T}
<1>1. 0 \in S
  OBVIOUS
<1>2. ASSUME NEW i \in Nat, i \in S
      PROVE  i + 1 \in S
  <2> SUFFICES ASSUME i + 1 <= L
               PROVE  i + 1 \in T
    OBVIOUS
  <2>1. i + 1 \in 1 .. L /\ (i + 1) - 1 = i /\ i \in T
    BY <1>2
  <2>2. (i + 1) - 1 \in T => i + 1 \in T
    BY <2>1
  <2> QED
    BY <2>1, <2>2
<1> HIDE DEF S
<1>3. Nat \subseteq S
  BY <1>1, <1>2, SetInduction
<1> QED
  BY <1>3 DEF S

\* What is left of a division.
LEMMA Remainder ==
    ASSUME NEW a \in Int, NEW b \in Nat, b > 0
    PROVE  a % b \in 0 .. b - 1 /\ a % b = a - b * (a \div b)
<1>1. a % b \in 0 .. b - 1
  OBVIOUS
<1>2. a % b = a - b * (a \div b)
  BY SMT
<1> QED
  BY <1>1, <1>2

=============================================================================
