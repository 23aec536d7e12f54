-------------------------------- MODULE Loops --------------------------------
(***************************************************************************)
(* Lemmas about the loops of the models, which are recursive functions of  *)
(* the number of rounds: that such a function has a value behind every     *)
(* round, and induction over the rounds, as a fact about sets of numbers.  *)
(***************************************************************************)
EXTENDS WellFoundedInduction, TLAPS

\* A set of numbers that has 0, and n + 1 with every n of it below the bound,
\* has all numbers up to the bound.
LEMMA UpTo ==
    ASSUME NEW S, NEW L \in Nat, 0 \in S,
           \A n \in 0..L : n \in S /\ n + 1 \in 0..L => n + 1 \in S
    PROVE  0..L \subseteq S
<1> DEFINE Missing == (0..L) \ S
<1>1. SUFFICES ASSUME Missing # {} PROVE FALSE
  OBVIOUS
<1>2. PICK x \in Missing : \A y \in Missing : ~(<<y, x>> \in OpToRel(<, Nat))
  <2> Missing \subseteq Nat
    OBVIOUS
  <2> QED BY <1>1, WFMin, NatLessThanWellFounded
<1>3. x \in 1..L /\ x - 1 \in 0..L
  OBVIOUS
<1>4. x - 1 \notin S
  BY <1>3
<1>5. x - 1 \in Missing /\ <<x - 1, x>> \in OpToRel(<, Nat)
  BY <1>3, <1>4 DEF OpToRel
<1> QED BY <1>2, <1>5

\* g[k] is the value behind round k of a loop that starts with init, for n rounds.
Rounds(init, step, n, g) ==
    /\ g[0] = init
    /\ \A k \in 1..n : g[k] = step[<<g[k - 1], k>>]

\* A loop whose rounds map values of T to values of T has one behind every round.
LEMMA LoopHasValues ==
    ASSUME NEW T, NEW init \in T, NEW L \in Nat, NEW step \in [T \X (1..L) -> T]
    PROVE  \E g \in [0..L -> T] : Rounds(init, step, L, g)
<1> DEFINE S == {n \in 0..L : \E g \in [0..n -> T] : Rounds(init, step, n, g)}
<1>1. 0 \in S
  <2> DEFINE g == [k \in 0..0 |-> init]
  <2>1. g \in [0..0 -> T] /\ Rounds(init, step, 0, g)
    BY DEF Rounds
  <2> HIDE DEF g
  <2> QED BY <2>1
<1>2. ASSUME NEW n \in 0..L, n \in S, n + 1 \in 0..L PROVE n + 1 \in S
  <2>1. PICK g \in [0..n -> T] : Rounds(init, step, n, g)
    BY <1>2
  <2> DEFINE h == [k \in 0..(n + 1) |-> IF k = n + 1 THEN step[<<g[n], n + 1>>] ELSE g[k]]
  <2>2. step[<<g[n], n + 1>>] \in T
    BY <1>2
  <2>3. h \in [0..(n + 1) -> T]
    BY <2>2
  <2>4. \A k \in 0..(n + 1) : h[k] = IF k = n + 1 THEN step[<<g[n], n + 1>>] ELSE g[k]
    OBVIOUS
  <2> HIDE DEF h
  <2>5. n + 1 \in 0..(n + 1) /\ n \in 0..(n + 1) /\ 0 \in 0..(n + 1) /\ n # n + 1 /\ 0 # n + 1
    OBVIOUS
  <2>6. h[0] = init /\ h[n + 1] = step[<<h[n], n + 1>>]
    BY <2>1, <2>4, <2>5 DEF Rounds
  <2>7. ASSUME NEW k \in 1..(n + 1) PROVE h[k] = step[<<h[k - 1], k>>]
    <3>1. CASE k = n + 1
      <4>1. k - 1 = n
        BY <3>1
      <4> QED BY <2>6, <3>1, <4>1
    <3>2. CASE k # n + 1
      <4>1. k \in 1..n /\ k \in 0..(n + 1) /\ k - 1 \in 0..(n + 1) /\ k - 1 # n + 1
        BY <3>2
      <4>2. g[k] = step[<<g[k - 1], k>>]
        BY <2>1, <4>1 DEF Rounds
      <4>3. h[k] = g[k] /\ h[k - 1] = g[k - 1]
        BY <2>4, <3>2, <4>1
      <4> QED BY <4>2, <4>3
    <3> QED BY <3>1, <3>2
  <2>8. Rounds(init, step, n + 1, h)
    BY <2>6, <2>7 DEF Rounds
  <2> QED BY <1>2, <2>3, <2>8
<1>3. \A n \in 0..L : n \in S /\ n + 1 \in 0..L => n + 1 \in S
  BY <1>2
<1>4. L \in S
  <2> HIDE DEF S
  <2>1. 0..L \subseteq S
    BY <1>1, <1>3, UpTo, Zenon
  <2> QED BY <2>1
<1> QED BY <1>4
=============================================================================
