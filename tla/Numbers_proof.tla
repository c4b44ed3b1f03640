---------------------------- MODULE Numbers_proof -----------------------------
(***************************************************************************)
(* What the other proofs need of the natural numbers: least and greatest   *)
(* members of sets, quotients and remainders, and counters that wrap.      *)
(***************************************************************************)
EXTENDS Integers, WellFoundedInduction, TLAPS

\* The order of the naturals is well-founded.
LEMMA NatOrder ==
  \E R : /\ IsWellFoundedOn(R, Nat)
         /\ \A x, y \in Nat : x < y => <<x, y>> \in R
<1>1. \A x, y \in Nat : x < y => <<x, y>> \in OpToRel(<, Nat)
  BY DEF OpToRel
<1> QED BY <1>1, NatLessThanWellFounded, Zenon

\* Every nonempty set of naturals has a least member ...
LEMMA LeastExists ==
  ASSUME NEW T \in SUBSET Nat, T # {}
  PROVE  \E m \in T : \A k \in T : m <= k
<1>1. PICK R : /\ IsWellFoundedOn(R, Nat)
               /\ \A x, y \in Nat : x < y => <<x, y>> \in R
  BY NatOrder
<1>2. T \subseteq Nat /\ IsWellFoundedOn(R, Nat)
  BY <1>1
<1>3. \E m \in T : \A k \in T : ~(<<k, m>> \in R)
  BY <1>2, WFMin, Zenon
<1>4. PICK m \in T : \A k \in T : ~(<<k, m>> \in R)
  BY <1>3
<1>5. \A k \in T : ~(k < m)
  BY <1>1, <1>4
<1> QED BY <1>5

\* ... and, if it is bounded, a greatest one.
LEMMA GreatestExists ==
  ASSUME NEW b \in Nat, NEW T \in SUBSET (0 .. b), T # {}
  PROVE  \E m \in T : \A k \in T : k <= m
<1> DEFINE U == {u \in 0 .. b : b - u \in T}
<1>1. PICK t \in T : TRUE
  OBVIOUS
<1>2. b - t \in U
  BY <1>1
<1>3. U \in SUBSET Nat /\ U # {}
  BY <1>2
<1>4. PICK u \in U : \A v \in U : u <= v
  BY <1>3, LeastExists
<1>5. ASSUME NEW k \in T PROVE k <= b - u
  <2>1. b - k \in U
    OBVIOUS
  <2> QED BY <2>1, <1>4
<1> QED BY <1>4, <1>5

------------------------------------------------------------------------------
(* Division.                                                                 *)

\* The quotient and the remainder.
LEMMA DivMod ==
  ASSUME NEW R \in Nat \ {0}, NEW t \in Nat
  PROVE  /\ t \div R \in Nat /\ t % R \in 0 .. R - 1
         /\ t = R * (t \div R) + (t % R)
  OBVIOUS

\* Whole rounds do not change a remainder.
LEMMA ModOf ==
  ASSUME NEW R \in Nat \ {0}, NEW q \in Nat, NEW r \in 0 .. R - 1
  PROVE  (R * q + r) % R = r
  OBVIOUS

\* Times are ordered as their rounds.
LEMMA Rounds ==
  ASSUME NEW R \in Nat \ {0}, NEW p \in Nat, NEW q \in Nat,
         NEW a \in 0 .. R - 1, NEW b \in 0 .. R - 1, R * p + a <= R * q + b
  PROVE  p <= q
  OBVIOUS

\* Rounds are ordered as their numbers.
LEMMA RoundsGrow ==
  ASSUME NEW R \in Nat, NEW p \in Nat, NEW q \in Nat, p <= q
  PROVE  R * p <= R * q
  OBVIOUS

------------------------------------------------------------------------------
(* A counter of R values that starts at s.                                   *)

\* The counter, by the position in the round.
LEMMA CounterAt ==
  ASSUME NEW R \in Nat \ {0}, NEW s \in 0 .. R - 1, NEW t \in Nat
  PROVE  (s + t) % R = IF t % R < R - s THEN s + (t % R) ELSE s + (t % R) - R
<1> DEFINE q == t \div R
           r == t % R
<1>1. q \in Nat /\ r \in 0 .. R - 1 /\ t = R * q + r
  BY DivMod
<1> HIDE DEF q, r
<1>2. CASE r < R - s
  <2>1. s + r \in 0 .. R - 1 /\ s + t = R * q + (s + r)
    BY <1>1, <1>2
  <2>2. (s + t) % R = s + r
    BY <1>1, <2>1, ModOf
  <2> QED
    BY <1>2, <2>2 DEF r
<1>3. CASE ~(r < R - s)
  <2>1. s + r - R \in 0 .. R - 1 /\ q + 1 \in Nat
    BY <1>1, <1>3
  <2>2. s + t = R * (q + 1) + (s + r - R)
    BY <1>1
  <2>3. (s + t) % R = s + r - R
    BY <2>1, <2>2, ModOf
  <2> QED
    BY <1>3, <2>3 DEF r
<1> QED
  BY <1>2, <1>3

\* What dotime computes of the counter is the position in the round.
LEMMA LowPart ==
  ASSUME NEW R \in Nat \ {0}, NEW s \in 0 .. R - 1, NEW t \in Nat
  PROVE  (R + ((s + t) % R) - s) % R = t % R
<1> DEFINE r == t % R
<1>1. r \in 0 .. R - 1
  BY DivMod
<1>2. (s + t) % R = IF r < R - s THEN s + r ELSE s + r - R
  BY CounterAt
<1> HIDE DEF r
<1>3. CASE r < R - s
  <2>1. R + ((s + t) % R) - s = R * 1 + r
    BY <1>1, <1>2, <1>3
  <2>2. (R * 1 + r) % R = r
    BY <1>1, ModOf
  <2> QED
    BY <2>1, <2>2 DEF r
<1>4. CASE ~(r < R - s)
  <2>1. R + ((s + t) % R) - s = R * 0 + r
    BY <1>1, <1>2, <1>4
  <2>2. (R * 0 + r) % R = r
    BY <1>1, ModOf
  <2> QED
    BY <2>1, <2>2 DEF r
<1> QED
  BY <1>3, <1>4

\* A round begins when the counter comes to its start.
LEMMA NextTick ==
  ASSUME NEW R \in Nat \ {0}, NEW s \in 0 .. R - 1, NEW t \in Nat
  PROVE  (t + 1) \div R = (t \div R) + (IF (s + (t + 1)) % R = s THEN 1 ELSE 0)
<1> DEFINE q == t \div R
           r == t % R
           p == (t + 1) \div R
           v == (t + 1) % R
<1>1. q \in Nat /\ r \in 0 .. R - 1 /\ t = R * q + r
  BY DivMod
<1>2. p \in Nat /\ v \in 0 .. R - 1 /\ t + 1 = R * p + v
  <2>1. t + 1 \in Nat
    OBVIOUS
  <2> QED
    BY <2>1, DivMod
<1>3. (s + (t + 1)) % R = IF v < R - s THEN s + v ELSE s + v - R
  <2>1. t + 1 \in Nat
    OBVIOUS
  <2> QED
    BY <2>1, CounterAt
<1> HIDE DEF q, r, p, v
<1>4. (s + (t + 1)) % R = s <=> v = 0
  BY <1>2, <1>3
<1>5. q <= p
  BY <1>1, <1>2, Rounds
<1>6. CASE r + 1 < R
  <2>1. R * p + v <= R * q + (r + 1) /\ r + 1 \in 0 .. R - 1
    BY <1>1, <1>2, <1>6
  <2>2. p = q
    BY <1>1, <1>2, <1>5, <2>1, Rounds
  <2>3. v # 0
    BY <1>1, <1>2, <2>2
  <2> QED
    BY <1>1, <1>4, <2>2, <2>3 DEF p, q
<1>7. CASE r + 1 = R
  <2>1. R * (q + 1) = R * q + R
    BY <1>1
  <2>2. R * p + v = R * (q + 1) + 0 /\ 0 \in 0 .. R - 1 /\ q + 1 \in Nat
    BY <1>1, <1>2, <1>7, <2>1
  <2>3. p <= q + 1 /\ q + 1 <= p
    BY <1>2, <2>2, Rounds
  <2>4. p = q + 1
    BY <1>1, <1>2, <2>3
  <2>5. v = 0
    BY <1>2, <2>2, <2>4
  <2> QED
    BY <1>1, <1>4, <2>4, <2>5 DEF p, q
<1> QED
  BY <1>1, <1>6, <1>7
==============================================================================
