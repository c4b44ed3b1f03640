------------------------------ MODULE Clock_proof ------------------------------
(***************************************************************************)
(* Proofs about Clock, for every width of the counter and for interrupts   *)
(* as late and handlers as long as the constants say: no round is counted  *)
(* twice, whatever start_time is; and, when start_time is away from the    *)
(* ends of the counter, every round is in the count or known to be missing *)
(* and the stamps and the readings are the time but for those rounds.      *)
(***************************************************************************)
EXTENDS Clock, Numbers_proof

\* What is needed of the types.
Types ==
  /\ ticks \in Nat /\ rollovercount \in Nat
  /\ start_time \in 0 .. OSCR_RANGE - 1
  /\ lastoscr \in 0 .. OSCR_RANGE - 1
  /\ irq \in {"out", "tested", "sampled"}

\* A last sample below start_time was taken at a time that the count does not
\* exceed.  Between the test and the sample it is out of date.
SampleCounted ==
  irq # "tested" /\ lastoscr < start_time =>
    \E t \in 0 .. ticks : lastoscr = oscr(t) /\ rollovercount * OSCR_RANGE <= t

IInv == Types /\ SampleCounted /\ NeverCountedTwice

------------------------------------------------------------------------------
(* The counter and its start.                                                *)

\* A counter that starts at s is at or above s in the first R - s ticks of each
\* round, and below s in the others.
LEMMA BelowStart ==
  ASSUME NEW R \in Nat \ {0}, NEW s \in 0 .. R - 1, NEW t \in Nat
  PROVE  (s + t) % R < s <=> t % R >= R - s
<1> DEFINE q == t \div R
           r == t % R
<1>1. q \in Nat /\ r \in 0 .. R - 1 /\ t = R * q + r
  BY DivMod
<1> HIDE DEF q, r
<1>2. CASE r < R - s
  <2>1. s + r \in 0 .. R - 1 /\ s + t = R * q + (s + r)
    BY <1>1, <1>2
  <2>2. (s + t) % R = s + r
    BY <1>1, <2>1, ModOf
  <2> QED
    BY <1>1, <1>2, <2>2 DEF r
<1>3. CASE r >= R - s
  <2>1. s + r - R \in 0 .. R - 1 /\ q + 1 \in Nat
    BY <1>1, <1>3
  <2>2. s + t = R * (q + 1) + (s + r - R)
    BY <1>1
  <2>3. (s + t) % R = s + r - R
    BY <2>1, <2>2, ModOf
  <2> QED
    BY <1>1, <1>3, <2>3 DEF r
<1> QED
  BY <1>1, <1>2, <1>3

\* Between a time at which the counter is below its start and a later one at
\* which it is not, a round begins.
LEMMA RoundBegins ==
  ASSUME NEW R \in Nat \ {0}, NEW s \in 0 .. R - 1,
         NEW n \in Nat, NEW t \in Nat, NEW u \in Nat,
         n * R <= t, t <= u, (s + t) % R < s, (s + u) % R >= s
  PROVE  (n + 1) * R <= u
<1> DEFINE q == t \div R
           r == t % R
           p == u \div R
           v == u % R
<1>1. q \in Nat /\ r \in 0 .. R - 1 /\ t = R * q + r
  BY DivMod
<1>2. p \in Nat /\ v \in 0 .. R - 1 /\ u = R * p + v
  BY DivMod
<1>3. r >= R - s
  BY BelowStart
<1>4. v < R - s
  <2>1. ~((s + u) % R < s)
    <3>1. (s + u) % R \in 0 .. R - 1
      BY DivMod
    <3> QED
      BY <3>1
  <2>2. ~(v >= R - s)
    BY <2>1, BelowStart
  <2> HIDE DEF v
  <2> QED
    BY <1>2, <2>2
<1> HIDE DEF q, r, p, v
<1>5. n <= q
  <2>1. R * n + 0 <= R * q + r /\ 0 \in 0 .. R - 1
    BY <1>1
  <2> QED
    BY <1>1, <2>1, Rounds
<1>6. q <= p
  BY <1>1, <1>2, Rounds
<1>7. q # p
  BY <1>1, <1>2, <1>3, <1>4
<1>8. n + 1 <= p
  BY <1>1, <1>2, <1>5, <1>6, <1>7
<1>9. R * (n + 1) <= R * p
  BY <1>2, <1>8, RoundsGrow
<1> QED
  BY <1>2, <1>9

------------------------------------------------------------------------------
(* The invariant.                                                            *)

\* The count starts at 0 and lastoscr at a value that is not below start_time.
LEMMA InitInv ==
  ClockInit => IInv
  BY ClockAssumption
  DEF ClockInit, IInv, Types, SampleCounted, NeverCountedTwice

\* The test counts a round that has begun since the last sample.
LEMMA TestInv ==
  ASSUME IInv, irq_test
  PROVE  IInv'
<1>1. OSCR_RANGE \in Nat \ {0}
  BY ClockAssumption
<1>2. irq' = "tested" /\ UNCHANGED <<ticks, start_time, lastoscr>>
      /\ irq = "out"
  BY DEF irq_test
<1>3. CASE ~Passed
  BY <1>2, <1>3
  DEF irq_test, IInv, Types, SampleCounted, NeverCountedTwice
<1>4. CASE Passed
  <2>1. PICK t \in 0 .. ticks :
          lastoscr = oscr(t) /\ rollovercount * OSCR_RANGE <= t
    BY <1>2, <1>4 DEF IInv, SampleCounted, Passed
  <2>2. oscr(t) < start_time /\ oscr(ticks) >= start_time
    BY <1>4, <2>1 DEF Passed
  <2>3. /\ ticks \in Nat /\ t \in Nat /\ t <= ticks /\ rollovercount \in Nat
        /\ start_time \in 0 .. OSCR_RANGE - 1
    BY DEF IInv, Types
  <2>4. (rollovercount + 1) * OSCR_RANGE <= ticks
    BY <1>1, <2>1, <2>2, <2>3, RoundBegins DEF oscr
  <2>5. rollovercount' = rollovercount + 1
    BY <1>4 DEF irq_test
  <2> QED
    BY <1>2, <2>3, <2>4, <2>5
    DEF IInv, Types, SampleCounted, NeverCountedTwice
<1> QED
  BY <1>3, <1>4

\* The sample is taken now.
LEMMA SampleInv ==
  ASSUME IInv, irq_sample
  PROVE  IInv'
<1>1. /\ lastoscr' = oscr(ticks) /\ irq' = "sampled"
      /\ UNCHANGED <<ticks, start_time, rollovercount>>
  BY DEF irq_sample
<1>2. ticks \in Nat /\ start_time \in Nat /\ OSCR_RANGE \in Nat \ {0}
  BY ClockAssumption DEF IInv, Types
<1>3. oscr(ticks) \in 0 .. OSCR_RANGE - 1
  <2>1. start_time + ticks \in Nat
    BY <1>2
  <2> QED
    BY <1>2, <2>1, DivMod DEF oscr
<1>4. Types'
  BY <1>1, <1>3 DEF IInv, Types
<1>5. NeverCountedTwice'
  BY <1>1 DEF IInv, NeverCountedTwice
<1>6. ticks \in 0 .. ticks' /\ lastoscr' = oscr(ticks)'
      /\ rollovercount' * OSCR_RANGE <= ticks
  BY <1>1, <1>2 DEF oscr, IInv, NeverCountedTwice
<1>7. \E t \in 0 .. ticks' :
        lastoscr' = oscr(t)' /\ rollovercount' * OSCR_RANGE <= t
  BY <1>1, <1>6 DEF oscr
<1> QED
  BY <1>4, <1>5, <1>7 DEF IInv, SampleCounted

\* The other steps only let time pass.
LEMMA OtherInv ==
  ASSUME IInv, Tick \/ irq_stamp \/ dotime \/ UNCHANGED clock_vars
  PROVE  IInv'
<1>1. UNCHANGED <<start_time, rollovercount, lastoscr>>
  BY DEF Tick, irq_stamp, dotime, dotime_read, dotime_return, clock_vars
<1>2. ticks' \in Nat /\ ticks <= ticks'
  BY DEF Tick, irq_stamp, dotime, dotime_read, dotime_return, clock_vars, IInv, Types
<1>3. irq' \in {"out", "tested", "sampled"} /\ (irq = "tested" => irq' = "tested")
  BY DEF Tick, irq_stamp, dotime, dotime_read, dotime_return, clock_vars, irq_vars,
         IInv, Types
<1>4. Types'
  BY <1>1, <1>2, <1>3 DEF IInv, Types
<1>5. rollovercount * OSCR_RANGE \in Nat
  BY ClockAssumption DEF IInv, Types
<1>6. NeverCountedTwice'
  BY <1>1, <1>2, <1>5 DEF IInv, Types, NeverCountedTwice
<1>7. SampleCounted'
  <2> SUFFICES ASSUME irq' # "tested", lastoscr' < start_time'
      PROVE  \E t \in 0 .. ticks' :
               lastoscr' = oscr(t)' /\ rollovercount' * OSCR_RANGE <= t
    BY DEF SampleCounted
  <2>1. PICK t \in 0 .. ticks :
          lastoscr = oscr(t) /\ rollovercount * OSCR_RANGE <= t
    BY <1>1, <1>3 DEF IInv, SampleCounted
  <2>2. t \in 0 .. ticks'
    BY <1>2 DEF IInv, Types
  <2> QED
    BY <1>1, <2>1, <2>2 DEF oscr
<1> QED
  BY <1>4, <1>6, <1>7 DEF IInv

\* The count is never ahead of the time: no pass of the counter by start_time
\* is counted twice (c_irq.c:37-40).
THEOREM NoRoundCountedTwice == ClockSpec => []NeverCountedTwice
<1>1. IInv /\ [ClockNext]_clock_vars => IInv'
  BY TestInv, SampleInv, OtherInv DEF ClockNext
<1>2. IInv => NeverCountedTwice
  BY DEF IInv
<1> QED
  BY InitInv, <1>1, <1>2, PTL DEF ClockSpec

------------------------------------------------------------------------------
(* The account of the rounds, for starts away from the wrap.                 *)

\* Of two samples the test tells whether a round has begun in between, when the start
\* is further from both ends of the counter than they are apart.
LEMMA PassSeen ==
  ASSUME NEW R \in Nat \ {0}, NEW s \in 0 .. R - 1,
         NEW u \in Nat, NEW t \in Nat, u <= t, t - u < s, t - u <= R - s
  PROVE  /\ (s + u) % R < s /\ (s + t) % R >= s => t \div R = (u \div R) + 1
         /\ ~((s + u) % R < s /\ (s + t) % R >= s) => t \div R = u \div R
<1> DEFINE q == u \div R
           r == u % R
           p == t \div R
           v == t % R
           g == t - u
<1>1. q \in Nat /\ r \in 0 .. R - 1 /\ u = R * q + r
  BY DivMod
<1>2. p \in Nat /\ v \in 0 .. R - 1 /\ t = R * p + v
  BY DivMod
<1>3. (s + u) % R < s <=> r >= R - s
  BY BelowStart
<1>4. (s + t) % R >= s <=> ~(v >= R - s)
  <2>1. (s + t) % R < s <=> v >= R - s
    BY BelowStart
  <2>2. (s + t) % R \in 0 .. R - 1
    BY DivMod
  <2> HIDE DEF v
  <2> QED
    BY <2>1, <2>2
<1>5. g \in Nat /\ t = u + g /\ g < s /\ g <= R - s
  OBVIOUS
<1> HIDE DEF q, r, p, v, g
<1>6. q <= p
  BY <1>1, <1>2, Rounds
<1>7. CASE p = q
  <2>1. r <= v
    BY <1>1, <1>2, <1>7
  <2>2. ~(r >= R - s /\ ~(v >= R - s))
    BY <1>1, <1>2, <2>1
  <2> QED
    BY <1>1, <1>3, <1>4, <1>7, <2>2 DEF p, q
<1>8. CASE p # q
  <2>1. r + g >= R
    <3>1. SUFFICES ASSUME r + g < R PROVE FALSE
      BY <1>1, <1>5
    <3>2. R * p + v <= R * q + (r + g) /\ r + g \in 0 .. R - 1
      BY <1>1, <1>2, <1>5, <3>1
    <3>3. p <= q
      BY <1>1, <1>2, <3>2, Rounds
    <3> QED
      BY <1>1, <1>2, <1>6, <1>8, <3>3
  <2>2. R * p + v <= R * (q + 1) + (r + g - R) /\ r + g - R \in 0 .. R - 1
    <3>1. R * (q + 1) = R * q + R
      BY <1>1
    <3> QED
      BY <1>1, <1>2, <1>5, <2>1, <3>1
  <2>3. p <= q + 1
    BY <1>1, <1>2, <2>2, Rounds
  <2>4. p = q + 1
    BY <1>1, <1>2, <1>6, <1>8, <2>3
  <2>5. R * p = R * q + R
    BY <1>1, <2>4
  <2>6. v <= r + g - R
    BY <1>1, <1>2, <1>5, <2>5
  <2>7. r >= R - s /\ ~(v >= R - s)
    BY <1>1, <1>2, <1>5, <2>1, <2>6
  <2> QED
    BY <1>3, <1>4, <2>4, <2>7 DEF p, q
<1> QED
  BY <1>7, <1>8

\* The time by its round and the position in it.
LEMMA TimeOf ==
  ASSUME NEW R \in Nat, NEW n \in Nat, NEW m \in Nat, NEW b \in Nat, NEW v \in Nat
  PROVE  R * (n + m + b) + v = (v + n * R) + R * (m + b)
  OBVIOUS

\* The rounds that have begun when the handler has sampled, at the time u, are those
\* that are counted or missed; the next test, or dotime, comes soon enough after it.
Sampled(u) ==
  /\ lastoscr < start_time <=> oscr(u) < start_time
  /\ u \div OSCR_RANGE = rollovercount + missed
  /\ irq = "sampled" => ticks - u <= since
  /\ irq = "out" =>
       /\ u <= stampTicks /\ stampTicks <= ticks
       /\ stampTicks - u <= HandlerTicks /\ ticks - stampTicks <= since
       /\ stamp = (stampTicks % OSCR_RANGE) + rollovercount * OSCR_RANGE

Waits ==
  /\ since \in Nat /\ missed \in Nat /\ stampTicks \in Nat
  /\ since <= IF irq = "out" THEN MaxIrqGap ELSE HandlerTicks

SampleTaken == irq # "tested" => \E u \in 0 .. ticks : Sampled(u)

TestDone == irq = "tested" => ticks \div OSCR_RANGE = rollovercount + missed

\* What a task will return for a clean read.
ReadDone ==
  call = "read" /\ clean =>
    /\ irq = "out"
    /\ readTicks = (low + rollovercount * OSCR_RANGE) + OSCR_RANGE * missed

AInv ==
  Types /\ Waits /\ (SampledStart => SampleTaken /\ TestDone /\ ReadDone)

LEMMA InitAInv ==
  ClockInit => AInv
<1> SUFFICES ASSUME ClockInit PROVE AInv
  OBVIOUS
<1>1. /\ OSCR_RANGE \in Nat \ {0} /\ MaxIrqGap \in Nat \ {0} /\ HandlerTicks \in Nat
      /\ start_time \in 0 .. OSCR_RANGE - 1 /\ ticks = 0
  BY ClockAssumption DEF ClockInit
<1>2. Types /\ Waits /\ TestDone /\ ReadDone
  BY <1>1 DEF ClockInit, Types, Waits, TestDone, ReadDone
<1>3. oscr(0) = start_time
  <2>1. (OSCR_RANGE * 0 + start_time) % OSCR_RANGE = start_time
    BY <1>1, ModOf
  <2> QED
    BY <1>1, <2>1 DEF oscr
<1>4. ~(lastoscr < start_time)
  BY <1>1 DEF ClockInit
<1>5. 0 \div OSCR_RANGE = 0 /\ 0 % OSCR_RANGE = 0
  BY <1>1
<1>6. Sampled(0)
  BY <1>1, <1>3, <1>4, <1>5 DEF ClockInit, Sampled
<1> QED
  BY <1>1, <1>2, <1>6 DEF AInv, SampleTaken

\* Outside the handler the test tells what has not been counted.
LEMMA PassPending ==
  ASSUME AInv, SampledStart, irq = "out"
  PROVE  ticks \div OSCR_RANGE = rollovercount + missed + (IF Passed THEN 1 ELSE 0)
<1>1. PICK u \in 0 .. ticks : Sampled(u)
  BY DEF AInv, SampleTaken
<1>2. /\ OSCR_RANGE \in Nat \ {0} /\ start_time \in 0 .. OSCR_RANGE - 1
      /\ ticks \in Nat /\ u \in Nat /\ u <= ticks
      /\ MaxIrqGap + HandlerTicks \in Nat
      /\ rollovercount \in Nat /\ missed \in Nat
  BY ClockAssumption DEF AInv, Types, Waits
<1>3. ticks - u <= MaxIrqGap + HandlerTicks
  BY <1>1, <1>2, ClockAssumption DEF Sampled, AInv, Waits
<1>4. ticks - u < start_time /\ ticks - u <= OSCR_RANGE - start_time
  BY <1>2, <1>3 DEF SampledStart
<1>5. LET b == /\ (start_time + u) % OSCR_RANGE < start_time
               /\ (start_time + ticks) % OSCR_RANGE >= start_time
      IN  /\ b => ticks \div OSCR_RANGE = (u \div OSCR_RANGE) + 1
          /\ ~b => ticks \div OSCR_RANGE = u \div OSCR_RANGE
  BY <1>2, <1>4, PassSeen
<1> QED
  BY <1>1, <1>2, <1>5 DEF Sampled, Passed, oscr

\* What dotime reads is the position in the round.
LEMMA LowIs ==
  ASSUME AInv
  PROVE  low_part = ticks % OSCR_RANGE
  BY ClockAssumption, LowPart DEF AInv, Types, low_part, oscr

\* A tick begins a round or does not, and the handler's test was before it.
LEMMA TickAInv ==
  ASSUME AInv, Tick
  PROVE  AInv'
<1>1. /\ ticks' = ticks + 1 /\ since' = since + 1
      /\ missed' = IF irq = "tested" /\ oscr(ticks + 1) = start_time
                   THEN missed + 1 ELSE missed
      /\ UNCHANGED <<start_time, rollovercount, lastoscr, irq, stamp, stampTicks,
                     call, low, readTicks, clean>>
      /\ since < IF irq = "out" THEN MaxIrqGap ELSE HandlerTicks
  BY DEF Tick, irq_vars, call_vars
<1>2. /\ OSCR_RANGE \in Nat \ {0} /\ MaxIrqGap \in Nat /\ HandlerTicks \in Nat
      /\ Types /\ Waits
  BY ClockAssumption DEF AInv
<1>3. Types' /\ Waits'
  BY <1>1, <1>2 DEF Types, Waits
<1> SUFFICES ASSUME SampledStart' PROVE (SampleTaken /\ TestDone /\ ReadDone)'
  BY <1>3 DEF AInv
<1>4. SampleTaken /\ TestDone /\ ReadDone
  BY <1>1 DEF AInv, SampledStart
<1>5. SampleTaken'
  <2> SUFFICES ASSUME irq # "tested" PROVE \E u \in 0 .. ticks' : Sampled(u)'
    BY <1>1 DEF SampleTaken
  <2>1. PICK u \in 0 .. ticks : Sampled(u)
    BY <1>4 DEF SampleTaken
  <2>2. u \in 0 .. ticks'
    BY <1>1, <1>2 DEF Types
  <2>3. missed' = missed
    BY <1>1
  <2>4. Sampled(u)'
    BY <1>1, <1>2, <2>1, <2>3 DEF Sampled, oscr, Types, Waits
  <2> QED
    BY <2>2, <2>4
<1>6. TestDone'
  <2> SUFFICES ASSUME irq = "tested"
      PROVE  ticks' \div OSCR_RANGE = rollovercount' + missed'
    BY <1>1 DEF TestDone
  <2>1. (ticks + 1) \div OSCR_RANGE
          = (ticks \div OSCR_RANGE) + (IF oscr(ticks + 1) = start_time THEN 1 ELSE 0)
    BY <1>2, NextTick DEF Types, oscr
  <2> QED
    BY <1>1, <1>2, <1>4, <2>1 DEF TestDone, Types, Waits
<1>7. ReadDone'
  BY <1>1, <1>4 DEF ReadDone
<1> QED
  BY <1>5, <1>6, <1>7

LEMMA TestAInv ==
  ASSUME AInv, irq_test
  PROVE  AInv'
<1>1. /\ irq = "out" /\ irq' = "tested" /\ since' = 0 /\ clean' = FALSE
      /\ rollovercount' = rollovercount + (IF Passed THEN 1 ELSE 0)
      /\ UNCHANGED <<ticks, start_time, lastoscr, missed, stampTicks>>
  BY DEF irq_test, AInv, Types
<1>2. Types' /\ Waits'
  BY <1>1, ClockAssumption DEF AInv, Types, Waits
<1>3. ASSUME SampledStart' PROVE TestDone'
  <2>1. SampledStart
    BY <1>1, <1>3 DEF SampledStart
  <2>2. ticks \div OSCR_RANGE = rollovercount + missed + (IF Passed THEN 1 ELSE 0)
    BY <1>1, <2>1, PassPending
  <2> QED
    BY <1>1, <2>2 DEF TestDone, AInv, Types, Waits
<1> QED
  BY <1>1, <1>2, <1>3 DEF AInv, SampleTaken, ReadDone

LEMMA SampleAInv ==
  ASSUME AInv, irq_sample
  PROVE  AInv'
<1>1. /\ irq = "tested" /\ irq' = "sampled" /\ lastoscr' = oscr(ticks)
      /\ UNCHANGED <<ticks, start_time, rollovercount, since, missed, stampTicks,
                     call, low, readTicks, clean>>
  BY DEF irq_sample, call_vars
<1>2. OSCR_RANGE \in Nat \ {0} /\ Types /\ Waits
  BY ClockAssumption DEF AInv
<1>3. oscr(ticks) \in 0 .. OSCR_RANGE - 1
  <2>1. start_time + ticks \in Nat
    BY <1>2 DEF Types
  <2> QED
    BY <1>2, <2>1, DivMod DEF oscr
<1>4. Types' /\ Waits'
  BY <1>1, <1>2, <1>3 DEF Types, Waits
<1> SUFFICES ASSUME SampledStart' PROVE (SampleTaken /\ TestDone /\ ReadDone)'
  BY <1>4 DEF AInv
<1>5. TestDone /\ ReadDone
  BY <1>1 DEF AInv, SampledStart
<1>6. ticks \in 0 .. ticks' /\ ticks - ticks <= since
  BY <1>1, <1>2 DEF Types, Waits
<1>7. Sampled(ticks)'
  BY <1>1, <1>2, <1>5, <1>6 DEF Sampled, TestDone, oscr
<1>8. \E u \in 0 .. ticks' : Sampled(u)'
  BY <1>1, <1>6, <1>7
<1> QED
  BY <1>1, <1>5, <1>8 DEF SampleTaken, TestDone, ReadDone

LEMMA StampAInv ==
  ASSUME AInv, irq_stamp
  PROVE  AInv'
<1>1. /\ irq = "sampled" /\ irq' = "out" /\ since' = 0 /\ stampTicks' = ticks
      /\ stamp' = low_part + rollovercount * OSCR_RANGE
      /\ UNCHANGED <<ticks, start_time, rollovercount, lastoscr, missed,
                     call, low, readTicks, clean>>
  BY DEF irq_stamp, call_vars
<1>2. OSCR_RANGE \in Nat \ {0} /\ Types /\ Waits
  BY ClockAssumption DEF AInv
<1>3. Types' /\ Waits'
  BY <1>1, <1>2, ClockAssumption DEF Types, Waits
<1> SUFFICES ASSUME SampledStart' PROVE (SampleTaken /\ TestDone /\ ReadDone)'
  BY <1>3 DEF AInv
<1>4. SampleTaken /\ ReadDone
  BY <1>1 DEF AInv, SampledStart
<1>5. PICK u \in 0 .. ticks : Sampled(u)
  BY <1>1, <1>4 DEF SampleTaken
<1>6. stamp' = (ticks % OSCR_RANGE) + rollovercount * OSCR_RANGE
  BY <1>1, LowIs
<1>7. ticks - u <= HandlerTicks /\ u <= ticks /\ ticks - ticks <= 0 /\ ticks <= ticks
  BY <1>1, <1>2, <1>5, ClockAssumption DEF Sampled, Types, Waits
<1>8. Sampled(u)'
  BY <1>1, <1>2, <1>5, <1>6, <1>7 DEF Sampled, oscr
<1> QED
  BY <1>1, <1>4, <1>5, <1>8 DEF SampleTaken, TestDone, ReadDone

LEMMA ReadAInv ==
  ASSUME AInv, dotime_read
  PROVE  AInv'
<1>1. /\ irq = "out" /\ low' = low_part /\ readTicks' = ticks /\ clean' = ~Passed
      /\ UNCHANGED <<ticks, start_time, rollovercount, lastoscr, since, missed,
                     irq, stamp, stampTicks>>
  BY DEF dotime_read, irq_vars
<1>2. OSCR_RANGE \in Nat \ {0} /\ Types /\ Waits
  BY ClockAssumption DEF AInv
<1>3. Types' /\ Waits'
  BY <1>1, <1>2 DEF Types, Waits
<1> SUFFICES ASSUME SampledStart' PROVE (SampleTaken /\ TestDone /\ ReadDone)'
  BY <1>3 DEF AInv
<1>4. SampledStart /\ SampleTaken
  BY <1>1 DEF AInv, SampledStart
<1>5. SampleTaken'
  BY <1>1, <1>4 DEF SampleTaken, Sampled, oscr
<1>6. ASSUME ~Passed
      PROVE  ticks = (low_part + rollovercount * OSCR_RANGE) + OSCR_RANGE * missed
  <2>1. ticks \div OSCR_RANGE = rollovercount + missed + 0
    BY <1>1, <1>4, <1>6, PassPending
  <2> DEFINE v == ticks % OSCR_RANGE
  <2>2. ticks = OSCR_RANGE * (ticks \div OSCR_RANGE) + v /\ v \in Nat
    BY <1>2, DivMod DEF Types
  <2>3. low_part = v
    BY LowIs
  <2> HIDE DEF v
  <2>4. ticks = OSCR_RANGE * (rollovercount + missed + 0) + v
    BY <2>1, <2>2
  <2>5. ticks = (v + rollovercount * OSCR_RANGE) + OSCR_RANGE * (missed + 0)
    BY <1>2, <2>2, <2>4, TimeOf DEF Types, Waits
  <2> QED
    BY <1>2, <2>3, <2>5 DEF Waits
<1>7. ReadDone'
  BY <1>1, <1>6 DEF ReadDone
<1> QED
  BY <1>1, <1>5, <1>7 DEF TestDone

LEMMA ReturnAInv ==
  ASSUME AInv, dotime_return \/ UNCHANGED clock_vars
  PROVE  AInv'
<1>1. UNCHANGED <<ticks, start_time, rollovercount, lastoscr, since, missed,
                  irq, stamp, stampTicks>>
  BY DEF dotime_return, clock_vars, irq_vars
<1>2. ReadDone => ReadDone'
  BY DEF ReadDone, dotime_return, clock_vars, irq_vars, call_vars
<1> QED
  BY <1>1, <1>2
  DEF AInv, Types, Waits, SampledStart, SampleTaken, TestDone, Sampled, oscr

LEMMA NextAInv ==
  AInv /\ [ClockNext]_clock_vars => AInv'
  BY TickAInv, TestAInv, SampleAInv, StampAInv, ReadAInv, ReturnAInv
  DEF ClockNext, dotime

\* Every round that has begun is in the count, except one that the next handler will
\* see and those that fell between a test and its sample, and the stamp for dev_update
\* is the time but for those rounds, for every start_time away from the ends of the
\* counter (c_irq.c:37-40, time.c:31-32).
THEOREM RoundsAccounted == ClockSpec => []RolloversAccounted
<1>1. AInv => RolloversAccounted
  <2> SUFFICES ASSUME AInv, SampledStart, irq = "out" PROVE RolloversAccounted
    BY DEF RolloversAccounted
  <2> DEFINE late == IF lastoscr < start_time /\ oscr(stampTicks) >= start_time
                     THEN 1 ELSE 0
             v == stampTicks % OSCR_RANGE
  <2>1. ticks \div OSCR_RANGE = rollovercount + missed + (IF Passed THEN 1 ELSE 0)
    BY PassPending
  <2>2. PICK u \in 0 .. ticks : Sampled(u)
    BY DEF AInv, SampleTaken
  <2>3. /\ OSCR_RANGE \in Nat \ {0} /\ start_time \in 0 .. OSCR_RANGE - 1
        /\ stampTicks \in Nat /\ u \in Nat /\ rollovercount \in Nat /\ missed \in Nat
        /\ u <= stampTicks /\ stampTicks - u < start_time
        /\ stampTicks - u <= OSCR_RANGE - start_time
    BY <2>2, ClockAssumption DEF AInv, Types, Waits, Sampled, SampledStart
  <2>4. stampTicks = OSCR_RANGE * (stampTicks \div OSCR_RANGE) + v /\ v \in 0 .. OSCR_RANGE - 1
    BY <2>3, DivMod
  <2>5. LET b == /\ (start_time + u) % OSCR_RANGE < start_time
                 /\ (start_time + stampTicks) % OSCR_RANGE >= start_time
        IN  /\ b => stampTicks \div OSCR_RANGE = (u \div OSCR_RANGE) + 1
            /\ ~b => stampTicks \div OSCR_RANGE = u \div OSCR_RANGE
    BY <2>3, PassSeen
  <2>6. stampTicks \div OSCR_RANGE = rollovercount + missed + late
    BY <2>2, <2>3, <2>5 DEF Sampled, oscr
  <2>7. stamp = v + rollovercount * OSCR_RANGE
    BY <2>2 DEF Sampled
  <2>10. late \in Nat
    OBVIOUS
  <2> HIDE DEF v, late
  <2>8. stampTicks = OSCR_RANGE * (rollovercount + missed + late) + v
    BY <2>4, <2>6
  <2>9. stampTicks = stamp + OSCR_RANGE * (missed + late)
    BY <2>3, <2>4, <2>7, <2>8, <2>10, TimeOf
  <2> QED
    BY <2>1, <2>9 DEF RolloversAccounted, late
<1> QED
  BY InitAInv, NextAInv, <1>1, PTL DEF ClockSpec

\* What dotime returns to a task is the time at which it has read the counter, but for
\* the missed rounds, when nothing was to be counted at the read and no handler has run
\* before the count was read (time.c:31-32).
THEOREM ReadingRight == ClockSpec => ReadingIsTime
<1>1. AInv /\ [ClockNext]_clock_vars =>
        [call = "read" /\ call' = "idle" /\ clean /\ SampledStart =>
           readTicks = reading' + OSCR_RANGE * missed]_clock_vars
  <2> SUFFICES ASSUME AInv, ClockNext, call = "read", call' = "idle", clean, SampledStart
      PROVE  readTicks = reading' + OSCR_RANGE * missed
    OBVIOUS
  <2>1. dotime_return
    BY DEF ClockNext, Tick, irq_test, irq_sample, irq_stamp, dotime,
           dotime_read, call_vars
  <2>2. ReadDone
    BY DEF AInv
  <2> QED
    BY <2>1, <2>2 DEF ReadDone, dotime_return
<1> QED
  BY InitAInv, NextAInv, <1>1, PTL DEF ClockSpec, ReadingIsTime

==============================================================================
