------------------------------ MODULE Sleep_proof ------------------------------
(***************************************************************************)
(* Proofs about code that adds values of 32 bits: dosleep, for every width *)
(* of the time and every bound on the time between two polls, and          *)
(* valid_addr, for address spaces of any size.                             *)
(*                                                                         *)
(* What a sleep has to remember of the past is where in the rounds of the  *)
(* time the last poll was: in the first loop it is before the end of the   *)
(* round in which the sleep began, or less than the window past it; a wait *)
(* for a sum that has wrapped is past it.                                  *)
(***************************************************************************)
EXTENDS Sleep, KernelUtil, Numbers_proof

------------------------------------------------------------------------------
(* Sums that wrap.                                                           *)

\* A sum of two values wraps at most once.
LEMMA SumWraps ==
  ASSUME NEW R \in Nat \ {0}, NEW a \in 0 .. R - 1, NEW b \in 0 .. R - 1
  PROVE  /\ a + b < R => (a + b) % R = a + b
         /\ a + b >= R => (a + b) % R = a + b - R
<1>1. CASE a + b < R
  <2>1. a + b = R * 0 + (a + b) /\ a + b \in 0 .. R - 1
    BY <1>1
  <2> QED BY <1>1, <2>1, ModOf
<1>2. CASE a + b >= R
  <2>1. a + b = R * 1 + (a + b - R) /\ a + b - R \in 0 .. R - 1
    BY <1>2
  <2>2. (R * 1 + (a + b - R)) % R = a + b - R
    BY <2>1, ModOf
  <2> QED BY <1>2, <2>1, <2>2
<1> QED BY <1>1, <1>2

\* What is shown of a time grows with the time until its round ends, and again
\* through the round after it.
LEMMA TimeShown ==
  ASSUME NEW R \in Nat \ {0}, NEW c \in Nat, NEW p \in Nat, c <= p
  PROVE  /\ p - c < R - (c % R) => p % R = (c % R) + (p - c)
         /\ R - (c % R) <= p - c /\ p - c < 2 * R - (c % R) =>
              p % R = (c % R) + (p - c) - R
<1> DEFINE q == c \div R
           s == c % R
<1>1. q \in Nat /\ s \in 0 .. R - 1 /\ c = R * q + s
  BY DivMod
<1> HIDE DEF q, s
<1>2. ASSUME p - c < R - s PROVE p % R = s + (p - c)
  <2>1. s + (p - c) \in 0 .. R - 1 /\ p = R * q + (s + (p - c))
    BY <1>1, <1>2
  <2> QED BY <1>1, <2>1, ModOf
<1>3. ASSUME R - s <= p - c, p - c < 2 * R - s PROVE p % R = s + (p - c) - R
  <2>1. s + (p - c) - R \in 0 .. R - 1 /\ q + 1 \in Nat
    BY <1>1, <1>3
  <2>2. p = R * (q + 1) + (s + (p - c) - R)
    BY <1>1
  <2> QED BY <2>1, <2>2, ModOf
<1> QED BY <1>2, <1>3 DEF s

------------------------------------------------------------------------------
(* dosleep.                                                                  *)

\* The types, and the order of the times.
Times ==
  /\ millis \in Nat /\ called \in Nat /\ polled \in Nat /\ gap \in Nat \ {0}
  /\ args0 \in Millis /\ start \in Millis /\ now \in Millis
  /\ called <= polled /\ polled <= millis /\ millis <= polled + gap

\* A sleep of no time does nothing; in any other one start and now are the time
\* at the call and at the last poll, and the branch is the one of the sum.
Readings ==
  /\ pc \in {"call", "wrap", "wait", "done"}
  /\ pc = "call" \/ args0 = 0 => start = 0
  /\ pc \in {"wrap", "wait"} => args0 # 0
  /\ pc # "call" /\ args0 # 0 => start = called % MS_RANGE /\ now = polled % MS_RANGE
  /\ pc = "wrap" => start + args0 >= MS_RANGE

\* The wait for a sum that has wrapped begins after the end of the round.
WaitIsLate ==
  start >= WrapWindow /\ pc \in {"wait", "done"} /\ start + args0 >= MS_RANGE =>
    slept >= MS_RANGE - start

SleptEnough == start >= WrapWindow /\ pc = "done" => slept >= args0

\* No poll is made at or after the time at which a loop should have ended.
PollsInTime ==
  start >= WrapWindow /\ gap <= WrapWindow =>
    /\ pc = "wrap" => slept < MS_RANGE - start + WrapWindow
    /\ target + gap <= MS_RANGE => slept < args0 + gap

SleepInv == Times /\ Readings /\ WaitIsLate /\ SleptEnough /\ PollsInTime

\* Facts that every step uses.
LEMMA SleepNumbers ==
  ASSUME Times
  PROVE  /\ MS_RANGE \in Nat \ {0} /\ WrapWindow \in Nat \ {0}
         /\ start \in 0 .. MS_RANGE - 1 /\ args0 \in 0 .. MS_RANGE - 1
         /\ now \in 0 .. MS_RANGE - 1
         /\ time \in 0 .. MS_RANGE - 1
         /\ slept \in Nat /\ target \in Int
<1>1. MS_RANGE \in Nat \ {0} /\ WrapWindow \in Nat \ {0}
  BY SleepAssumption
<1>2. time \in 0 .. MS_RANGE - 1
  BY <1>1, DivMod DEF Times, time
<1>3. start + args0 \in Nat
  BY DEF Times, Millis
<1>4. target \in Int
  BY <1>1, <1>3, DivMod DEF target
<1> QED BY <1>1, <1>2, <1>4 DEF Times, Millis, slept

\* The target, by the branch.
LEMMA TargetIs ==
  ASSUME Times
  PROVE  /\ start + args0 < MS_RANGE => target = start + args0
         /\ start + args0 >= MS_RANGE => target = start + args0 - MS_RANGE
BY SleepNumbers, SumWraps DEF target

\* What the last poll has shown, by the time slept.
LEMMA NowIs ==
  ASSUME Times, Readings, pc # "call", args0 # 0
  PROVE  /\ slept < MS_RANGE - start => now = start + slept
         /\ MS_RANGE - start <= slept /\ slept < 2 * MS_RANGE - start =>
              now = start + slept - MS_RANGE
<1>1. /\ called \in Nat /\ polled \in Nat /\ called <= polled
      /\ start = called % MS_RANGE /\ now = polled % MS_RANGE
  BY DEF Times, Readings
<1> DEFINE s == called % MS_RANGE
           n == polled % MS_RANGE
<1>2. /\ polled - called < MS_RANGE - s => n = s + (polled - called)
      /\ MS_RANGE - s <= polled - called /\ polled - called < 2 * MS_RANGE - s =>
           n = s + (polled - called) - MS_RANGE
  BY <1>1, SleepAssumption, TimeShown
<1> HIDE DEF s, n
<1>3. start = s /\ now = n
  BY <1>1 DEF s, n
<1> QED BY <1>2, <1>3 DEF slept

LEMMA InitialSleep == SleepInit => SleepInv
<1> SUFFICES ASSUME SleepInit PROVE SleepInv
  OBVIOUS
<1>1. millis \in Nat /\ gap \in Nat \ {0}
  BY SleepAssumption DEF SleepInit
<1>2. 0 \in Millis
  BY SleepAssumption DEF Millis
<1>3. WrapWindow > 0 /\ start = 0
  BY SleepAssumption DEF SleepInit
<1>4. Times /\ Readings
  BY <1>1, <1>2 DEF SleepInit, Times, Readings
<1> QED BY <1>3, <1>4, SleepAssumption
    DEF SleepInv, SleepInit, WaitIsLate, SleptEnough, PollsInTime

LEMMA ElapseStep ==
  ASSUME SleepInv, Elapse
  PROVE  SleepInv'
<1>1. Times'
  BY DEF SleepInv, Times, Elapse, Millis
<1> QED BY <1>1
    DEF SleepInv, Readings, WaitIsLate, SleptEnough, PollsInTime, Elapse, slept, target

LEMMA CallStep ==
  ASSUME SleepInv, dosleep
  PROVE  SleepInv'
<1> USE DEF SleepInv
<1>1. Times'
  <2>1. start' \in Millis /\ now' \in Millis
    BY SleepNumbers DEF dosleep, Times, Millis
  <2> QED BY <2>1 DEF Times, dosleep
<1>2. slept' = 0
  BY DEF slept, dosleep, Times
<1>3. CASE args0 = 0
  <2>1. start' = 0 /\ pc' = "done" /\ args0' = 0 /\ ~(start' >= WrapWindow)
    BY <1>3, SleepAssumption DEF dosleep, Readings
  <2> QED BY <1>1, <2>1 DEF Readings, WaitIsLate, SleptEnough, PollsInTime
<1>4. CASE args0 # 0
  <2>1. /\ start' = time /\ now' = time /\ args0' = args0 /\ gap' = gap
        /\ pc' = IF sum_is_later(time, args0) THEN "wait" ELSE "wrap"
    BY <1>4 DEF dosleep
  <2>2. start' = (called % MS_RANGE)' /\ now' = (polled % MS_RANGE)'
    BY <2>1 DEF dosleep, time
  <2>3. sum_is_later(time, args0) <=> time + args0 < MS_RANGE
    <3> DEFINE sum == (time + args0) % MS_RANGE
    <3>1. /\ time + args0 < MS_RANGE => sum = time + args0
          /\ time + args0 >= MS_RANGE => sum = time + args0 - MS_RANGE
      BY SleepNumbers, SumWraps
    <3> HIDE DEF sum
    <3>2. sum_is_later(time, args0) <=> sum > time
      BY DEF sum_is_later, sum
    <3> QED BY <1>4, <3>1, <3>2, SleepNumbers
  <2>4. Readings'
    BY <1>4, <2>1, <2>2, <2>3, SleepNumbers DEF Readings
  <2>5. WaitIsLate' /\ SleptEnough'
    BY <2>1, <2>3, SleepNumbers DEF WaitIsLate, SleptEnough
  <2>6. PollsInTime'
    BY <1>2, <1>4, <2>1, SleepNumbers DEF PollsInTime, Times
  <2> QED BY <1>1, <2>4, <2>5, <2>6
<1> QED BY <1>3, <1>4

\* A poll that is made in time ends in time.
LEMMA PollStep ==
  ASSUME SleepInv, pc \in {"wrap", "wait"}, poll(TRUE),
         UNCHANGED <<millis, gap, called, args0, start>>,
         pc = "wrap" /\ start >= WrapWindow /\ gap <= WrapWindow => slept < MS_RANGE - start,
         start >= WrapWindow /\ gap <= WrapWindow /\ target + gap <= MS_RANGE => slept < args0
  PROVE  SleepInv'
<1> USE DEF SleepInv
<1>1. Times'
  <2>1. now' \in Millis
    BY SleepNumbers DEF poll, Millis
  <2> QED BY <2>1 DEF Times, poll
<1>2. Readings'
  BY DEF Readings, poll, time
<1>3. slept <= slept' /\ slept' <= slept + gap
  BY DEF slept, poll, Times
<1>4. slept' \in Nat /\ target' = target
  BY <1>1, SleepNumbers DEF slept, poll, Times, target
<1>5. WaitIsLate' /\ SleptEnough'
  BY <1>3, <1>4, SleepNumbers DEF WaitIsLate, SleptEnough, poll
<1>6. PollsInTime'
  BY <1>3, <1>4, SleepNumbers DEF PollsInTime, poll, Times
<1> QED BY <1>1, <1>2, <1>5, <1>6

LEMMA WrapStep ==
  ASSUME SleepInv, wrap_loop
  PROVE  SleepInv'
<1> USE DEF SleepInv
<1>1. /\ pc = "wrap" /\ args0 # 0 /\ start + args0 >= MS_RANGE
      /\ UNCHANGED <<millis, gap, called, args0, start>>
  BY DEF wrap_loop, Readings
<1>2. /\ slept < MS_RANGE - start => now = start + slept
      /\ MS_RANGE - start <= slept /\ slept < 2 * MS_RANGE - start =>
           now = start + slept - MS_RANGE
  BY <1>1, NowIs
<1>3. now \div WrapWindow > 0 <=> now >= WrapWindow
  BY SleepNumbers
<1>4. CASE poll(now \div WrapWindow > 0)
  <2>1. now >= WrapWindow
    BY <1>3, <1>4 DEF poll
  <2>2. start >= WrapWindow /\ gap <= WrapWindow => slept < MS_RANGE - start
    BY <1>1, <1>2, <2>1, SleepNumbers DEF PollsInTime
  <2>3. start >= WrapWindow /\ gap <= WrapWindow => slept < args0
    BY <1>1, <2>2, SleepNumbers
  <2>4. poll(TRUE)
    BY <1>4 DEF poll
  <2> QED BY <1>1, <2>2, <2>3, <2>4, PollStep
<1>5. CASE now \div WrapWindow = 0 /\ pc' = "wait" /\ UNCHANGED <<now, polled>>
  <2>1. start >= WrapWindow => slept >= MS_RANGE - start
    BY <1>2, <1>3, <1>5, SleepNumbers
  <2>2. UNCHANGED <<slept, target>>
    BY <1>1, <1>5 DEF slept, target
  <2>3. Times'
    BY <1>1, <1>5 DEF Times
  <2>4. Readings'
    BY <1>1, <1>5 DEF Readings
  <2>5. WaitIsLate' /\ SleptEnough' /\ PollsInTime'
    BY <1>1, <1>5, <2>1, <2>2 DEF WaitIsLate, SleptEnough, PollsInTime
  <2> QED BY <2>3, <2>4, <2>5
<1> QED BY <1>4, <1>5 DEF wrap_loop

LEMMA WaitStep ==
  ASSUME SleepInv, wait_loop
  PROVE  SleepInv'
<1> USE DEF SleepInv
<1>1. pc = "wait" /\ args0 # 0 /\ UNCHANGED <<millis, gap, called, args0, start>>
  BY DEF wait_loop, Readings
<1>2. /\ slept < MS_RANGE - start => now = start + slept
      /\ MS_RANGE - start <= slept /\ slept < 2 * MS_RANGE - start =>
           now = start + slept - MS_RANGE
  BY <1>1, NowIs
<1>3. CASE poll(now < target)
  <2>1. now < target /\ poll(TRUE)
    BY <1>3 DEF poll
  <2>2. start >= WrapWindow /\ gap <= WrapWindow /\ target + gap <= MS_RANGE =>
          slept < args0
    BY <1>1, <1>2, <2>1, TargetIs, SleepNumbers DEF PollsInTime, WaitIsLate, Times
  <2> QED BY <1>1, <2>1, <2>2, PollStep
<1>4. CASE now >= target /\ pc' = "done" /\ UNCHANGED <<now, polled>>
  <2>1. start >= WrapWindow => slept >= args0
    BY <1>1, <1>2, <1>4, TargetIs, SleepNumbers DEF WaitIsLate
  <2>2. UNCHANGED <<slept, target>>
    BY <1>1, <1>4 DEF slept, target
  <2>3. Times'
    BY <1>1, <1>4 DEF Times
  <2>4. Readings'
    BY <1>1, <1>4 DEF Readings
  <2>5. WaitIsLate' /\ SleptEnough' /\ PollsInTime'
    BY <1>1, <1>4, <2>1, <2>2 DEF WaitIsLate, SleptEnough, PollsInTime
  <2> QED BY <2>3, <2>4, <2>5
<1> QED BY <1>3, <1>4 DEF wait_loop

\* For every width of the time: a sleep that begins outside the wrap window takes
\* at least as long as asked, however seldom the task polls, and ends with the
\* first poll after that if polls are no further apart than the window and the
\* target is not that close to the wrap (time.c:38-63).
THEOREM SleepAsLongAsAsked == SleepSpec => []SleepsAsAsked
<1>1. SleepInv /\ [SleepNext]_sleep_vars => SleepInv'
  <2>1. CASE UNCHANGED sleep_vars
    BY <2>1 DEF sleep_vars, SleepInv, Times, Readings, WaitIsLate, SleptEnough, PollsInTime,
                slept, target
  <2> QED BY <2>1, ElapseStep, CallStep, WrapStep, WaitStep DEF SleepNext
<1>2. SleepInv => SleepsAsAsked
  BY SleepNumbers DEF SleepInv, SleepsAsAsked, SleptEnough, PollsInTime, Times
<1> QED BY InitialSleep, <1>1, <1>2, PTL DEF SleepSpec

------------------------------------------------------------------------------
(* valid_addr.                                                               *)

\* A buffer is accepted exactly if its start and all of its bytes lie in the
\* segment, whatever its size and also when its end wraps (memcheck.c:24-36).
THEOREM ValidAddrIsContainment ==
  ASSUME NEW first \in Addresses, NEW count \in Addresses,
         NEW base \in Addresses, NEW bound \in Addresses
  PROVE  valid_addr(first, count, base, bound)
           <=> {first} \cup (first .. first + count - 1) \subseteq base .. bound - 1
<1>1. /\ ADDR_RANGE \in Nat \ {0} /\ first \in Nat /\ count \in Nat
      /\ base \in Nat /\ bound \in Nat
      /\ first < ADDR_RANGE /\ count < ADDR_RANGE /\ bound < ADDR_RANGE
  BY AddrAssumption DEF Addresses
<1>2. ASSUME valid_addr(first, count, base, bound)
      PROVE  {first} \cup (first .. first + count - 1) \subseteq base .. bound - 1
  <2>1. first >= base /\ first < bound
    BY <1>2 DEF valid_addr
  <2> DEFINE end == (first + count) % ADDR_RANGE
  <2>2. end >= first /\ end <= bound
    BY <1>2 DEF valid_addr
  <2>3. /\ first + count < ADDR_RANGE => end = first + count
        /\ first + count >= ADDR_RANGE => end = first + count - ADDR_RANGE
    BY AddrAssumption, SumWraps DEF Addresses
  <2> HIDE DEF end
  <2>4. first + count <= bound
    BY <1>1, <2>2, <2>3
  <2>. QED BY <1>1, <2>1, <2>4
<1>3. ASSUME {first} \cup (first .. first + count - 1) \subseteq base .. bound - 1
      PROVE  valid_addr(first, count, base, bound)
  <2>1. first >= base /\ first < bound
    BY <1>1, <1>3
  <2>2. count # 0 => first + count - 1 \in first .. first + count - 1
    BY <1>1
  <2>3. first + count <= bound
    BY <1>1, <1>3, <2>1, <2>2
  <2>4. (first + count) % ADDR_RANGE = first + count
    <3>1. first + count < ADDR_RANGE
      BY <1>1, <2>3
    <3>2. first \in 0 .. ADDR_RANGE - 1 /\ count \in 0 .. ADDR_RANGE - 1
      BY <1>1
    <3> QED BY <1>1, <3>1, <3>2, SumWraps
  <2>. QED BY <1>1, <2>1, <2>3, <2>4 DEF valid_addr
<1>. QED BY <1>2, <1>3
==============================================================================
