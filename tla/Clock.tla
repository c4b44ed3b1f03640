-------------------------------- MODULE Clock ---------------------------------
(***************************************************************************)
(* The system time of the l4/lab4 kernel: the free-running counter OSCR,   *)
(* the rollover count that c_irq_handler keeps, and dotime, which both the *)
(* handler and the system calls use.  The handler reads the counter once   *)
(* for its test, once for lastoscr and once for the stamp of dev_update,   *)
(* and the counter runs on in between; so does it between the two reads of *)
(* a dotime that a task calls, where the handler may run too.              *)
(*                                                                         *)
(* Times are in ticks of the counter.  The division by TIME_CONVERT_CONST  *)
(* preserves order and is left out.                                        *)
(***************************************************************************)
EXTENDS Integers

CONSTANTS OSCR_RANGE,    \* values of the counter (2^32)
          MaxIrqGap,     \* longest time from init_timer, or from the end of a
                         \* handler, to the next handler
          HandlerTicks,  \* longest time from the test to the stamp
          StartTimes,    \* values of the counter at init_timer
          MaxTicks       \* bound on the time that is explored

ASSUME ClockAssumption ==
  /\ OSCR_RANGE \in Nat \ {0} /\ MaxTicks \in Nat
  /\ MaxIrqGap \in Nat \ {0} /\ HandlerTicks \in Nat
  /\ StartTimes \subseteq 0 .. OSCR_RANGE - 1

VARIABLES
  ticks,          \* the time since init_timer
  start_time,
  rollovercount,
  lastoscr,
  irq,            \* where the handler is: "out", "tested", "sampled"
  since,          \* ticks since the handler was left, or entered
  stamp,          \* what the last handler passed to dev_update
  stampTicks,     \* the time at which it read the counter for it
  missed,         \* times that the counter has passed start_time between the
                  \* test and the sample of a handler
  call,           \* where the dotime of a task is: "idle", "read"
  low,            \* the low part that it has read
  readTicks,      \* the time at which it did
  clean,          \* no pass was to be counted then, and no handler has run since
  reading         \* the last result of a dotime of a task

irq_vars == <<irq, stamp, stampTicks>>
call_vars == <<call, low, readTicks, clean, reading>>
clock_vars == <<ticks, start_time, rollovercount, lastoscr, since, missed,
          irq_vars, call_vars>>

oscr(t) == (start_time + t) % OSCR_RANGE

ClockInit ==
  /\ ticks = 0
  /\ start_time \in StartTimes
  /\ rollovercount = 0
  /\ lastoscr = OSCR_RANGE - 1
  /\ irq = "out" /\ since = 0
  /\ stamp = 0 /\ stampTicks = 0
  /\ missed = 0
  /\ call = "idle" /\ low = 0 /\ readTicks = 0 /\ clean = FALSE
  /\ reading = 0

------------------------------------------------------------------------------
\* The counter runs on.  The next interrupt comes in time, and so does the end
\* of the handler.
Tick ==
  /\ ticks < MaxTicks
  /\ since < IF irq = "out" THEN MaxIrqGap ELSE HandlerTicks
  /\ ticks' = ticks + 1
  /\ since' = since + 1
  /\ missed' = IF irq = "tested" /\ oscr(ticks + 1) = start_time
               THEN missed + 1 ELSE missed
  /\ UNCHANGED <<start_time, rollovercount, lastoscr, irq_vars, call_vars>>

\* The counter is at or past start_time and was below it at the last sample.
\* (Mutated: the last sample is not looked at.)
PassedIgnoringLast == oscr(ticks) >= start_time
Passed == lastoscr < start_time /\ oscr(ticks) >= start_time

irq_test ==
  /\ irq = "out" /\ since > 0
  /\ rollovercount' = IF Passed THEN rollovercount + 1 ELSE rollovercount
  /\ irq' = "tested" /\ since' = 0
  /\ clean' = FALSE
  /\ UNCHANGED <<ticks, start_time, lastoscr, missed, stamp, stampTicks,
                 call, low, readTicks, reading>>

\* (Mutated: the sample is the time of the last stamp.)
irq_sample_stale ==
  /\ irq = "tested"
  /\ lastoscr' = oscr(stampTicks)
  /\ irq' = "sampled"
  /\ UNCHANGED <<ticks, start_time, rollovercount, since, missed, stamp,
                 stampTicks, call_vars>>
irq_sample ==
  /\ irq = "tested"
  /\ lastoscr' = oscr(ticks)
  /\ irq' = "sampled"
  /\ UNCHANGED <<ticks, start_time, rollovercount, since, missed, stamp,
                 stampTicks, call_vars>>

\* The low part of the time; what C computes in 64 bits and truncates.
\* (Mutated: without the offset of the start.)
low_part_raw == oscr(ticks)
low_part == (OSCR_RANGE + oscr(ticks) - start_time) % OSCR_RANGE

\* dotime(&stamp) in the handler, where rollovercount cannot change.
irq_stamp ==
  /\ irq = "sampled"
  /\ stamp' = low_part + rollovercount * OSCR_RANGE
  /\ stampTicks' = ticks
  /\ irq' = "out" /\ since' = 0
  /\ UNCHANGED <<ticks, start_time, rollovercount, lastoscr, missed, call_vars>>

\* dotime for a task, with interrupts enabled.
dotime_read ==
  /\ irq = "out" /\ call = "idle"
  /\ call' = "read" /\ low' = low_part
  /\ readTicks' = ticks /\ clean' = ~Passed
  /\ UNCHANGED <<ticks, start_time, rollovercount, lastoscr, since, missed,
                 irq_vars, reading>>

dotime_return ==
  /\ irq = "out" /\ call = "read"
  /\ call' = "idle" /\ low' = 0 /\ readTicks' = 0 /\ clean' = FALSE
  /\ reading' = low + rollovercount * OSCR_RANGE
  /\ UNCHANGED <<ticks, start_time, rollovercount, lastoscr, since, missed,
                 irq_vars>>

dotime == dotime_read \/ dotime_return

ClockNext == Tick \/ irq_test \/ irq_sample \/ irq_stamp \/ dotime
ClockSpec == ClockInit /\ [][ClockNext]_clock_vars

------------------------------------------------------------------------------
\* A sample falls both below start_time and at or above it in every round of
\* the counter.  Starts that are closer to 0 lose every pass or some.
SampledStart ==
  /\ start_time > MaxIrqGap + HandlerTicks
  /\ start_time <= OSCR_RANGE - (MaxIrqGap + HandlerTicks)

\* Every time that the counter has passed start_time is in the count, except
\* one that the next handler will see and those that fell between the test and
\* the sample of a handler (c_irq.c:37-40).  And so the stamp that dev_update gets is
\* the time at which the handler read the counter, less what has been missed and a
\* pass since this handler's sample.
RolloversAccounted ==
  SampledStart /\ irq = "out" =>
    LET late == lastoscr < start_time /\ oscr(stampTicks) >= start_time
    IN  /\ ticks \div OSCR_RANGE = rollovercount + missed + (IF Passed THEN 1 ELSE 0)
        /\ stampTicks > 0 =>
             stampTicks = stamp + OSCR_RANGE * (missed + (IF late THEN 1 ELSE 0))

\* No pass is counted twice, whatever start_time is.
NeverCountedTwice == rollovercount * OSCR_RANGE <= ticks

\* A task gets the time at which dotime has read the counter, less what has been
\* missed, unless a pass was not counted yet at the read or an interrupt came
\* before the count was read.
ReadingIsTime ==
  [][call = "read" /\ call' = "idle" /\ clean /\ SampledStart =>
       readTicks = reading' + OSCR_RANGE * missed]_clock_vars
==============================================================================
