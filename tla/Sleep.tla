-------------------------------- MODULE Sleep ---------------------------------
(***************************************************************************)
(* dosleep of kernel/syscall/time.c: a task polls the time, in             *)
(* milliseconds of 32 bits, until it has reached the sum of the start and  *)
(* of the requested time.  dotime is taken to be right here (Clock has the *)
(* cases when it is not).  The caller runs in the kernel with interrupts   *)
(* enabled and may lose the cpu between two polls.                         *)
(***************************************************************************)
EXTENDS Integers

CONSTANTS MS_RANGE,     \* values of the time (2^32)
          WrapWindow,   \* a time below it has wrapped (10)
          Gaps,         \* bounds on the time between two polls
          Boots,        \* times since boot at which a task may call sleep
          MaxMillis     \* bound on the time that is explored

ASSUME SleepAssumption ==
  /\ MS_RANGE \in Nat \ {0} /\ MaxMillis \in Nat
  /\ WrapWindow \in Nat \ {0} /\ Gaps \subseteq Nat \ {0}
  /\ Boots \subseteq 0 .. MaxMillis

VARIABLES millis,   \* the time since boot, not truncated
          gap,      \* the bound in this behaviour
          pc,       \* "call", "wrap" (the first loop of the second branch),
                    \* "wait" (the last loop of either branch), "done"
          called,   \* millis at the first dotime
          args0, start, now,
          polled    \* millis at the last dotime

sleep_vars == <<millis, gap, pc, called, args0, start, now, polled>>

Millis == 0 .. MS_RANGE - 1

SleepInit ==
  /\ millis \in Boots /\ called = millis /\ polled = millis
  /\ gap \in Gaps
  /\ pc = "call"
  /\ args0 \in Millis
  /\ start = 0 /\ now = 0

\* The result of dotime.
time == millis % MS_RANGE
target == (start + args0) % MS_RANGE

\* (Mutated: the sum is taken not to wrap.)
no_overflow(s, a) == TRUE
sum_is_later(s, a) == (s + a) % MS_RANGE > s

Elapse ==
  /\ pc # "done"
  /\ millis < MaxMillis /\ millis - polled < gap
  /\ millis' = millis + 1
  /\ UNCHANGED <<gap, pc, called, args0, start, now, polled>>

dosleep ==
  /\ pc = "call"
  /\ start' = IF args0 = 0 THEN start ELSE time
  /\ now' = IF args0 = 0 THEN now ELSE time
  /\ called' = millis /\ polled' = millis
  /\ pc' = IF args0 = 0 THEN "done"
           ELSE IF sum_is_later(time, args0) THEN "wait" ELSE "wrap"
  /\ UNCHANGED <<millis, gap, args0>>

\* A loop polls the time while its condition holds and is left otherwise.
poll(cond) == cond /\ now' = time /\ polled' = millis /\ UNCHANGED pc

wrap_loop ==
  /\ pc = "wrap"
  /\ \/ poll(now \div WrapWindow > 0)
     \/ now \div WrapWindow = 0 /\ pc' = "wait" /\ UNCHANGED <<now, polled>>
  /\ UNCHANGED <<millis, gap, called, args0, start>>

wait_loop ==
  /\ pc = "wait"
  /\ \/ poll(now < target)
     \/ now >= target /\ pc' = "done" /\ UNCHANGED <<now, polled>>
  /\ UNCHANGED <<millis, gap, called, args0, start>>

SleepNext == Elapse \/ dosleep \/ wrap_loop \/ wait_loop
SleepSpec == SleepInit /\ [][SleepNext]_sleep_vars

------------------------------------------------------------------------------
slept == polled - called

\* A sleep that begins outside the wrap window takes at least as long as asked,
\* even when the sum of start and request wraps (time.c:44-45) and however long
\* the task is kept from polling.  It ends with the first poll after that, if
\* polls are no further apart than the window that the first loop waits for
\* (time.c:58) and the target is not so close to the wrap that the next poll may
\* be past it.
SleepsAsAsked ==
  start >= WrapWindow =>
    /\ pc = "done" => slept >= args0
    /\ gap <= WrapWindow /\ target + gap <= MS_RANGE => slept <= args0 + gap
==============================================================================
