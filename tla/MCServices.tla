------------------------------ MODULE MCServices ------------------------------
(***************************************************************************)
(* The four parts of the l4/lab4 kernel that share no state in this model  *)
(* (Clock has the time, Sleep the loop that waits for one, RunQueue the    *)
(* search for the next task and SwiPath the ways in and out), explored by  *)
(* one run: a behaviour is that of one part, from any of its initial       *)
(* states, and the others stay in one of theirs.                           *)
(***************************************************************************)
EXTENDS RunQueue, Clock, Sleep, SwiPath, FiniteSetsExt

VARIABLE part   \* the part that this behaviour is of

ServicesInit ==
  /\ part \in {"run queue", "clock", "sleep", "swi path"}
  \* Where Clock, Sleep and SwiPath stay in the behaviours of another part.
  /\ part = "clock" \/ start_time = Min(StartTimes)
  /\ part = "sleep" \/ (millis = 0 /\ gap = Min(Gaps) /\ args0 = 0)
  /\ part = "swi path" \/ cur = (CHOOSE t \in Tasks : TRUE)
  /\ RunQueueInit /\ ClockInit /\ SleepInit /\ Init

RunQueueStep ==
  /\ part = "run queue" /\ RunQueueNext
  /\ UNCHANGED <<part, clock_vars, sleep_vars, vars>>
ClockStep ==
  /\ part = "clock" /\ ClockNext
  /\ UNCHANGED <<part, run_queue_vars, sleep_vars, vars>>
SleepStep ==
  /\ part = "sleep" /\ SleepNext
  /\ UNCHANGED <<part, run_queue_vars, clock_vars, vars>>
SwiPathStep ==
  /\ part = "swi path" /\ Next
  /\ UNCHANGED <<part, run_queue_vars, clock_vars, sleep_vars>>

ServicesNext == RunQueueStep \/ ClockStep \/ SleepStep \/ SwiPathStep

services_vars == <<part, run_queue_vars, clock_vars, sleep_vars, vars>>
ServicesSpec == ServicesInit /\ [][ServicesNext]_services_vars
==============================================================================
