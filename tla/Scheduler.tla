------------------------------- MODULE Scheduler -------------------------------
(***************************************************************************)
(* What the kernel of l4/lab4 promises to a program with one task set,     *)
(* without its data structures: no slots, links, flags or priorities.      *)
(*                                                                         *)
(* The tasks are numbered in the order of their periods, the shortest      *)
(* first.  The first ready task runs, or the idle task when there is none, *)
(* except that a task that owns a mutex runs until it has released all it  *)
(* owns and the kernel has looked again.  Waiting for an event is the only *)
(* way to stop being ready, and the event is the only way back.            *)
(***************************************************************************)
EXTENDS Integers

CONSTANTS Sizes,     \* how many tasks a set may have
          Devices,   \* the sources of events
          Mutexes,
          Idle,      \* the idle task
          NoTask     \* nothing has been created yet

VARIABLES running,   \* the task that has the cpu
          ready,     \* the tasks of the set that could have it
          waiting,   \* those that wait for the next event of each device
          owner      \* of each mutex, or NoTask

vars == <<running, ready, waiting, owner>>

\* The task to run when those of S are ready.
First(S) ==
  IF S = {} THEN Idle ELSE CHOOSE t \in S : \A u \in S : t <= u

Owns(t) == \E m \in Mutexes : owner[m] = t

Init ==
  /\ running = NoTask
  /\ ready = {}
  /\ waiting = [d \in Devices |-> {}]
  /\ owner = [m \in Mutexes |-> NoTask]

\* The one task set of the program.
Create(n) ==
  /\ running = NoTask
  /\ ready' = 0 .. n - 1
  /\ running' = First(ready')
  /\ UNCHANGED <<waiting, owner>>

\* No caller ever finds a mutex taken, so that taking one never blocks.
Acquire(m) ==
  /\ running \in ready
  /\ owner[m] = NoTask
  /\ owner' = [owner EXCEPT ![m] = running]
  /\ UNCHANGED <<running, ready, waiting>>

\* The kernel does not look for a better task to run.
Release(m) ==
  /\ running \in ready
  /\ owner[m] = running
  /\ owner' = [owner EXCEPT ![m] = NoTask]
  /\ UNCHANGED <<running, ready, waiting>>

\* A task that owns a mutex may not.
Wait(d) ==
  /\ running \in ready
  /\ ~Owns(running)
  /\ ready' = ready \ {running}
  /\ waiting' = [waiting EXCEPT ![d] = @ \cup {running}]
  /\ running' = First(ready')
  /\ UNCHANGED owner

\* A timer interrupt at which the devices of D have their events, perhaps none.
Interrupt(D) ==
  /\ running # NoTask
  /\ ready' = ready \cup UNION {waiting[d] : d \in D}
  /\ waiting' = [d \in Devices |-> IF d \in D THEN {} ELSE waiting[d]]
  /\ running' = IF Owns(running) THEN running ELSE First(ready')
  /\ UNCHANGED owner

Next ==
  \/ \E n \in Sizes : Create(n)
  \/ \E m \in Mutexes : Acquire(m) \/ Release(m)
  \/ \E d \in Devices : Wait(d)
  \/ \E D \in SUBSET Devices : Interrupt(D)

Spec == Init /\ [][Next]_vars
==============================================================================
