------------------------------ MODULE ReadyList ------------------------------
(***************************************************************************)
(* The ready list of kernel/sched/run_queue.c as the rest of the kernel    *)
(* sees it: one slot per priority, slot p holding the runnable tcb that    *)
(* was enqueued at priority p, or NULL.  A lower number is a higher        *)
(* priority.  The bitmaps that make the search constant time are in        *)
(* RunQueue.                                                               *)
(***************************************************************************)
EXTENDS Integers

CONSTANTS OS_MAX_TASKS,   \* slots of run_list and tcbs of system_tcb
          NULL            \* the null tcb pointer

ASSUME MaxTasksAssumption == OS_MAX_TASKS \in Nat /\ OS_MAX_TASKS >= 3

Prios == 0 .. OS_MAX_TASKS - 1

ASSUME NullAssumption == NULL \notin Prios

IDLE_PRIO == OS_MAX_TASKS - 1

\* system_tcb is indexed like run_list; the last tcb is the idle task's.
Tcbs == 0 .. OS_MAX_TASKS - 1
TcbPointers == Tcbs \cup {NULL}

EmptyList == [p \in Prios |-> NULL]

\* The slots that hold a task.
Occupied(list) == {p \in Prios : list[p] # NULL}

\* The lowest occupied slot, IDLE_PRIO when there is none.
highest_prio(list) ==
  IF Occupied(list) = {} THEN IDLE_PRIO
  ELSE CHOOSE p \in Occupied(list) : \A q \in Occupied(list) : p <= q

highest_tcb(list) == list[highest_prio(list)]

==============================================================================
