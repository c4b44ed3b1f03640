------------------------------ MODULE ReadyQueue ------------------------------
(***************************************************************************)
(* What the rest of the kernel relies on of kernel/sched/run_queue.c: a    *)
(* list of slots and a query for the task in the first occupied one.       *)
(***************************************************************************)
EXTENDS ReadyList

VARIABLES slots,    \* the slots
          answer    \* what the last query returned

vars == <<slots, answer>>

Init == slots = EmptyList /\ answer = NULL

Clear == slots' = EmptyList /\ UNCHANGED answer

Add(t, prio) == slots' = [slots EXCEPT ![prio] = t] /\ UNCHANGED answer

Remove(prio) == slots' = [slots EXCEPT ![prio] = NULL] /\ UNCHANGED answer

\* The task to dispatch is the highest one that is ready.
Query == answer' = highest_tcb(slots) /\ UNCHANGED slots

Next ==
  \/ Clear
  \/ \E prio \in Prios : Remove(prio) \/ \E t \in Tcbs : Add(t, prio)
  \/ Query

Spec == Init /\ [][Next]_vars
==============================================================================
