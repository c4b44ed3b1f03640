------------------------------- MODULE RunQueue -------------------------------
(***************************************************************************)
(* kernel/sched/run_queue.c with its search structure: a byte of run bits  *)
(* for each group of eight priorities and a byte with a bit for each group *)
(* that has a runnable task.  A byte is the set of its high bits.          *)
(*                                                                         *)
(* The callers synchronize (run_queue.c:75, 95), so an operation is a      *)
(* step.  Callers also enqueue over an occupied slot, which the comment at *)
(* line 74 rules out: mutex_unlock does, at the native priority.           *)
(***************************************************************************)
EXTENDS ReadyList, PrioUnmap

CONSTANT UsedPrios   \* the priorities that the task set in hand uses

\* config.h:25: a multiple of 8, at most 64, so that one byte has all groups.
ASSUME GroupsAssumption ==
  /\ OS_MAX_TASKS % 8 = 0 /\ OS_MAX_TASKS <= 64
  /\ UsedPrios \subseteq Prios

Groups == 0 .. OS_MAX_TASKS \div 8 - 1

VARIABLES run_list, run_bits, group_run_bits,
          native_prio, cur_prio,   \* the fields of the tcbs that are enqueued
          picked                   \* the tcb that highest_tcb last returned

bit_vars == <<run_bits, group_run_bits>>
tcb_vars == <<native_prio, cur_prio>>
run_queue_vars == <<run_list, bit_vars, tcb_vars, picked>>

RunQueueTypeOK ==
  /\ run_list \in [Prios -> TcbPointers]
  /\ run_bits \in [Groups -> SUBSET (0 .. 7)]
  /\ group_run_bits \in SUBSET Groups
  /\ native_prio \in [Tcbs -> Prios]
  /\ cur_prio \in [Tcbs -> Prios]
  /\ picked \in TcbPointers

\* Static storage is zero.
RunQueueInit ==
  /\ run_list = EmptyList
  /\ run_bits = [g \in Groups |-> {}] /\ group_run_bits = {}
  /\ native_prio = [t \in Tcbs |-> 0] /\ cur_prio = [t \in Tcbs |-> 0]
  /\ picked = NULL

runqueue_init ==
  /\ run_list' = EmptyList
  /\ run_bits' = [g \in Groups |-> {}] /\ group_run_bits' = {}
  /\ UNCHANGED <<tcb_vars, picked>>

group_of(prio) == prio \div 8

runqueue_add(t, prio) ==
  /\ native_prio' = [native_prio EXCEPT ![t] = IF prio # 0 THEN prio ELSE @]
  /\ cur_prio' = [cur_prio EXCEPT ![t] = prio]
  /\ group_run_bits' = group_run_bits \cup {group_of(prio)}
  /\ run_bits' = [run_bits EXCEPT ![prio \div 8] = @ \cup {prio % 8}]
  /\ run_list' = [run_list EXCEPT ![prio] = t]
  /\ UNCHANGED picked

\* The group's bit goes with the last run bit of the group.
\* (Mutated: it goes with any run bit of the group.)
EmptiedAny(prio) == {prio \div 8}
Emptied(prio) ==
  IF run_bits[prio \div 8] \ {prio % 8} = {} THEN {prio \div 8} ELSE {}

runqueue_remove(prio) ==
  /\ run_list' = [run_list EXCEPT ![prio] = NULL]
  /\ run_bits' = [run_bits EXCEPT ![prio \div 8] = @ \ {prio % 8}]
  /\ group_run_bits' = group_run_bits \ Emptied(prio)
  /\ UNCHANGED <<tcb_vars, picked>>

\* (Mutated: the bit is looked up in the byte of the groups.)
search_groups_twice == 8 * lookup(group_run_bits) + lookup(group_run_bits)
search ==
  IF group_run_bits = {} THEN IDLE_PRIO
  ELSE 8 * lookup(group_run_bits) + lookup(run_bits[lookup(group_run_bits)])

find_highest_tcb ==
  /\ picked' = run_list[search]
  /\ UNCHANGED <<run_list, bit_vars, tcb_vars>>

\* allocate_tasks, dev_update and the mutexes enqueue the tcb i at priority
\* i + 1 or 0, and the idle tcb at IDLE_PRIO.
RunQueueNext ==
  \/ runqueue_init
  \/ \E prio \in UsedPrios : runqueue_remove(prio)
  \/ \E prio \in UsedPrios \ {0} :
       LET t == IF prio = IDLE_PRIO THEN IDLE_PRIO ELSE prio - 1
       IN  \E p \in {prio, 0} : runqueue_add(t, p)
  \/ find_highest_tcb

RunQueueSpec == RunQueueInit /\ [][RunQueueNext]_run_queue_vars

------------------------------------------------------------------------------
\* The bits are those of the occupied slots, and the groups those that have
\* such a bit (run_queue.c:20-30).
BitsMatchList ==
  /\ \A p \in Prios : p % 8 \in run_bits[p \div 8] <=> run_list[p] # NULL
  /\ \A g \in Groups : g \in group_run_bits <=> run_bits[g] # {}

\* The two-level search is the search of the list: RunQueue implements
\* ReadyQueue, whose slots are the list; the bits have no counterpart.
Ready == INSTANCE ReadyQueue WITH slots <- run_list, answer <- picked
ImplementsReadyQueue == Ready!Spec
==============================================================================
