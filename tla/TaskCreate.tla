------------------------------ MODULE TaskCreate ------------------------------
(***************************************************************************)
(* task_create (proc.c:45) in full: the admission test of UBTest and then  *)
(* allocate_tasks.  main() makes the first call, with any list.  Later a   *)
(* task calls it once more, and neither task_create nor allocate_tasks     *)
(* masks interrupts, which the system call entry has enabled               *)
(* (swi_handler.S:26-28): the caller may lose the cpu at any point.        *)
(*                                                                         *)
(* Kernel has the same call as one step; here it is a step for every load  *)
(* and store that the interrupt handler or the dispatcher can interfere    *)
(* with, down to the bytes of the run bits: |= is a load and a store, and  *)
(* what was loaded is kept with the context of a caller that is preempted. *)
(* What tasks do otherwise is reduced to event_wait and to computing.  A   *)
(* call that returns EINVAL or EFAULT does nothing and is left out, and so *)
(* is a set of OS_MAX_TASKS, which is admitted and stored past the end of  *)
(* run_list.                                                               *)
(***************************************************************************)
EXTENDS ReadyList, UBTest

CONSTANTS
  GroupSize,    \* bits of a byte of run bits (8)
  LaterTimes    \* the times of the lists that a task may pass

ASSUME ListsAssumption ==
  /\ GroupSize \in Nat \ {0}
  /\ MaxTasks < OS_MAX_TASKS - 1
  /\ \A t \in LaterTimes : \E n \in 1 .. OS_MAX_TASKS - 1 : t \in TimesOf(n)

VARIABLES
  cur_tcb,         \* NULL until the first set is dispatched
  group_run_bits,
  run_bits,        \* the priorities whose bit is set, in any byte
  run_list,
  asleep,          \* the tcbs in the queues of the devices
  pc,              \* where the cpu is
  context,         \* where each tcb resumes
  num_tasks,       \* the size of the set that was allocated last
  stage,           \* how many sets were asked for and dispatched: "first", "running",
                   \* "replacing", "replaced", or "refused": the first was not admitted
  hit              \* an interrupt came while the run queue was being replaced

queue_vars == <<group_run_bits, run_bits, run_list>>
sched_vars == <<cur_tcb, queue_vars, asleep, context>>
vars == <<ub_vars, sched_vars, pc, num_tasks, stage, hit>>

\* A point of the code: in user code of main(), which counts as set 0, or of a
\* task of either set; in assign_schedule; before the access op of allocate_tasks
\* or of what it calls, with the number of the byte, slot or task and what was
\* loaded for it; at a context that was never stored, or that is made of the stores
\* of two; or nowhere, after a dispatch through the null pointer.
User(set) == [at |-> "user", set |-> set]
Testing == [at |-> "assign_schedule"]
Alloc(op, n, reg) == [at |-> "allocate_tasks", op |-> op, n |-> n, reg |-> reg]
Unset == [at |-> "unset"]
Mixed == [at |-> "mixed"]
Lost == [at |-> "lost"]

Init ==
  /\ NoTest
  /\ cur_tcb = NULL
  /\ group_run_bits = {} /\ run_bits = {} /\ run_list = EmptyList
  /\ asleep = {}
  /\ pc = User(0)
  /\ context = [t \in Tcbs |-> Unset]
  /\ num_tasks = 0
  /\ stage = "first"
  /\ hit = FALSE

------------------------------------------------------------------------------
(* The run queue and the dispatcher.                                         *)

group_of(prio) == prio \div GroupSize
Groups == 0 .. group_of(IDLE_PRIO)
PriosOf(g) == {p \in Prios : group_of(p) = g}

Least(S) == CHOOSE m \in S : \A k \in S : m <= k

\* The first task of the first group; of a group without bits the search takes the
\* first priority (the table has 0 for an empty byte).
highest_prio_of(groups, bits) ==
  LET g == Least(groups)
      byte == bits \cap PriosOf(g)
  IN  IF groups = {} THEN IDLE_PRIO
      ELSE IF byte = {} THEN GroupSize * g ELSE Least(byte)

\* Load the context of tcb, after the one of the current task was stored as
\* saved says.
switch_to(tcb, saved) ==
  /\ cur_tcb' = tcb
  /\ context' = saved
  /\ pc' = IF tcb = NULL THEN Lost ELSE saved[tcb]

dispatch_save(htcb) ==
  IF cur_tcb = IDLE_PRIO THEN switch_to(htcb, context)
  ELSE IF htcb # cur_tcb THEN switch_to(htcb, [context EXCEPT ![cur_tcb] = pc])
  ELSE UNCHANGED <<cur_tcb, context, pc>>

Runs(c) == c = cur_tcb /\ pc.at \notin {"unset", "mixed", "lost"}
InUser(c) == Runs(c) /\ c # IDLE_PRIO /\ pc.at = "user"

\* From the first store of runqueue_init to the last one of the idle task's
\* context (sched.c:73-94).
Replacing ==
  pc.at = "allocate_tasks" /\ pc.op \notin {"clear_groups", "find_task", "store_cur", "load_context"}

\* Any of the sleeping tasks may be due.  The timer is started just before the first
\* dispatch, so that no interrupt comes before that.
timer_irq ==
  /\ Runs(cur_tcb) /\ cur_tcb # NULL
  /\ stage # "first"
  /\ \E woken \in SUBSET asleep :
       /\ group_run_bits' = group_run_bits \cup {group_of(t + 1) : t \in woken}
       /\ run_bits' = run_bits \cup {t + 1 : t \in woken}
       /\ run_list' = [p \in Prios |-> IF p - 1 \in woken THEN p - 1 ELSE run_list[p]]
       /\ asleep' = asleep \ woken
  /\ dispatch_save(run_list'[highest_prio_of(group_run_bits', run_bits')])
  /\ hit' = (hit \/ Replacing)
  /\ UNCHANGED <<ub_vars, num_tasks, stage>>

\* The group's bit goes with the last run bit of the group.
\* (Mutated: it never goes.)
EmptiedNever(bits, g) == {}
Emptied(bits, g) == IF bits \cap PriosOf(g) = {} THEN {g} ELSE {}

\* With interrupts masked.
event_wait(c) ==
  /\ InUser(c) /\ c # NULL
  /\ run_list' = [run_list EXCEPT ![c + 1] = NULL]
  /\ run_bits' = run_bits \ {c + 1}
  /\ group_run_bits' = group_run_bits \ Emptied(run_bits', group_of(c + 1))
  /\ asleep' = asleep \cup {c}
  /\ switch_to(run_list'[highest_prio_of(group_run_bits', run_bits')],
               [context EXCEPT ![c] = pc])
  /\ UNCHANGED <<ub_vars, num_tasks, stage, hit>>

------------------------------------------------------------------------------
(* The call up to the result of the admission test.                          *)

\* main() calls it with any list; one task replaces the set, once.
task_create(c) ==
  /\ InUser(c)
  /\ \/ stage = "first" /\ stage' = stage
        /\ \E n \in 1 .. MaxTasks : \E t \in TimesOf(n) : start(ListOf(t))
     \/ stage = "running" /\ stage' = "replacing"
        /\ \E t \in LaterTimes : start(ListOf(t))
  /\ pc' = Testing
  /\ UNCHANGED <<sched_vars, num_tasks, hit>>

\* A round of the admission test.
test_step ==
  /\ pc = Testing
  /\ sorttasks \/ assign_schedule
  /\ UNCHANGED <<sched_vars, pc, num_tasks, stage, hit>>

\* ESCHED: the caller goes on, with its list sorted.
refused ==
  /\ pc = Testing
  /\ phase = "failed" /\ forget_list
  /\ pc' = User(IF stage = "first" THEN 0 ELSE 1)
  /\ stage' = IF stage = "first" THEN "refused" ELSE "running"
  /\ UNCHANGED <<sched_vars, num_tasks, hit>>

admitted ==
  /\ pc = Testing
  /\ phase = "succeeded" /\ forget_list
  /\ pc' = Alloc("clear_groups", 0, {})
  /\ num_tasks' = count
  /\ UNCHANGED <<sched_vars, stage, hit>>

------------------------------------------------------------------------------
(* The steps of allocate_tasks.  The n-th task has the tcb n and the         *)
(* priority n + 1; after the last one comes the idle task.                   *)

At(op) == pc.at = "allocate_tasks" /\ pc.op = op
Goto(op, n) == pc' = Alloc(op, n, {})

TcbOf(n) == IF n = num_tasks THEN IDLE_PRIO ELSE n
\* (Mutated: the tasks start at slot 0.)
PrioFromZero(n) == IF n = num_tasks THEN IDLE_PRIO ELSE n
PrioOf(n) == IF n = num_tasks THEN IDLE_PRIO ELSE n + 1
GroupOf(n) == group_of(PrioOf(n))

ub_rest == <<ub_vars, asleep, num_tasks, hit>>

\* runqueue_init clears the groups, the bytes and the slots.
clear_groups ==
  /\ At("clear_groups") /\ Goto("clear_byte", 0)
  /\ group_run_bits' = {}
  /\ UNCHANGED <<ub_rest, cur_tcb, run_bits, run_list, context, stage>>

clear_byte ==
  /\ At("clear_byte")
  /\ IF pc.n + 1 \in Groups THEN Goto("clear_byte", pc.n + 1) ELSE Goto("clear_slot", 0)
  /\ run_bits' = run_bits \ PriosOf(pc.n)
  /\ UNCHANGED <<ub_rest, cur_tcb, group_run_bits, run_list, context, stage>>

clear_slot ==
  /\ At("clear_slot")
  /\ IF pc.n + 1 \in Prios THEN Goto("clear_slot", pc.n + 1) ELSE Goto("load_group", 0)
  /\ run_list' = [run_list EXCEPT ![pc.n] = NULL]
  /\ UNCHANGED <<ub_rest, cur_tcb, group_run_bits, run_bits, context, stage>>

runqueue_init == clear_groups \/ clear_byte \/ clear_slot

\* runqueue_add changes the byte of the groups, a byte of run bits and the slot.
load_group ==
  /\ At("load_group") /\ pc' = Alloc("store_group", pc.n, group_run_bits)
  /\ UNCHANGED <<ub_rest, sched_vars, stage>>

store_group ==
  /\ At("store_group") /\ Goto("load_byte", pc.n)
  /\ group_run_bits' = pc.reg \cup {GroupOf(pc.n)}
  /\ UNCHANGED <<ub_rest, cur_tcb, run_bits, run_list, context, stage>>

load_byte ==
  /\ At("load_byte")
  /\ pc' = Alloc("store_byte", pc.n, run_bits \cap PriosOf(GroupOf(pc.n)))
  /\ UNCHANGED <<ub_rest, sched_vars, stage>>

\* (Mutated: the byte gets no other bit.)
AddedAlone(byte, n) == {PrioOf(n)}
Added(byte, n) == byte \cup {PrioOf(n)}

store_byte ==
  /\ At("store_byte") /\ Goto("store_slot", pc.n)
  /\ run_bits' = (run_bits \ PriosOf(GroupOf(pc.n))) \cup Added(pc.reg, pc.n)
  /\ UNCHANGED <<ub_rest, cur_tcb, group_run_bits, run_list, context, stage>>

store_slot ==
  /\ At("store_slot") /\ Goto("first_store", pc.n)
  /\ run_list' = [run_list EXCEPT ![PrioOf(pc.n)] = TcbOf(pc.n)]
  /\ UNCHANGED <<ub_rest, cur_tcb, group_run_bits, run_bits, context, stage>>

runqueue_add == load_group \/ store_group \/ load_byte \/ store_byte \/ store_slot

\* The five stores of a context: all that can be told of the points between them
\* is that the context is neither the old nor the new one.  When something was
\* saved there in between, the last stores fall on that.
NewTask == User(IF stage = "first" THEN 1 ELSE 2)

first_store ==
  /\ At("first_store") /\ Goto("last_store", pc.n)
  /\ context' = [context EXCEPT ![TcbOf(pc.n)] = Mixed]
  /\ UNCHANGED <<ub_rest, cur_tcb, queue_vars, stage>>

last_store ==
  /\ At("last_store")
  /\ IF pc.n < num_tasks THEN Goto("load_group", pc.n + 1) ELSE Goto("find_task", pc.n)
  /\ context' = [context EXCEPT ![TcbOf(pc.n)] = IF @ = Mixed THEN NewTask ELSE Mixed]
  /\ UNCHANGED <<ub_rest, cur_tcb, queue_vars, stage>>

\* dispatch_nosave: find the task, store it in cur_tcb, load its context.
find_task ==
  /\ At("find_task")
  /\ pc' = Alloc("store_cur", pc.n, {run_list[highest_prio_of(group_run_bits, run_bits)]})
  /\ UNCHANGED <<ub_rest, sched_vars, stage>>

\* (Mutated: the context of the caller is stored, as the other dispatchers do.)
KeptCaller == IF cur_tcb = NULL THEN context ELSE [context EXCEPT ![cur_tcb] = User(1)]
Kept == context

store_cur ==
  /\ At("store_cur") /\ Goto("load_context", pc.n)
  /\ cur_tcb' \in pc.reg
  /\ context' = Kept
  /\ UNCHANGED <<ub_rest, queue_vars, stage>>

load_context ==
  /\ At("load_context") /\ switch_to(cur_tcb, context)
  /\ stage' = IF stage = "first" THEN "running" ELSE "replaced"
  /\ UNCHANGED <<ub_rest, queue_vars>>

allocate_tasks ==
  \/ runqueue_init \/ runqueue_add \/ first_store \/ last_store
  \/ find_task \/ store_cur \/ load_context

Next ==
  \/ timer_irq
  \/ \E c \in TcbPointers : task_create(c)
  \/ \E c \in Tcbs : event_wait(c)
  \/ test_step \/ refused \/ admitted
  \/ allocate_tasks

\* Code that has the cpu moves on between two interrupts, which keep coming.
Spec == Init /\ [][Next]_vars /\ WF_vars(timer_irq) /\ WF_vars(allocate_tasks)

------------------------------------------------------------------------------
\* The dispatchers find a task, as "There is always an idle task to switch to"
\* (ctx_switch.c:65) says, and find its context stored, at whatever store of
\* task_create the interrupts hit, but for those from the first store of
\* runqueue_init on to the last one of the idle task's context.
DispatchFindsTask == pc \in {Unset, Mixed, Lost} => hit

\* Once the second set is dispatched no task of it goes on in code of the first one,
\* whose tcbs it uses again and whose tasks may have run, slept and been woken all
\* the while the tcbs were filled.
ReplacedTasksGone ==
  stage = "replaced" =>
    /\ \A t \in Tcbs : t < num_tasks => context[t] # User(1)
    /\ cur_tcb # NULL /\ cur_tcb < num_tasks => pc # User(1)

\* From the dispatch of a set on each of its tasks is in its slot or waits for a
\* device, also when interrupts have changed the run queue while it was filled and
\* when an interrupted caller does part of it again.  Without such an interrupt the
\* idle task is in its slot too, and the 63rd task of a set, which had that slot
\* before, never runs.
SetIsComplete ==
  stage \in {"running", "replaced"} =>
    /\ \A t \in Tcbs : t < num_tasks /\ t + 1 # IDLE_PRIO =>
         run_list[t + 1] = t \/ t \in asleep
    /\ ~hit => run_list[IDLE_PRIO] = IDLE_PRIO /\ cur_tcb # IDLE_PRIO - 1

\* A caller that is the first task of its set, once it is enqueued again, does not
\* lose the cpu for good before the second set is dispatched.
FirstTaskCompletes ==
  (cur_tcb = 0 /\ pc = Alloc("first_store", 0, {})) ~> (stage = "replaced")
==============================================================================
