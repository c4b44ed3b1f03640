-------------------------------- MODULE Kernel --------------------------------
(***************************************************************************)
(* The scheduling core of the l4/lab4 kernel: the run queue, the current   *)
(* task, the mutexes and the periodic devices, with one action per system  *)
(* call that changes them and one for the timer interrupt.                 *)
(*                                                                         *)
(* A system call runs with IRQs masked wherever it touches this state, and *)
(* so does c_irq_handler; each is therefore one step.  task_create does    *)
(* not mask IRQs: the first one runs before the timer does, but a later    *)
(* one is only followed here as far as no interrupt hits it (TaskCreate    *)
(* has its stores one by one, and what an interrupt between them does).    *)
(* Calls that return an error change nothing and are stuttering steps.     *)
(*                                                                         *)
(* A tcb is its index in system_tcb.  The i-th task of a set has priority  *)
(* i + 1; slot 0 belongs to tasks that hold a mutex; the last tcb idles.   *)
(* Time is counted in timer ticks since the stamp of the last interrupt.   *)
(***************************************************************************)
EXTENDS ReadyList

CONSTANTS OS_NUM_MUTEX,   \* mutexes in gtMutex
          NUM_DEVICES,    \* devices
          dev_freq,       \* the period of each device
          MaxTickLag,     \* the longest time between two timer interrupts
          TaskSetSizes    \* sizes of the task sets handed to task_create

Mutexes == 0 .. OS_NUM_MUTEX - 1
Devices == 0 .. NUM_DEVICES - 1

ASSUME CountsAssumption == OS_NUM_MUTEX \in Nat /\ NUM_DEVICES \in Nat

\* Every period is longer than the longest gap between two interrupts (50 ms
\* against 10 ms in the code), so that a device cannot fall behind for ever.
ASSUME PeriodsAssumption ==
  /\ MaxTickLag \in Nat \ {0}
  /\ dev_freq \in [Devices -> Nat]
  /\ \A d \in Devices : dev_freq[d] > MaxTickLag

\* task_create accepts up to OS_MAX_TASKS tasks; with OS_MAX_TASKS of them
\* allocate_tasks writes past run_list, which is not modelled.
ASSUME SizesAssumption ==
  TaskSetSizes \subseteq 1 .. OS_MAX_TASKS - 1

VARIABLES
  cur_tcb,        \* the running task; NULL until the first task_create
  num_tasks,      \* size of the latest task set
  run_list,       \* the run queue
  native_prio,    \* tcb_t.native_prio
  cur_prio,       \* tcb_t.cur_prio
  holds_lock,     \* tcb_t.holds_lock
  sleep_queue,    \* tcb_t.sleep_queue: the next tcb in the queue, or NULL
  event,          \* the device whose event_wait the tcb has yet to return from
  dev_queue,      \* devices[].sleep_queue: the first waiter
  due,            \* devices[].next_match, relative to the last stamp
  bAvailable,     \* gtMutex[].bAvailable
  bLock,          \* gtMutex[].bLock
  pHolding_Tcb,   \* gtMutex[].pHolding_Tcb
  pSleep_queue    \* gtMutex[].pSleep_queue: the first waiter

tcb_vars   == <<native_prio, cur_prio, holds_lock, sleep_queue, event>>
dev_vars   == <<dev_queue, due>>
mutex_vars == <<bAvailable, bLock, pHolding_Tcb, pSleep_queue>>
vars == <<cur_tcb, num_tasks, run_list, tcb_vars, dev_vars, mutex_vars>>

TypeOK ==
  /\ cur_tcb \in TcbPointers
  /\ num_tasks \in 0 .. OS_MAX_TASKS - 1
  /\ run_list \in [Prios -> TcbPointers]
  /\ native_prio \in [Tcbs -> Prios]
  /\ cur_prio \in [Tcbs -> Prios]
  /\ holds_lock \in [Tcbs -> {0, 1}]
  /\ sleep_queue \in [Tcbs -> TcbPointers]
  /\ event \in [Tcbs -> Devices \cup {NULL}]
  /\ dev_queue \in [Devices -> TcbPointers]
  /\ due \in [Devices -> Nat]
  /\ bAvailable \in [Mutexes -> {0, 1}]
  /\ bLock \in [Mutexes -> {0, 1}]
  /\ pHolding_Tcb \in [Mutexes -> TcbPointers]
  /\ pSleep_queue \in [Mutexes -> TcbPointers]

\* Static storage is zero, and kmain has called mutex_init.
Init ==
  /\ cur_tcb = NULL
  /\ num_tasks = 0
  /\ run_list = EmptyList
  /\ native_prio = [t \in Tcbs |-> 0]
  /\ cur_prio = [t \in Tcbs |-> 0]
  /\ holds_lock = [t \in Tcbs |-> 0]
  /\ sleep_queue = [t \in Tcbs |-> NULL]
  /\ event = [t \in Tcbs |-> NULL]
  /\ dev_queue = [d \in Devices |-> NULL]
  /\ due = [d \in Devices |-> 0]
  /\ bAvailable = [m \in Mutexes |-> 1]
  /\ bLock = [m \in Mutexes |-> 0]
  /\ pHolding_Tcb = [m \in Mutexes |-> NULL]
  /\ pSleep_queue = [m \in Mutexes |-> NULL]

------------------------------------------------------------------------------
(* Sleep queues are chains of tcbs linked through tcb_t.sleep_queue.         *)

\* What a walk from head visits: the least set that has head and is closed
\* under the link.
Chain(head, link) ==
  IF head = NULL THEN {}
  ELSE {t \in Tcbs :
          \A S \in SUBSET Tcbs :
            (head \in S /\ \A u \in S : link[u] # NULL => link[u] \in S)
              => t \in S}

\* Where the walk to the end of a queue stops.
LastOf(head) == CHOOSE t \in Chain(head, sleep_queue) : sleep_queue[t] = NULL

\* The links after tcb c is put at the end of the queue.
\* (Mutated: the link of the new last tcb is not cleared.)
AppendedUnterminated(head, c) ==
  IF head = NULL THEN sleep_queue
  ELSE [sleep_queue EXCEPT ![LastOf(head)] = c]
Appended(head, c) ==
  IF head = NULL THEN [sleep_queue EXCEPT ![c] = NULL]
  ELSE [sleep_queue EXCEPT ![LastOf(head)] = c, ![c] = NULL]

\* The first tcb of the queue after the same call.
\* (Mutated: the newcomer replaces the waiters.)
HeadReplaced(head, c) == c
HeadAfter(head, c) == IF head = NULL THEN c ELSE head

------------------------------------------------------------------------------
(* Dispatching and system calls.                                             *)

\* The task that is running is a task of some set, so it can make calls.
Running(c) == c = cur_tcb /\ c # NULL /\ c # IDLE_PRIO

\* Switch to the highest runnable task of list, which then returns from the
\* event_wait it was in, if it was in one.
dispatch(list, ev) ==
  /\ cur_tcb' = highest_tcb(list)
  /\ event' = [ev EXCEPT ![highest_tcb(list)] = NULL]

\* Also what main() calls before it creates the first task set.
mutex_create ==
  /\ cur_tcb # IDLE_PRIO
  /\ \E m \in Mutexes :
       /\ bAvailable[m] = 1
       /\ \A k \in Mutexes : bAvailable[k] = 1 => m <= k
       /\ bAvailable' = [bAvailable EXCEPT ![m] = 0]
  /\ UNCHANGED <<cur_tcb, num_tasks, run_list, tcb_vars, dev_vars,
                 bLock, pHolding_Tcb, pSleep_queue>>

\* The lock is free: the caller keeps its native slot and takes slot 0 too.
\* (Mutated: the caller is not raised to slot 0.)
mutex_lock_unraised(c, m) ==
  /\ Running(c)
  /\ bAvailable[m] = 0 /\ pHolding_Tcb[m] # c
  /\ bLock[m] = 0
  /\ bLock' = [bLock EXCEPT ![m] = 1]
  /\ holds_lock' = [holds_lock EXCEPT ![c] = 1]
  /\ cur_prio' = [cur_prio EXCEPT ![c] = 0]
  /\ pHolding_Tcb' = [pHolding_Tcb EXCEPT ![m] = c]
  /\ UNCHANGED <<cur_tcb, num_tasks, run_list, native_prio, sleep_queue, event,
                 dev_vars, bAvailable, pSleep_queue>>
mutex_lock_free(c, m) ==
  /\ Running(c)
  /\ bAvailable[m] = 0 /\ pHolding_Tcb[m] # c
  /\ bLock[m] = 0
  /\ bLock' = [bLock EXCEPT ![m] = 1]
  /\ holds_lock' = [holds_lock EXCEPT ![c] = 1]
  /\ cur_prio' = [cur_prio EXCEPT ![c] = 0]
  /\ pHolding_Tcb' = [pHolding_Tcb EXCEPT ![m] = c]
  /\ run_list' = [run_list EXCEPT ![0] = c]
  /\ UNCHANGED <<cur_tcb, num_tasks, native_prio, sleep_queue, event,
                 dev_vars, bAvailable, pSleep_queue>>

\* The lock is taken: the caller is queued and leaves the run queue, but no
\* task switch happens and mutex_lock returns 0 to it.
mutex_lock_contended(c, m) ==
  /\ Running(c)
  /\ bAvailable[m] = 0 /\ pHolding_Tcb[m] # c
  /\ bLock[m] = 1
  /\ sleep_queue' = Appended(pSleep_queue[m], c)
  /\ pSleep_queue' = [pSleep_queue EXCEPT ![m] = HeadAfter(@, c)]
  /\ run_list' = [run_list EXCEPT ![cur_prio[c]] = NULL]
  /\ UNCHANGED <<cur_tcb, num_tasks, native_prio, cur_prio, holds_lock, event,
                 dev_vars, bAvailable, bLock, pHolding_Tcb>>

\* (Mutated: the mutex being released counts as another one.)
holds_any_lock(c, m) ==
  \E k \in Mutexes : pHolding_Tcb[k] = c
holds_other_lock(c, m) ==
  \E k \in Mutexes \ {m} : pHolding_Tcb[k] = c

\* The caller gives up slot 0 with the last mutex it holds.
\* (Mutated: it keeps slot 0.)
ListStillRaised(c, m) == run_list
ListAfterRelease(c, m) ==
  IF holds_other_lock(c, m) THEN run_list
  ELSE [run_list EXCEPT ![0] = NULL, ![native_prio[c]] = c]
PrioAfterRelease(c, m) ==
  IF holds_other_lock(c, m) THEN cur_prio
  ELSE [cur_prio EXCEPT ![c] = native_prio[c]]
LockFlagAfterRelease(c, m) ==
  [holds_lock EXCEPT ![c] = IF holds_other_lock(c, m) THEN 1 ELSE 0]

\* Nobody waits: the mutex becomes free.
mutex_unlock_free(c, m) ==
  /\ Running(c)
  /\ bAvailable[m] = 0 /\ pHolding_Tcb[m] = c
  /\ pSleep_queue[m] = NULL
  /\ holds_lock' = LockFlagAfterRelease(c, m)
  /\ run_list' = ListAfterRelease(c, m)
  /\ cur_prio' = PrioAfterRelease(c, m)
  /\ pHolding_Tcb' = [pHolding_Tcb EXCEPT ![m] = NULL]
  /\ bLock' = [bLock EXCEPT ![m] = 0]
  /\ UNCHANGED <<cur_tcb, num_tasks, native_prio, sleep_queue, event,
                 dev_vars, bAvailable, pSleep_queue>>

\* Somebody waits: the first waiter becomes the holder, at priority 0.
\* (Mutated: the mutex is freed although it has a new holder.)
mutex_unlock_handoff_freed(c, m) ==
  LET h == pSleep_queue[m]
  IN  /\ Running(c)
      /\ bAvailable[m] = 0 /\ pHolding_Tcb[m] = c
      /\ h # NULL
      /\ holds_lock' = LockFlagAfterRelease(c, m)
      /\ run_list' = [ListAfterRelease(c, m) EXCEPT ![0] = h]
      /\ cur_prio' = [PrioAfterRelease(c, m) EXCEPT ![h] = 0]
      /\ pHolding_Tcb' = [pHolding_Tcb EXCEPT ![m] = h]
      /\ pSleep_queue' = [pSleep_queue EXCEPT ![m] = sleep_queue[h]]
      /\ bLock' = [bLock EXCEPT ![m] = 0]
      /\ UNCHANGED <<cur_tcb, num_tasks, native_prio, sleep_queue, event,
                     dev_vars, bAvailable>>
mutex_unlock_handoff(c, m) ==
  LET h == pSleep_queue[m]
  IN  /\ Running(c)
      /\ bAvailable[m] = 0 /\ pHolding_Tcb[m] = c
      /\ h # NULL
      /\ holds_lock' = LockFlagAfterRelease(c, m)
      /\ run_list' = [ListAfterRelease(c, m) EXCEPT ![0] = h]
      /\ cur_prio' = [PrioAfterRelease(c, m) EXCEPT ![h] = 0]
      /\ pHolding_Tcb' = [pHolding_Tcb EXCEPT ![m] = h]
      /\ pSleep_queue' = [pSleep_queue EXCEPT ![m] = sleep_queue[h]]
      /\ UNCHANGED <<cur_tcb, num_tasks, native_prio, sleep_queue, event,
                     dev_vars, bAvailable, bLock>>

\* event_wait, refused to a caller whose holds_lock is set.
event_wait(c, d) ==
  LET list == [run_list EXCEPT ![cur_prio[c]] = NULL]
  IN  /\ Running(c)
      /\ holds_lock[c] = 0
      /\ run_list' = list
      /\ sleep_queue' = Appended(dev_queue[d], c)
      /\ dev_queue' = [dev_queue EXCEPT ![d] = HeadAfter(@, c)]
      /\ dispatch(list, [event EXCEPT ![c] = d])
      /\ UNCHANGED <<num_tasks, native_prio, cur_prio, holds_lock, due,
                     mutex_vars>>

\* Tasks i < n take slots 1 .. n, then the idle task takes the last one.
\* (Mutated: the tasks start at slot 0.)
FreshListFromZero(n) ==
  [p \in Prios |-> IF p = IDLE_PRIO THEN IDLE_PRIO
                   ELSE IF p < n THEN p ELSE NULL]
FreshList(n) ==
  [p \in Prios |-> IF p = IDLE_PRIO THEN IDLE_PRIO
                   ELSE IF p \in 1 .. n THEN p - 1 ELSE NULL]
FreshPrio(prio, n) ==
  [t \in Tcbs |-> IF t = IDLE_PRIO THEN IDLE_PRIO
                  ELSE IF t < n THEN t + 1 ELSE prio[t]]

\* A task set that passed the checks of task_create and assign_schedule.
\* Mutexes, device queues, holds_lock and the links stay as they are.
task_create(n) ==
  /\ cur_tcb # IDLE_PRIO
  /\ num_tasks' = n
  /\ run_list' = FreshList(n)
  /\ native_prio' = FreshPrio(native_prio, n)
  /\ cur_prio' = FreshPrio(cur_prio, n)
  /\ due' = dev_freq
  /\ dispatch(FreshList(n), [t \in Tcbs |-> IF t < n THEN NULL ELSE event[t]])
  /\ UNCHANGED <<holds_lock, sleep_queue, dev_queue, mutex_vars>>

------------------------------------------------------------------------------
(* The timer interrupt.                                                      *)

\* The devices whose event has come.
Fired(lag) == {d \in Devices : due[d] <= lag}

Waiters(d) == Chain(dev_queue[d], sleep_queue)

\* dev_update walks the devices in order and each queue from its head; of the
\* tcbs it enqueues at one priority the last one keeps the slot.
LastWoken(lag, p) ==
  CHOOSE t \in Tcbs : \E d \in Fired(lag) :
    /\ t \in Waiters(d) /\ cur_prio[t] = p
    /\ \A u \in Chain(sleep_queue[t], sleep_queue) : cur_prio[u] # p
    /\ \A e \in Fired(lag) : e > d => \A u \in Waiters(e) : cur_prio[u] # p

\* (Mutated: only the first task of the queue is woken.)
ListAfterWakeHead(lag) ==
  [p \in Prios |->
     IF \E d \in Fired(lag) : dev_queue[d] # NULL /\ cur_prio[dev_queue[d]] = p
     THEN LastWoken(lag, p) ELSE run_list[p]]
ListAfterWake(lag) ==
  [p \in Prios |->
     IF \E d \in Fired(lag) : \E t \in Waiters(d) : cur_prio[t] = p
     THEN LastWoken(lag, p) ELSE run_list[p]]

\* runqueue_add records a nonzero priority as the native one.
NativeAfterWake(lag) ==
  [t \in Tcbs |->
     IF cur_prio[t] # 0 /\ \E d \in Fired(lag) : t \in Waiters(d)
     THEN cur_prio[t] ELSE native_prio[t]]

\* The next event of a device that fired is one period after this one.
\* (Mutated: next_match is not advanced.)
DueNotAdvanced(lag) == [d \in Devices |-> due[d] - lag]
\* (Mutated: every interrupt starts the period anew.)
DueRestarted(lag) == dev_freq
DueAfter(lag) ==
  [d \in Devices |->
     IF d \in Fired(lag) THEN due[d] - lag + dev_freq[d] ELSE due[d] - lag]

\* c_irq_handler, lag after the interrupt (or dev_init) before it.
\* (Mutated: without the dispatch.)
timer_irq_nodispatch(lag) ==
  /\ cur_tcb # NULL
  /\ run_list' = ListAfterWake(lag)
  /\ native_prio' = NativeAfterWake(lag)
  /\ dev_queue' = [d \in Devices |->
                     IF d \in Fired(lag) THEN NULL ELSE dev_queue[d]]
  /\ due' = DueAfter(lag)
  /\ UNCHANGED <<cur_tcb, event, num_tasks, cur_prio, holds_lock, sleep_queue,
                 mutex_vars>>
timer_irq(lag) ==
  /\ cur_tcb # NULL
  /\ run_list' = ListAfterWake(lag)
  /\ native_prio' = NativeAfterWake(lag)
  /\ dev_queue' = [d \in Devices |->
                     IF d \in Fired(lag) THEN NULL ELSE dev_queue[d]]
  /\ due' = DueAfter(lag)
  /\ dispatch(ListAfterWake(lag), event)
  /\ UNCHANGED <<num_tasks, cur_prio, holds_lock, sleep_queue, mutex_vars>>

------------------------------------------------------------------------------
Tick == \E lag \in 1 .. MaxTickLag : timer_irq(lag)

SystemCall ==
  \/ mutex_create
  \/ \E c \in Tcbs :
       \/ \E m \in Mutexes :
            \/ mutex_lock_free(c, m)
            \/ mutex_lock_contended(c, m)
            \/ mutex_unlock_free(c, m)
            \/ mutex_unlock_handoff(c, m)
       \/ \E d \in Devices : event_wait(c, d)

\* main() creates the one task set of the program ...
Boot == cur_tcb = NULL /\ \E n \in TaskSetSizes : task_create(n)

\* ... or a task replaces the set it belongs to, with no interrupt in the call.
Recreate == cur_tcb # NULL /\ \E n \in TaskSetSizes : task_create(n)

Next == Boot \/ SystemCall \/ Tick
NextRe == Next \/ Recreate

\* Programs that create one task set.  User code runs with IRQs enabled and
\* every masked section is finite, so timer interrupts keep coming.
Spec == Init /\ [][Next]_vars /\ WF_vars(Tick)

\* Programs in which any task may create a task set at any time, as long as no
\* interrupt hits the call.
SpecRe == Init /\ [][NextRe]_vars /\ WF_vars(Tick)

------------------------------------------------------------------------------
(* Properties of programs with one task set (Spec).                          *)

\* t is in the run queue, at whatever priority.
IsReady(t) == \E p \in Prios : run_list[p] = t

\* Only the task that is running ever holds a mutex, and nobody ever waits for
\* one: a task that takes a mutex runs at priority 0 until it has released all
\* its mutexes, and event_wait refuses to put it to sleep (mutex.c:119-126,
\* device.c:71-73).  This is the mutual exclusion of the critical sections,
\* and the reason why the queues of gtMutex stay empty.
HolderIsRunning ==
  \A m \in Mutexes :
    /\ bLock[m] = 1 => pHolding_Tcb[m] = cur_tcb
    /\ pSleep_queue[m] = NULL

\* A task is raised to priority 0 exactly while it owns a mutex, whatever the
\* order in which it took and releases several of them, and back at its native
\* priority otherwise (mutex.c:122-125, 163-168).
RaisedExactlyWhileHolding ==
  \A t \in Tcbs : t < num_tasks =>
    LET owns == \E m \in Mutexes : pHolding_Tcb[m] = t
    IN  /\ owns <=> holds_lock[t] = 1
        /\ owns <=> run_list[0] = t
        /\ cur_prio[t] = IF owns THEN 0 ELSE t + 1

\* No task of the set is lost or duplicated: it is in its native slot of the
\* run queue, or in the queue of exactly one device, the one whose event_wait
\* it is in (device.c:68-114, run_queue.c:77-108).
NoTaskLost ==
  \A t \in Tcbs : t < num_tasks =>
    /\ run_list[t + 1] \in {t, NULL}
    /\ run_list[t + 1] = t => \A d \in Devices : t \notin Waiters(d)
    /\ run_list[t + 1] = NULL =>
         \E d \in Devices :
           /\ t \in Waiters(d) /\ event[t] = d
           /\ \A e \in Devices \ {d} : t \notin Waiters(e)

\* Rate-monotonic order, as far as the code keeps it: without a mutex the task
\* that runs is the first of the run queue.
RateMonotonic ==
  cur_tcb # NULL /\ holds_lock[cur_tcb] = 0 => cur_tcb = highest_tcb(run_list)

\* The only step that lets a task run on while a task of higher priority is
\* ready is the release of its last mutex (mutex_unlock does not dispatch), and
\* the next timer interrupt ends that (c_irq.c:51).
OnlyUnlockDelaysPreemption ==
  [][/\ RateMonotonic /\ ~RateMonotonic' =>
          \E m \in Mutexes : bLock[m] = 1 /\ bLock'[m] = 0
     /\ ~RateMonotonic /\ due' # due => RateMonotonic']_vars

\* A task that waits becomes ready when, and only when, the device it waits for
\* has its event: at that interrupt, with everybody else in the queue, and at
\* no event of another device (device.c:102-113).
WokenByOwnDevice ==
  [][\A t \in Tcbs, d \in Devices :
       event[t] = d /\ ~IsReady(t) =>
         (IsReady(t)' <=> due'[d] > due[d])]_vars

\* Every task that waits for an event is eventually put in the run queue.
EventuallyWoken ==
  \A t \in Tcbs : (event[t] # NULL) ~> IsReady(t)

------------------------------------------------------------------------------
(* What programs with one task set may rely on.                              *)

\* The tasks that are in their native slots.
ReadyTasks == {t \in Tcbs : t < num_tasks /\ run_list[t + 1] = t}

\* The run queue, the sleep queues, the priorities and the flags do the work
\* of the sets of Scheduler: the first ready task runs, a task with a mutex
\* keeps the cpu, and nobody else becomes ready or stops being it than by
\* event_wait and the event (ctx_switch.c:46-93, mutex.c:119-126, 163-178,
\* device.c:68-114).
Sched ==
  INSTANCE Scheduler
  WITH Sizes <- TaskSetSizes, Idle <- IDLE_PRIO, NoTask <- NULL,
       running <- cur_tcb, ready <- ReadyTasks,
       waiting <- [d \in Devices |-> Waiters(d)], owner <- pHolding_Tcb
ImplementsScheduler == Sched!Spec

------------------------------------------------------------------------------
(* Properties that survive the replacement of a task set by another (SpecRe),*)
(* when no interrupt comes during the call.                                  *)

\* No nonempty set of tcbs is closed under the link.
Ends(link) ==
  \A S \in SUBSET Tcbs : S # {} =>
    \E t \in S : link[t] = NULL \/ link[t] \notin S

\* The walks along the sleep queues end (device.c:79, 106 and mutex.c:110),
\* whatever queues a tcb is still in when task_create gives it to a new task.
ChainsEnd == Ends(sleep_queue)

\* A slot other than 0 only ever holds the tcb that it belongs to, so that two
\* tasks can meet in slot 0 only.
SlotsKeepTheirTask ==
  \A p \in Prios \ {0, IDLE_PRIO} : run_list[p] \in {p - 1, NULL}

\* A mutex has a holder exactly when it is locked, and tasks wait for locked
\* mutexes only; one that nobody has created is neither.
MutexesConsistent ==
  \A m \in Mutexes :
    /\ bLock[m] = 1 <=> pHolding_Tcb[m] # NULL
    /\ pSleep_queue[m] # NULL => bLock[m] = 1
    /\ bAvailable[m] = 1 => bLock[m] = 0

------------------------------------------------------------------------------
(* What a comment of the sources says and the code does not do.              *)

\* mutex.c:117-118: the caller of mutex_lock loses the cpu until the mutex is
\* available.
BlockedTaskStopped ==
  \A m \in Mutexes :
    cur_tcb \notin Chain(pSleep_queue[m], sleep_queue)
==============================================================================
