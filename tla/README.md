# Verification of the kernels of 18-342 and of what runs on them

This directory models the real-time kernel of `src/l4/lab4/kernel` (an ARM PXA255
kernel with rate-monotonic scheduling, mutexes with a priority ceiling, and periodic
devices), the programs and the C library of `src/l4/lab4/tasks`, and the kernels and
programs of the earlier labs in TLA+, checks the models with TLC on small instances, and
proves the central invariants with TLAPS for every size. Paths below are relative to
`src/l4/lab4/kernel` unless they start with `src/` or with a lab.

## The system

The repository holds four course labs; lab 4 contains the final kernel and reuses the
code of the earlier ones. Its parts:

| part | state | operations | works with |
|---|---|---|---|
| run queue, `sched/run_queue.c` | `run_list`, `run_bits`, `group_run_bits` | init, add, remove, highest_prio | everything below |
| dispatcher, `sched/ctx_switch.c`, `ctx_switch_asm.S` | `cur_tcb`, the saved contexts | dispatch_save, _nosave, _sleep | reads the run queue |
| task allocation, `syscall/proc.c`, `sched/sched.c` | `system_tcb` | task_create, event_wait, allocate_tasks, sched_init | admission test, run queue, timer, devices, dispatcher |
| mutexes, `lock/mutex.c` | `gtMutex`, `holds_lock`, `cur_prio` | create, lock, unlock | run queue (never the dispatcher) |
| devices, `device.c` | `sleep_queue`, `next_match` per device | dev_init, dev_wait, dev_update | run queue, clock |
| timer interrupt, `c_irq.c`, `arm/int_asm.S` | OSCR, OSMR0, OSSR, `lastoscr` | c_irq_handler | clock, devices, dispatcher |
| clock, `syscall/time.c`, `main.c` | `start_time`, `rollovercount` | dotime, dosleep, init_timer | timer |
| system call entry, `syscall/swi_handler.S`, `c_swi.c` | the register frame | one call for each number | all of the above |
| admission test, `sched/ub_test.c` | the task list of the caller | sort, utilization bound | task_create |
| console, `syscall/io.c` | the buffer of the caller | read, write | firmware |
| start, `main.c` | the patched vectors | kmain, install_handler | firmware |
| utilities, `memcheck.c`, `math.c` | none | valid_addr, ilog2 | the checks of arguments |
| programs, `src/l4/lab4/tasks` | their globals, `errno` | main and the tasks | system calls |
| library, `tasks/libc` | the buffer of printf | strings, numbers, formatted output and input | programs, kernel |
| lab 3 kernel and programs, `l3/lab3` | both vectors, `rollovercount` | start, read, write, time, sleep, exit | firmware |
| lab 2 kernel and rot13, `l2/part2` | one vector | start, read, write, exit | firmware |
| lab 1, `l1/part2c` | an array | three searches for the odd one out | none |

What is hard about this code:

* the timer interrupt preempts user code at any instruction, and kernel code wherever
  interrupts are not masked;
* a tcb has a single link, used by the queues of all devices and all mutexes;
* a task that holds a mutex is in two slots of the run queue;
* `mutex_lock` and `mutex_unlock` change the run queue and do not dispatch;
* `task_create` may be called by a task and replaces the set while tasks of the old one
  sleep on devices or hold mutexes;
* time is a 32-bit counter that wraps every 19 minutes, extended in software;
* the programs are correct only together with the kernel's scheduling: they share
  values, and rely on the order that the priorities give;
* the kernels take two words of the boot loader's code over and must give them back;
* the library works on C strings and counts that wrap.

What makes each part correct is stated as a property of its module; `PROJECT.json`
lists the hazards, each at its line, with the properties that cover it.

## Modules

| module | models | role |
|---|---|---|
| `ReadyList` | the run queue as a list of slots | shared definitions |
| `Kernel`, `MCKernel` | dispatcher, task allocation, mutexes, devices, timer interrupt | the core |
| `Scheduler` | what a program with one task set relies on | abstract specification, which `Kernel` implements |
| `Kernel_proof` | | theorems about `Kernel` and about `UserTasks` |
| `Numbers_proof` | | lemmas about numbers, intervals and wrapped counters for the other proofs |
| `ReadyQueue` | what the kernel relies on of the run queue | abstract specification |
| `PrioUnmap` | the table of lowest bits | pure function, used by `RunQueue` |
| `RunQueue`, `RunQueue_proof` | `run_queue.c` with its bitmaps | implements `ReadyQueue` |
| `UBTest` | `sched/ub_test.c` | sort and admission test, a component of `TaskCreate` |
| `TaskCreate`, `MCTaskCreate`, `TaskCreate_proof` | `task_create` from the test to the dispatch, load by load and store by store, with interrupts | a task_create that interrupts hit, which `Kernel` does not follow |
| `SwiPath`, `SwiPath_proof` | entry and exit of system calls and interrupts, the context switch | status, frames and user stack pointer |
| `Clock`, `Clock_proof` | OSCR, `lastoscr`, `rollovercount`, `dotime` | the time |
| `Sleep`, `Sleep_proof` | `dosleep` | takes the time to be right; the theorem about `KernelUtil` is here too |
| `UserTasks`, `MCUserTasks` | the nine programs of `tasks/` with the results of their calls | extends `Kernel` |
| `Console` | `syscall/io.c`, the same in labs 2, 3 and 4 | line editor and write loop, a component of `Labs` |
| `Labs`, `MCLabs`, `Labs_proof` | the kernels of labs 2 and 3 with rot13, typo, typehero, sleeptest; the start of lab 4 | extends `Console` |
| `CString`, `CNumbers`, `Printf`, `Scanf` | `tasks/libc` | pure functions |
| `LabThreeLibc` | the library of lab 3, its twister | names the functions above |
| `LabOne` | `l1/part2c` | pure functions |
| `KernelUtil` | `memcheck.c`, `math.c` | pure functions |
| `MCServices` | | one run of `RunQueue`, `Clock`, `Sleep` and `SwiPath` |
| `Library`, `MCLibrary` | calls of all these functions | the run of the pure functions |

`Kernel` is the model in which the parts of lab 4 meet. `UserTasks` puts the programs on
it. `TaskCreate`, `SwiPath` and `RunQueue` each open up something that `Kernel` takes as
one step, and `Clock` is a part that reaches the scheduler only through a value (it
gives `dev_update` its stamp). `RunQueue`, `Clock`, `Sleep` and `SwiPath` share no
state; `MCServices` extends the four, and a behaviour of its run is one of any of them.

### Kernel

The variables are the fields of the C structures under their C names: `cur_tcb`,
`run_list`, the tcb fields `native_prio`, `cur_prio`, `holds_lock`, `sleep_queue`, the
mutex fields `bAvailable`, `bLock`, `pHolding_Tcb`, `pSleep_queue`, and the device
fields as `dev_queue` and `due`. A pointer to a tcb is its index in `system_tcb`, so the
task at index `i` has the native priority `i + 1`. Two variables are not fields of the
code: `event[t]` stands for the saved context of a task that is inside `event_wait` (the
dispatcher resets it when the task is switched to), and `num_tasks` is the size of the
latest set.

Each system call is an action, split at the branches of the C function:
`mutex_create`, `mutex_lock_free`, `mutex_lock_contended`, `mutex_unlock_free`,
`mutex_unlock_handoff`, `event_wait`, `task_create` (as `Boot` from main and `Recreate`
from a task). `timer_irq` is `c_irq_handler` with `dev_update` and the dispatch. Calls
that end in an error return leave the state as it is and are stuttering steps. The
mutex calls and `event_wait` mask interrupts over all their accesses, and so does the
handler: each is one step. Tasks make any call at any time, in any order.

`task_create` does not mask interrupts. main calls it before the timer is started
(`sched/sched.c:37`), so that `Boot` is exact. A task calls it with interrupts enabled,
and `runqueue_init` empties the run queue: `Recreate` follows such a call only as far as
no interrupt hits it. What `Kernel` says with `Recreate` is about sequences of calls, and
says nothing of such interrupts; in particular it makes no claim that there is always a
task to dispatch. `TaskCreate` is about them.

`due` is `next_match` minus the stamp of the last interrupt; the stamp advances by any
`lag` of 1 to `MaxTickLag` between two interrupts. In the code interrupts are 10 ms
apart and periods are at least 50 ms (`device.c:45`), so `PeriodsAssumption` asks that
every period exceeds the lag.

The sleep queues are followed with `Chain`, the least set that has the head and is
closed under the link; a walk in the code visits exactly this set. `LastWoken` says
which tcb keeps a slot when several of one `dev_update` are enqueued at one priority.

### Scheduler

The abstract specification has no slots, links, flags or priorities: a running task, the
set of ready ones, a set of waiting ones for each device and an owner for each mutex. The
first ready task runs, or the idle task, except that an owner keeps the cpu until it has
released everything and the kernel has looked again. `Kernel` implements it, with one
task set, under

| `Scheduler` | `Kernel` |
|---|---|
| `running` | `cur_tcb` |
| `ready` | the tasks of the set that are in their native slots (`ReadyTasks`) |
| `waiting[d]` | the chain of tcbs from `dev_queue[d]` |
| `owner` | `pHolding_Tcb` |

`Boot` is `Create`, `mutex_lock_free` is `Acquire`, `mutex_unlock_free` is `Release`,
`event_wait` is `Wait`, `timer_irq(lag)` is `Interrupt` with the devices that fired, and
`mutex_create` changes nothing. The two actions on a mutex that somebody waits for have no
counterpart: that they never happen is part of what is implemented. The abstract
specification is about safety; that interrupts and events come is `EventuallyWoken`.

### RunQueue

A byte of run bits is the set of its high bits, and `search` is the two-level lookup of
`highest_prio` in the table, by the number that the set stands for. An operation is a
step: the callers synchronize (`run_queue.c:75`).
`ReadyQueue` is the same list with the query "the first occupied slot"; `RunQueue`
implements it with the identity on `run_list` and `picked`.

### TaskCreate and UBTest

`UBTest` is `assign_schedule`: `given` is the list as the caller made it and `tasks` the
list in memory. A step is a round of the outer loop of the sort or of the test.
Utilizations are scaled to integers by `Hyperperiod`; the factors of `kroottwo` are
rounded down to four digits, and for the bounds of the run no utilization lies within
the rounding. `AdmittedIsSchedulable` compares with the exact condition on the demand at
some point of the period.

`TaskCreate` adds what follows an admission. `run_list`, `cur_tcb` and the queue members
`asleep` are as in `Kernel`; `group_run_bits` is the byte of the groups, and `run_bits`
the priorities whose bit is set in whichever byte of `run_bits` they belong to. The
handler, the dispatcher and `event_wait` change and search them as `run_queue.c` does,
with groups of `GroupSize`; the search of a group without bits finds its first priority,
because the table of lowest bits has 0 for an empty byte. `allocate_tasks` has a step for
each access that interrupts can come between: the byte of the groups, each byte of run
bits and each slot are cleared one by one (`run_queue.c:62-66`); `runqueue_add` loads the
byte of the groups, stores it, loads the byte of run bits, stores it, and stores the slot
(`:83-86`), so that what an interrupt changes between load and store is overwritten with
the old byte; a context has a first and a last store, between which it is `Mixed`, since
all that can be told of the points between its five stores is that it is neither the
old context nor the new one; and the dispatch finds a task, stores `cur_tcb` and loads
the context in three steps. `pc` is where the cpu is and `context[t]` where `t` resumes,
with what was loaded, so a caller that is preempted keeps its place in the loop. main
makes the first call with any list, and a task makes the second. Mutexes are left out.
`pc = Lost` is a dispatch through the null pointer; nothing is said of what follows.

### SwiPath

The state is what the tasks share, `cpsr` (as `mode` and `masked`), `spsr`, the
user-mode stack pointer `usp`, and for each task its kernel stack as a sequence of
frames and its saved context. A frame is its saved status and the point it leads back
to, and for an interrupt the user stack pointer. `at` is the point of the code where the
cpu is. A sequence of instructions with interrupts masked is one step, which is exact on
one cpu; everywhere else `irq_wrapper` may come between two steps. Which task is ready
is left open. `event_wait_stub` is the library's wrapper, because it is what reloads the
stack pointer. When a task has been left in supervisor mode (the finding of the
run `spsr_overwritten`), its system calls and its stub are not followed further.

### Clock and Sleep

`ticks` is the true time, from which the counter is computed; `Tick` moves it, also
between the steps of the handler (test, sample, stamp) and between the two reads of a
task's `dotime`. `since` bounds the time between interrupts and in the handler. `missed`
is a ghost: the passes of `start_time` between test and sample; so are `readTicks` and
`clean`, which say when a task's `dotime` read the counter and whether a handler or an
uncounted pass came between. `SampledStart` says that
`start_time` is neither within one interrupt gap of 0 nor of the wrap; closer starts lose
passes because no sample falls on one side of them. A task set is assumed to be created
within `MaxIrqGap` of `init_timer`.

`Sleep` polls a 32-bit millisecond time; `gap` bounds the time between two polls,
which is any length when the task is preempted (`Elapse` is the time between them).

### UserTasks

A behaviour is the run of one of the nine programs: mutex_chaser, simple_mutex, sys_err,
stress, butterknife, cyclone, dagger, sched_check, hello. `pc[c]` is the place of a
task in its function (main is tcb `NULL`), `data` the program's variables, `errno` the one
variable that all of them share. A system call is the action of `Kernel` together with the
library's wrapper: `mutex_lock(c, m, ok, err)` goes on at `ok`, or sets `errno` and goes on
at `err`. A read and a write of a shared value are steps of their own wherever an
interrupt between them would be seen. The field `B` of the lists, which only sched_check
sets, is what the stack holds, so task_create may refuse the others.

The admission test promises deadlines to tasks that keep to their `C`. `InTime` is that
promise: an event does not find its task still ready. It is an assumption of the run, is
not made where a task computes for ever or sleeps longer than its period, and it is what
`SpecUser` adds to `Kernel` besides the programs. A store of mutex_chaser is given the
whole expression that the task computes from the value it has loaded.

cyclone creates task sets with interrupts enabled. An interrupt in the call before its
task is enqueued again dispatches the idle task or nothing, and nobody enqueues the task
any more (`TaskCreate`): then the task is at "lost", which it may be in each of its calls,
and the behaviour is not followed further. A later interrupt finds the task first in the
run queue and comes back to it. So all that is said of cyclone is up to such an interrupt,
whose window is a few hundred instructions every 10 ms.

`src/l4/lab4/tests` has records of runs of six of the programs. Those of cyclone, dagger
and mutex_chaser are behaviours of this model, and that of sys_err fixes the one result
which the code alone does not: its second list is at the address `0xdeadbeef`, which
nothing checks before it is read, and what the board has there is refused with `EFAULT`
as `sys_err.c:70` expects. The records of simple_mutex and stress are not behaviours of
this kernel: see the run `recorded_tests`.

### Console and Labs

In `Console` a step of `doread` is one character, a step of `dowrite` one byte. `line` is
a ghost, the line as the user edits it. Memory goes two cells beyond the buffer and has a
zero at its end. What the terminal shows is left out. `ret` is the register that the
result and the first argument share: a read that fills the buffer does not assign it and
returns the file descriptor, 0 (the run `read_full`). `dowrite` stops at the first zero
byte and never looks at its count, which `syscall/io.c:87-91` says is the number of bytes
that are written; so does the model, and the programs here always write terminated
lines but for those that `LinesWritten` names.

`Labs` starts with the boot loader's vectors (`handler`), replaces them as
`install_handler` does, runs one program and puts them back. `has_ldr` says what is found
at each vector, in every combination and for every program of lab 3: one that is not an
`ldr` is left alone and reported, and its `install_handler` returns `ERROR_CASE`. `exit`
leads behind the call of `user_mode`, and from there `restore_old_handlers` is a step for
each word (`l3/lab3/kernel/main.c:65-73`), with interrupts as `swi_handler.S` has enabled
them. The address it gets for a vector that was not found is `ERROR_CASE`: `astray` counts
those stores, and each may be aborted and reset the machine. An interrupt that finds one word of the
boot loader and one of the kernel makes `pc` "undefined". Numbers that only
scale the game (ten steps, nine hits) are constants. `sleeptest` is the program in which
time passes: `ticks` is the true time and `ossr_m0` the pending match; `data` has ghosts
that say what was pending, and what interrupt came, in the latest `dotime`. The interrupt
handler's return to `lr` without the subtraction of 4 (`l3/lab3/kernel/irq_handler.S:27`)
skips an instruction of the interrupted code, and is left out.

### The library

`CString` works on a memory, a function of addresses; a pointer is an address, and a
function that stores gives the memory it leaves. A loop that runs out of the memory stops
there. `Printf` has a directive as the code reads it: flags, width, precision and
conversion, then the conversion itself; a text is a sequence of character codes.
`Scanf` reads from such a memory. Recursive operators follow the loops of the C code.
`Library` chooses a call and its arguments in `Init` and makes it in one step; its
properties relate the results of several functions, and never a function to a copy of it.

## Runs

| run | question | bounds |
|---|---|---|
| `one_task_set` | programs that create one task set | 5 tcbs (up to 3 tasks and idle), 2 mutexes, 2 devices of periods 3 and 4, lag 1 or 2 |
| `replaced_task_sets` | programs that replace the set at any time | 4 tcbs (up to 2 tasks), 2 mutexes, 2 devices |
| `services` | bitmaps against the list | 16 priorities, two groups; a subset of the priorities in use, in both groups, with 0 and the idle slot |
| | system calls and interrupts in any order | 3 tasks and idle; a stack holds two frames at most, which is `FramesNest` and no bound |
| | rounds of the counter | 16 values, gap 3, handler 1 tick, 36 ticks (two wraps), starts on both sides of every case |
| | starts, requests and delays of sleeps | 16 values, window 4, polls up to 2, 4 or 20 apart, starts before and after a wrap |
| `task_creation` | task_create by main, for every list, then by a task for five lists; interrupts anywhere | 5 tcbs in two groups of 3 priorities, first lists of up to 3 tasks with times 1 to 3, blocking 0 to 2, periods 2, 3, 4, 6; a second set of 1 to 4 tasks |
| `programs` | the nine programs of lab 4 | 8 tcbs, 3 mutexes, 4 devices at the periods of the code in units of 25 ms; stress with 6 tasks, cyclone with 3 iterations |
| `labs` | the kernels of labs 2 and 3 under their programs | two letters, buffers of 4 bytes, 2 lines; times 0, 5 and 42; a game of 7 rounds, step 2, streaks of 1, lost below -2; 6 values of the counter, 14 ticks, sleeps of 0, 1 and 4 |
| `library` | calls of the pure functions | memory of 5 cells over two letters, 8-bit longs, texts and arrays of up to 5, a printf buffer of 3, 8 addresses |
| `contended_lock`, `spsr_overwritten`, `read_full`, `strncpy_count`, `recorded_tests` | statements of the sources and the recorded tests that the code does not keep | those of the module's passing run, or smaller |

Three tasks are enough for a queue with a first, a middle and a last waiter and for a
task between two others in priority; two mutexes for releases out of order; two devices
for queues that merge and for events at one interrupt or at different ones. The due
times are bounded by the periods, so no other bound on time is needed. The second lists
of `task_creation` have one of each size, one that is not sorted, one that is refused and
one that fills the slot of the idle task. A printf buffer of 3 is shorter than the texts,
so each position of the flush occurs, and an array of 5 has two pairs. The game reaches a
step of 0 by two streaks, and 14 ticks are two rounds and more.

`CHECK_DEADLOCK FALSE` is set where the system ends: `Sleep` (in `MCServices`) and `Library`
follow one call, the programs of `UserTasks` and `Labs` end (in `UserTasks` at a panic that keeps the
cpu), and in `TaskCreate` a refusal or a dispatch through the null pointer ends the model.

What the passing runs show:

* `HolderIsRunning`: with one task set a critical section is never interrupted by
  another task; the queues of the mutexes are never used. `RaisedExactlyWhileHolding`:
  the ceiling is exact even when mutexes are nested in any order.
* `NoTaskLost`: each task is ready or in the queue of the one device it waits for.
* `OnlyUnlockDelaysPreemption`: the running task is the highest ready one, except from
  the release of a last mutex to the next timer interrupt.
* `WokenByOwnDevice`, `EventuallyWoken`: an event wakes its waiters, all of them and no
  others, and it comes.
* `ImplementsScheduler`: all of this together is the scheduler of `Scheduler`.
* `ChainsEnd`, `SlotsKeepTheirTask`, `MutexesConsistent`: what is left of this when task
  sets are replaced, without an interrupt in the call.
* `BitsMatchList`, `ImplementsReadyQueue`: bytes, groups and list agree, and the search
  through the table finds the first occupied slot.
* `SortKeepsTasks`, `AdmittedIsSchedulable`: the sort permutes the tasks and leaves the
  blocking times where they were, and an admitted list meets its deadlines with the
  blocking times it has after the sort.
* `DispatchFindsTask`, `SetIsComplete`, `ReplacedTasksGone`, `FirstTaskCompletes`: what
  holds of a task_create that is interrupted between any two of its loads and stores. No
  dispatch goes through a null pointer or loads a context that is not complete, unless an
  interrupt came while the run queue was being replaced; the tasks of the set are all in
  their slots or asleep in the end, even so; and the first task of a set completes the
  call if it gets as far as its own slot.
* `InterruptsOnInUser`, `FramesNest`, `OwnStack`: however calls, interrupts and switches
  interleave, user code has interrupts enabled (the error returns of the mutex calls
  leave them masked) and its own stack pointer, and each return pops its own frame.
* `RolloversAccounted`, `NeverCountedTwice`, `ReadingIsTime`: the exact account of the
  rollover count. A pass is lost only in the handler's own window.
* `SleepsAsAsked`: for which starts, targets and delays dosleep is right.
* `CriticalSectionsKept`: the tasks of mutex_chaser work on every value in the order of
  their periods and lose no update, and the sections of butterknife exclude each other.
* `PanicsAndResults`: which calls of the programs fail, and how; a task that panics takes
  the cpu from all below it for good.
* `ProgramsProceed`: how far each admitted program comes: mutex_chaser to its report,
  cyclone to its last iteration or to an interrupt that loses it, simple_mutex and stress
  to their panics, and the tasks of dagger and sched_check to every period.
* `LinesWritten`: through any sequence of characters and backspaces the counter, the
  pointer, the buffer and the result of a read that the user ended agree, and what is
  written back is what was typed.
* `BootLoaderRestored`: the two words of each handler, over start and exit, with any of
  them not found, and what an interrupt meets in the middle of the restore.
* `GameRules`: scores, streaks and the end of typehero.
* `RoundsCounted`: lab 3 counts each round once, and by how much its times can be wrong.
* `CopiesAreExact`, `SearchesAgree`: the string functions, with overlap, and the three
  searches of lab 1, against each other.
* `NumbersReadBack`, `FieldsKept`: what printf has printed, strtol, strtoul, atoi and
  sscanf read back as the same value, in fields of the width asked for.
* `OutputIsComplete`: printf, snprintf and putchar deliver all of their text in order.
* `UtilitiesRight`: valid_addr and ilog2.

Findings, each a run that TLC ends with a counterexample:

1. `mutex_lock` queues the caller of a taken mutex and returns 0 to it at once, although
   the comment says the cpu is revoked. It takes a replaced task set to get there, since
   with one set `HolderIsRunning` rules out that a mutex is taken (`contended_lock`).
2. An interrupt between the load of spsr and the return from a system call leaves the
   task in supervisor mode (`spsr_overwritten`).
3. A read that fills its buffer returns 0, where `syscall/io.c:31-32` has the number of
   bytes that were read (`read_full`).
4. `strncpy` clears the memory behind the copy when the source is not shorter than the
   count, where `tasks/libc/string/strncpy.c:38-41` has exactly count characters written
   (`strncpy_count`).
5. simple_mutex and stress panic, where `tests/simple_mutex.txt:11` records "succes!" and
   `tests/stress.txt:512` that the test is passed. The one waits with a mutex in its
   hands, which `device.c:71` refuses, and says itself that it "will not work for part 2
   of this lab"; the fifth task of the other waits for a device that does not exist,
   which `syscall/proc.c:70` refuses. Both records must be of a kernel without these
   checks (`recorded_tests`; its counterexample is of simple_mutex, and `PanicsAndResults`
   and `ProgramsProceed` show the end of stress).

Several properties have a hypothesis or an exception where the code does not keep the
stronger statement that a reader would expect. In the kernel of lab 4:

* `OnlyUnlockDelaysPreemption`: `mutex_unlock` does not dispatch.
* `SmallSets`, `SetIsComplete`: with `OS_MAX_TASKS - 1` tasks the last one is enqueued at
  `IDLE_PRIO` and then overwritten by the idle task, so it never runs.
* `MutexesConsistent` says nothing of the priority and `holds_lock`: a hand-off does not set
  the flag, and in replaced sets a tcb may still have that of an earlier task.
* `SortKeepsTasks` and `AdmittedIsSchedulable` say nothing of whose blocking time it was:
  `sched/ub_test.c:84` leaves `B` behind when it moves a task.
* Nothing is said of tasks of a replaced set on a device queue: `task_create` leaves the
  queues as they are, so such tasks are woken again.
* `DispatchFindsTask`: from the first store of `runqueue_init` on to the last one of the idle
  task's context, an interrupt of a second task_create may find no task, a set bit with
  an empty slot, or a context that is half stored, and have its own changes to the run
  bits undone, although `sched/ctx_switch.c:65` says that there is always a task.
* `FirstTaskCompletes` is about the first task: another caller of `task_create` may be
  preempted by the new first task and not be in the run queue any more.
* `RolloversAccounted`, `ReadingIsTime` name the passes that are not counted: between the
  test and the sample of a handler, and between the counter and the count of one `dotime`.
* `SleepsAsAsked`: a sleep over the wrap that begins in the wrap window ends at once, and
  one that polls too rarely around the wrap lasts another round.
* `LinesWritten`: a line that ends with the transmission is followed by what is left of an
  earlier one.

In the programs and the library:

* `PanicsAndResults`: simple_mutex waits for an event while it holds its mutex, and one
  task of stress waits for a device that does not exist; both panic and keep the cpu
  (finding 5). sched_check gives its two tasks the same stack; what they then
  overwrite of each other is up to the compiler and is left out.
* `CopiesAreExact` is about strncpy only where the source is shorter than the count (finding
  4 is the rest). `OutputIsComplete`: snprintf ends a text that fills its buffer one byte
  behind it, and a conversion of radix 0 raises. `FieldsKept`: `%s` of sscanf reads on past
  the end of a string. `NumbersReadBack`: no reader takes a plus sign, and `%#p` has its
  prefix twice. `FieldsKept` uses the register of the example in
  `tasks/libc/stdio/doprnt.c:101-103`, of which the code prints
  `13<FIELD1=2,BITTWO,BITONE>` where the example has `b<FIELD1=2,BITONE>`.
* `SearchesAgree`: the search of the sorted array of lab 1 looks at the element behind the array.
* `RoundsCounted`: a time of lab 3 is a round ahead or behind when a round ends at the call.
  `l3/lab3/kernel/c_irq.c:24` multiplies where it means to mask the status; since the
  match is the only source that is enabled, the branch is the right one.
* `GameRules`: after ten streaks typehero divides by zero.
* `LinesWritten`: typo shows the first letter of the line for times below a tenth of a
  second, and rot13 ends when a read fills its buffer.
* `BootLoaderRestored`: a vector that is not an `ldr` is reported and the other is patched
  all the same; a system call then goes to the boot loader, and a return without the
  vector of interrupts stores two words at `ERROR_CASE`. An interrupt between the two
  words of its handler runs half of each.
* `UtilitiesRight`: `ilog2` is called with small arguments, so that the wide fields of its
  search are not reached.

## Fairness

`Spec` of `Kernel` assumes weak fairness of `Tick` alone: user code runs with interrupts
enabled and every masked section of the kernel ends, so the timer interrupt is taken again
and again. Nothing is assumed about the tasks: they may compute for ever.
`EventuallyWoken` ends with the task in the run queue and not with its running, because
a task of higher priority that never waits may keep the processor.

`TaskCreate` assumes weak fairness of `timer_irq`, for the same reason, which
`InterruptsOnInUser` supports, and of `allocate_tasks`: between two interrupts 10 ms
apart code that has the cpu moves on. Tasks again need not do anything.

`SpecUser` assumes weak fairness of `UserStep`, since a program's code moves on when it has
the cpu, and of `TickInTime`, the timer interrupt under the deadlines that the admission
test promises (`InTime`). The other modules have safety properties only and assume no
fairness.

## Proofs

All proofs are for any number of tasks, mutexes and devices, any periods, lists of tasks,
widths, buffers, texts and delays that satisfy the named assumptions:

* `MaxTasksAssumption`, `NullAssumption`, `CountsAssumption`, `PeriodsAssumption`,
  `SizesAssumption` (`Kernel`), `GroupsAssumption` (`RunQueue`), `IdleAssumption`
  (`SwiPath`): sizes, and values that must differ;
* `ClockAssumption`, `SleepAssumption`, `AddrAssumption`: a round of the counter, of the
  time and of the address space has at least one value, and delays are numbers;
* `TaskAssumption`, `ListsAssumption`: times are numbers, periods positive ones, the first
  list leaves the idle slot free and later ones have up to 63 tasks, as `task_create`
  admits (the bounds of the admission test are left open for more than four tasks, and
  nothing that is proved depends on them);
* `UserAssumption`, `OrderAssumption` (`UserTasks`): the four devices of the code and
  their periods in the order of `device.c:45`, as many tasks of stress as a set can have,
  and three mutexes, of which sys_err and mutex_chaser name the first ones;
* `ConsoleAssumption`, `LabsAssumption`, `TimesAssumption`: letters are not control
  characters, the bounds of the game are numbers, and a time and its line end fit the
  buffer, as they do in typo.

Where `SmallSets` is a hypothesis, task sets leave the idle slot free, which the last task
of a larger set makes necessary. `NullIsNoDevice` says that
the null pointer is not the number of a device, as it is in C; it is a hypothesis of
`EventsWakeWaiters` and of `ProgramsAreScheduled`. `ProgramSizes`, for the theorems that
take a program's behaviour for one of `Kernel`, says that the sizes of the programs' sets
are among those that `Kernel` tries.

Kernel:

* `TypeCorrect`: inductive by itself, the only arithmetic being that `due` stays a
  natural number because each period exceeds the lag.
* `SleepQueuesEnd`: `ChainsEnd` says that no nonempty set of tcbs is closed under the
  link. It is inductive with the type invariant: appending changes the link of the last
  tcb of a queue to the newcomer and clears the newcomer's link; a closed set after it
  would not contain the newcomer, hence would be closed before it.
* `SlotsKept`: a slot of nonzero priority only ever gets its own tcb, which needs that
  `cur_prio` and `native_prio` of a tcb are 0 or its own priority.
* `MutexStateConsistent`: inductive with the type invariant.
* `MutualExclusion`, `CeilingExact`, `TasksConserved`: three parts of one inductive
  invariant, `OneSetInv`, because each needs the others: a holder cannot lose the cpu
  since slot 0 is found first, slot 0 is the holder's since nobody else ever has priority
  0, and nobody else is woken at priority 0 since a task sleeps with `holds_lock` 0.
* `PreemptionDelayed`: the action property, from `OneSetInv` step by step. The dispatcher
  loads the highest ready task; a mutex call moves only the caller, and upwards; and the
  unlock that gives slot 0 up is the exception that the property names.
* `EventsWakeWaiters`: the tasks in the queue of a device are exactly those whose `event`
  is the device (`EventIsQueue`), which `event_wait` establishes together with the append
  and the dispatcher undoes when it switches to the task.
* `SchedulerImplemented`: the refinement of `Scheduler`, one lemma for each step
  (`BootIsCreate`, `LockIsAcquire`, `UnlockIsRelease`, `EventWaitIsWait`,
  `TickIsInterrupt`), all from `OneSetInv`. `HighestIsFirst` carries it: while slot 0 is
  empty the search of the run queue finds the least ready task, because every other slot
  holds its own task or nothing. A task with a mutex has slot 0, which an interrupt never
  changes (`OwnerRunsOn`). The append to a queue is the union with the newcomer
  (`QueuesAfterWait`), which needs the queues to be disjoint and to end.

Programs of lab 4 (the third part of `Kernel_proof`):

* `ProgramsRunOnKernel`: a step of a program is a system call of `Kernel` by the task that
  has the cpu, a call that fails, a computation, or the creation of its set
  (`UserStepForms`); a second set is created by cyclone only. So the
  programs do nothing that `Kernel` does not let a program do.
* `ProgramsAreProtected`, `ProgramsAreScheduled`: what the kernel promises holds while the
  programs run. The invariant is `CommonInv`: `OneSetInv`, with where main and the tasks
  may be. The first theorem includes cyclone, which replaces its set, up to an interrupt
  that loses it (`Lost`): when it creates a set, nobody waits and no mutex is held
  (`CycloneInv`), so that the new set starts as the first one did. The second is the refinement of `Scheduler` and the action properties, for the
  programs with one set.
* `ProgramsFailAsExpected`: an invariant for each program. That who spins keeps the cpu
  from everybody below it (`SpinsStay`) is part of `CommonInv`. In sys_err (`SysErrInv`)
  the place of the task says which mutexes it has created and whether it holds mutex 2. In
  stress (`StressInv`) the fifth task never leaves the run queue, since its device does
  not exist, so that none of those below it ever has the cpu. In simple_mutex
  (`SimpleInv`) the wait that fails is the one made with the mutex.
* `SectionsKept`: for mutex_chaser (`ChaserInv`) the values are, at each mutex, what those
  tasks have made of it that are done with it (`Values`), and a value that has been loaded
  is still the value (`ChaserPlaces`), because its mutex is held. The order of the tasks
  (`InOrder`) is the hard part. A task begins its job only when every task before it waits
  (`RunsFirst`, by the priorities). In time, a waiting task has done one job more than its
  device has had events (`Periods`: this is where `InTime` is needed, as an event that
  found its task ready would be lost). Devices count the same time, so that the one with
  the shorter period has had at least as many events (`ShorterPeriod`, the only
  arithmetic that is not linear), and the tasks are sorted by their periods
  (`OrderAssumption`). So every task before the one that begins is a mutex ahead
  (`EarlierAreDone`). No bound on the interrupts in a period is needed. For butterknife
  (`ButterknifeInv`) a task is between lock and unlock exactly while it holds the mutex,
  and the holder has the cpu.

Run queue:

* `BitsAlwaysMatch`, `Implementation`: the invariant is the correspondence of bits and
  list; the two-level search is then the search of the list by division with remainder.
  `Implementation` is the refinement: `RunQueue` implements
  `Ready == INSTANCE ReadyQueue WITH slots <- run_list, answer <- picked`.
* `TableIsLowestBit`: every entry of the table, nibble by nibble, so that a lookup may be
  replaced by the lowest member of a set in the proofs above.

task_create (`TaskCreate_proof`):

* `SortPermutes`: in every round of the sort and of the test, the list in memory is the
  given one under some bijection of the indices, and the tasks before the round's index
  are in order and before the rest. A round composes the bijection with a swap; the
  blocking times, which `swap` does not move, are not part of what is permuted.
* `DispatchAlwaysFinds`: two invariants. `PlacesInv` says what holds whatever interrupts do:
  a slot holds its own task or nothing, and no dispatch changes that (`SearchIsSlot`,
  `TimerIs`, `WaitIs`, `ClearIs`, `AddIs`). `QuietInv` is what holds as long as no
  interrupt has come while the run queue is being replaced: `Progress` says what each load
  and store of the call has left in the groups, the bytes, the slots and the contexts, and
  `Calm` that whenever another task can be dispatched the bits are those of the occupied
  slots (`Exact`) and every task that is ready or asleep can be loaded. That a search of
  exact bits in two levels finds an occupied slot is `SearchFinds`. The bits of the whole
  table are followed, byte by byte, for any size of a group.
* `NoOldTaskRuns`: `FreshInv`, which tcbs of the new set have lost their old context, at
  every store and with any interrupts in between.
* `SetStaysComplete`: three more invariants. `FullInv`: wherever a call of task_create is,
  also where it has been interrupted, the tasks that it has already enqueued are in their
  slots or asleep. `StartInv`: the task that makes the call is in no device's queue.
  `CallerInv`: only one task is ever in the call; once it has lost its slot and the cpu it
  is gone (`Gone`) and cannot come back to clear the queue of the set that was dispatched
  in its place. Without an interrupt, `FilledInv` and `QuietInv` leave the idle task in
  its slot.


Time:

* `NoRoundCountedTwice`: for every width of the counter and every start, however late
  interrupts are. The invariant (`SampleCounted`) says that a last sample below
  `start_time` was taken at a time that is at least as late as all the rounds counted;
  between the test and the sample it is out of date and says nothing. The next test that
  counts sees the counter at or past `start_time`, so a round boundary lies in between.
* `RoundsAccounted`, `ReadingRight`: for every start away from the ends of the counter.
  The invariant (`AInv`) has a witness: the time `u` of the last sample, whose round is
  what is counted and missed together (`Sampled`). As `u` is no further back than the
  longest gap and handler, the test tells whether one round, and no more, has begun since
  (`PassSeen`), so the test restores the account and the sample moves the witness. Between
  the two the account is of the present time (`TestDone`), and a tick that begins a round
  is missed (`NextTick`). At the start lastoscr is no sample, but is on the same side of
  `start_time` as the counter at time 0, which is all that the invariant asks for.
* `SleepAsLongAsAsked`: for every width of the time, every request and every delay between
  polls. The invariant places the last poll in the rounds of the true time: in the first
  loop it is before the end of the round in which the sleep began, or less than the
  window past it; a wait for a sum that has wrapped is past that end.

System calls and arguments:

* `UserInterruptible`, `UserStacksKept`, `FramesAlwaysNest`: parts of one invariant that
  describes, for each task, the shape of its stack at the point where it is or resumes:
  empty in user code, one frame of a call inside a call, and an interrupt frame on top
  after an interrupt. A frame's status and stack pointer are those of the code that it
  leads back to, so a return restores them; the proofs hold for any number of tasks.
* `ValidAddrIsContainment`: valid_addr accepts a buffer exactly if all its bytes are in
  the segment, for every width of an address; the sum that wraps is where it could fail.

Labs 2 and 3 (`Labs_proof`):

* `HandlersRestored`: while a program runs the saved words are the boot loader's for each
  vector that was patched, and the others have not been touched; in the middle of the
  restore, the words that `restored` counts are back, or went astray, and the others are
  the kernel's. Every combination of vectors is met on the way back.
* `GameByRules`: scores, streaks and steps for a game of any length; the quantities of the
  next round follow from those of the last, so the rules are the invariant.
* `TimeOfLabThree`: the rounds that are counted, and the one whose status bit is pending,
  are the rounds that have passed; a reading is compared with the time at which its call
  read the counter.
* `LinesAsTyped`: for any alphabet, any length of the buffer and any sequence of
  characters. The invariant (`LineInv`) says where in the buffer the line that is being
  edited is (`Reading`), that a finished line stays what it was until it is sent
  (`LineKept`), how much of it has gone out (`Sending`) and, for typo, that the digits
  written over it are those of the time (`TimeKept`, by division with powers of ten).

Checked by TLC only:

* liveness (`EventuallyWoken`, `FirstTaskCompletes`, `ProgramsProceed`), which needs
  fairness and ENABLED;
* `AdmittedIsSchedulable`, about sums over all tasks of a list, and the modules
  `CString`, `CNumbers`, `Printf`, `Scanf` and `LabOne`, whose recursive operators would
  need induction over data.

## Not modelled

* A set of 64 tasks, which writes past `run_list`; an index equal to `OS_NUM_MUTEX`;
  `mutex_lock` and `mutex_unlock` before the first task exists; an empty list in the
  sort. In each the code reads or writes memory that its data structures do not own.
* The way of the results of system calls through r0, which depends on the compiler
  (`syscall/swi_handler.S:33`): `UserTasks` takes them from the C functions, as the
  programs do.
* Registers other than the status and the stack pointers.
* `tasks/libc/stdlib/rand.c`, whose products of 32 bits exceed the integers of TLC, and
  the division routines; the wrappers of the system calls in assembly, but for
  event_wait's.
* What the programs print, and their busy loops; splat and hello of lab 3, which write
  constants; the string table of lab 1 in assembly, which prints constants.
* The stubs that jump into the firmware, and copies that are not built
  (`l2/part2/kernel/c_irq.c`, `ub_test.c`).

## Plan

Done: all of the modules above and their theorems. Left, in this order:

1. A set that is replaced while other tasks hold mutexes, at the steps of `TaskCreate`,
   with the interrupted call in `Kernel` itself.
2. The abstract scheduler for programs that replace their task set: what is left of it is
   in the four properties of `replaced_task_sets`.
