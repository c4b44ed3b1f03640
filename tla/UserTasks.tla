------------------------------- MODULE UserTasks ------------------------------
(***************************************************************************)
(* The test programs of l4/lab4/tasks on the kernel of module Kernel: what *)
(* main() and each task do between and with their system calls, and the    *)
(* results and errno that the calls give them.  A behaviour is the run of  *)
(* one program.  User code may be interrupted at any step.                 *)
(*                                                                         *)
(* What the programs print is left out; sleep takes any time.  The field B *)
(* of the task lists, which only sched_check sets, is whatever the stack   *)
(* holds: the admission test may refuse the other programs.                *)
(***************************************************************************)
EXTENDS Kernel, FiniteSetsExt

CONSTANTS NUM_TASK,    \* tasks of stress (60)
          ITE          \* rounds of cyclone (30)

ASSUME UserAssumption ==
  /\ NUM_TASK \in NUM_DEVICES + 2 .. OS_MAX_TASKS - 2
  /\ NUM_DEVICES = 4 /\ OS_NUM_MUTEX >= 3

\* The order of the periods (device.c:45), by which task_create sorts the tasks.
ASSUME OrderAssumption ==
  dev_freq[3] <= dev_freq[0] /\ dev_freq[0] <= dev_freq[1] /\ dev_freq[1] <= dev_freq[2]

VARIABLES
  program,   \* which program it is
  pc,        \* where main(), as tcb NULL, and the tasks are
  errno,
  data       \* the variables of the program

kernel_vars == vars
user_vars == <<program, pc, errno, data>>

\* 0 is no error.
SUCCESS == "0"
EINVAL == "EINVAL"
EPERM == "EPERM"
ENOMEM == "ENOMEM"
EFAULT == "EFAULT"
EDEADLOCK == "EDEADLOCK"
EHOLDSLOCK == "EHOLDSLOCK"
ESCHED == "ESCHED"

\* mutex_chaser, sys_err: as many mutexes as there are.
MUTEX_NUM == OS_NUM_MUTEX
init_val == 2

\* The variables of each program before main() has run.
InitialData ==
  [mutex_chaser |-> [i |-> 0, val |-> [m \in Mutexes |-> 0],
                     cur |-> [c \in 0 .. 3 |-> 1], reg |-> [c \in 0 .. 3 |-> 0],
                     report |-> << >>],
   simple_mutex |-> [mid |-> -1, once |-> 0, even |-> [k \in 1 .. 3 |-> 1]],
   sys_err      |-> [k \in 1 .. 10 |-> "none"],
   stress       |-> [i \in 0 .. NUM_TASK - 2 |-> 0],
   butterknife  |-> -1,
   cyclone      |-> 0,
   sched_check  |-> 0, dagger |-> 0, hello |-> 0]

InitUser ==
  /\ Init
  /\ program \in DOMAIN InitialData
  /\ pc = [c \in TcbPointers |-> "start"]
  /\ errno = SUCCESS
  /\ data = InitialData[program]

------------------------------------------------------------------------------
(* System calls, as the wrappers of the library return from them: c goes on  *)
(* at ok, or with errno set at err.                                          *)

At(c, label) == cur_tcb = c /\ c # IDLE_PRIO /\ pc[c] = label

Goto(c, label) == pc' = [pc EXCEPT ![c] = label]
Compute(c, label) ==
  Goto(c, label) /\ UNCHANGED <<kernel_vars, program, errno>>

Succeed(c, label) == Goto(c, label) /\ UNCHANGED <<program, errno>>
Fail(c, label, e) ==
  /\ Goto(c, label) /\ errno' = e
  /\ UNCHANGED <<kernel_vars, program>>

lock_error(c, m) ==
  IF m \notin Mutexes THEN EINVAL
  ELSE IF bAvailable[m] = 1 THEN EINVAL
  ELSE IF pHolding_Tcb[m] = c THEN EDEADLOCK ELSE SUCCESS
mutex_lock(c, m, ok, err) ==
  LET e == lock_error(c, m)
  IN  IF e = SUCCESS
      THEN (mutex_lock_free(c, m) \/ mutex_lock_contended(c, m)) /\ Succeed(c, ok)
      ELSE Fail(c, err, e)

unlock_error(c, m) ==
  IF m \notin Mutexes THEN EINVAL
  ELSE IF bAvailable[m] = 1 THEN EINVAL
  ELSE IF pHolding_Tcb[m] # c THEN EPERM ELSE SUCCESS
mutex_unlock(c, m, ok, err) ==
  LET e == unlock_error(c, m)
  IN  IF e = SUCCESS
      THEN (mutex_unlock_free(c, m) \/ mutex_unlock_handoff(c, m)) /\ Succeed(c, ok)
      ELSE Fail(c, err, e)

wait_error(c, d) ==
  IF d \notin Devices THEN EINVAL
  ELSE IF holds_lock[c] = 1 THEN EHOLDSLOCK ELSE SUCCESS
wait(c, d, ok, err) ==
  IF wait_error(c, d) = SUCCESS THEN event_wait(c, d) /\ Succeed(c, ok)
  ELSE Fail(c, err, wait_error(c, d))

Created == Min({m \in Mutexes : bAvailable[m] = 1} \cup {OS_NUM_MUTEX})
create(c, ok, err) ==
  IF Created \in Mutexes THEN mutex_create /\ Succeed(c, ok)
  ELSE Fail(c, err, ENOMEM)

\* An admitted set starts at the functions of its tasks.  A refused one gives
\* ESCHED, and the functions return to where nothing is.
launch(n) ==
  /\ task_create(n)
  /\ pc' = [c \in TcbPointers |-> IF c # NULL /\ c < n THEN "start" ELSE pc[c]]
  /\ UNCHANGED <<program, errno>>
launch_or_refuse(c, n) ==
  (launch(n) \/ Fail(c, "returned", ESCHED)) /\ UNCHANGED data

------------------------------------------------------------------------------
(* mutex_chaser.  Its tasks are sorted by their periods: fun1 is tcb 0.      *)

Is(p) == program = p

chaser_main ==
  /\ Is("mutex_chaser")
  /\ \/ /\ At(NULL, "start") /\ data.i < MUTEX_NUM
        /\ create(NULL, "start", "start")
        /\ data' = [data EXCEPT !.i = @ + 1, !.val[data.i] = init_val]
     \/ /\ At(NULL, "start") /\ data.i = MUTEX_NUM
        /\ launch_or_refuse(NULL, 4)

\* The loop over the mutexes, where it stores result, and the one after it.
chaser_task(c, d, result) ==
  LET m == data.cur[c]
  IN  /\ Is("mutex_chaser")
      /\ \/ /\ At(c, "start") /\ m < MUTEX_NUM
            /\ mutex_lock(c, m, "held", "spin") /\ UNCHANGED data
         \/ /\ At(c, "held") /\ Compute(c, "loaded")
            /\ data' = [data EXCEPT !.reg[c] = data.val[m]]
         \/ /\ At(c, "loaded") /\ Compute(c, "stored")
            /\ data' = [data EXCEPT !.val[m] = result]
         \/ /\ At(c, "stored")
            /\ mutex_unlock(c, m, "next", "spin") /\ UNCHANGED data
         \/ /\ At(c, "next") /\ wait(c, d, "start", "spin")
            /\ data' = [data EXCEPT !.cur[c] = @ + 1]
         \/ /\ At(c, "start") /\ m = MUTEX_NUM
            /\ c = 3 => data.report # << >>
            /\ wait(c, d, "start", "spin") /\ UNCHANGED data

result_val == ((init_val + 3) * 11 - 7) * 13

chaser_fun1 == chaser_task(0, 3, data.reg[0] + 3)
chaser_fun2 == chaser_task(1, 0, data.reg[1] * 11)
chaser_fun3 == chaser_task(2, 1, data.reg[2] - 7)
\* After its loop it reports, for all mutexes, whether the value is the result.
chaser_fun4 ==
  \/ chaser_task(3, 2, data.reg[3] * 13)
  \/ /\ Is("mutex_chaser") /\ At(3, "start")
     /\ data.cur[3] = MUTEX_NUM /\ data.report = << >>
     /\ Compute(3, "start")
     /\ data' = [data EXCEPT !.report = [m \in Mutexes |-> data.val[m] = result_val]]

------------------------------------------------------------------------------
(* simple_mutex.                                                             *)

simple_main == Is("simple_mutex") /\ At(NULL, "start") /\ launch_or_refuse(NULL, 3)

\* At the end of its third pass it counts mid up for ever, which nobody sees.
simple_fun1 ==
  /\ Is("simple_mutex")
  /\ \/ /\ At(0, "start") /\ create(0, "loop", "loop")
        /\ data' = [data EXCEPT !.mid = Created]
     \/ /\ At(0, "loop") /\ data.even[1] = 1
        /\ Compute(0, IF data.once > 0 THEN "spin" ELSE "wait")
        /\ data' = IF data.once > 0 THEN data
                   ELSE [data EXCEPT !.once = 1, !.even[1] = 0]
     \/ /\ At(0, "loop") /\ data.even[1] = 0
        /\ mutex_lock(0, data.mid, "held", "held") /\ UNCHANGED data
     \/ /\ At(0, "held") /\ Compute(0, "unlock")
        /\ data' = [data EXCEPT !.even[1] = 1]
     \/ /\ At(0, "unlock")
        /\ mutex_unlock(0, data.mid, "wait", "wait") /\ UNCHANGED data
     \/ At(0, "wait") /\ wait(0, 0, "loop", "spin") /\ UNCHANGED data

simple_fun2 ==
  /\ Is("simple_mutex")
  /\ \/ /\ At(1, "start") /\ data.even[2] = 1 /\ Compute(1, "wait")
        /\ data' = [data EXCEPT !.even[2] = 0]
     \/ /\ At(1, "start") /\ data.even[2] = 0
        /\ mutex_lock(1, data.mid, "held", "held") /\ UNCHANGED data
     \/ At(1, "held") /\ Compute(1, "wait") /\ UNCHANGED data
     \/ At(1, "wait") /\ wait(1, 1, "start", "spin") /\ UNCHANGED data

\* Its second pass, which would unlock the mutex, never comes: event_wait fails
\* after the first.
simple_fun3 ==
  /\ Is("simple_mutex")
  /\ \/ At(2, "start") /\ Compute(2, "lock") /\ UNCHANGED data
     \/ /\ At(2, "lock")
        /\ IF data.even[3] = 1 THEN mutex_lock(2, data.mid, "wait", "wait")
           ELSE mutex_unlock(2, data.mid, "wait", "wait")
        /\ data' = [data EXCEPT !.even[3] = 0]
     \/ At(2, "wait") /\ wait(2, 2, "start", "spin") /\ UNCHANGED data

------------------------------------------------------------------------------
(* sys_err.  Its data are the values that check_return was given.            *)

FarMutex == OS_NUM_MUTEX + 100
check_return(k, r) == data' = [data EXCEPT ![k] = r]

\* The second list is at an address that is not checked itself.  What is read
\* there is no stack or function in memory, as on the board of tests/sys_err.txt.
sys_err_main ==
  /\ Is("sys_err")
  /\ \/ At(NULL, "start") /\ Fail(NULL, "fault", EINVAL) /\ check_return(1, EINVAL)
     \/ At(NULL, "fault") /\ Fail(NULL, "create", EFAULT) /\ check_return(2, EFAULT)
     \/ At(NULL, "create") /\ launch_or_refuse(NULL, 1)

sys_err_fun1 ==
  /\ Is("sys_err")
  /\ \/ /\ At(0, "start") /\ Created \in Mutexes
        /\ create(0, "start", "start") /\ UNCHANGED data
     \/ /\ At(0, "start") /\ Created \notin Mutexes
        /\ create(0, "4", "4") /\ check_return(3, ENOMEM)
     \/ At(0, "4") /\ mutex_unlock(0, FarMutex, "5", "5") /\ check_return(4, errno')
     \/ At(0, "5") /\ mutex_unlock(0, 1, "6", "6") /\ check_return(5, errno')
     \/ At(0, "6") /\ mutex_lock(0, FarMutex, "7", "7") /\ check_return(6, errno')
     \/ At(0, "7") /\ mutex_lock(0, 2, "8", "8") /\ check_return(7, lock_error(0, 2))
     \/ At(0, "8") /\ mutex_lock(0, 2, "9", "9") /\ check_return(8, errno')
     \/ At(0, "9") /\ mutex_unlock(0, 2, "10", "10") /\ check_return(9, unlock_error(0, 2))
     \/ At(0, "10") /\ wait(0, NUM_DEVICES + 1, "spin", "spin") /\ check_return(10, errno')

------------------------------------------------------------------------------
(* stress.  Its data are the scores, of which only zero matters; fun2, that  *)
(* would check them, never runs.                                             *)

stress_main == Is("stress") /\ At(NULL, "start") /\ launch_or_refuse(NULL, NUM_TASK)

stress_fun1(c) ==
  /\ Is("stress")
  /\ \/ /\ At(c, "start") /\ Compute(c, "sleep")
        /\ data' = [data EXCEPT ![c] = 1]
     \/ At(c, "sleep") /\ Compute(c, "wait") /\ UNCHANGED data
     \/ At(c, "wait") /\ wait(c, c, "start", "spin") /\ UNCHANGED data

------------------------------------------------------------------------------
(* butterknife.                                                              *)

butterknife_main ==
  /\ Is("butterknife")
  /\ \/ At(NULL, "start") /\ create(NULL, "launch", "launch") /\ data' = Created
     \/ At(NULL, "launch") /\ launch_or_refuse(NULL, 2)

\* sleep keeps the cpu: the caller polls the time.
butterknife_task(c, d) ==
  /\ Is("butterknife")
  /\ \/ At(c, "start") /\ mutex_lock(c, data, "held", "held")
     \/ At(c, "held") /\ Compute(c, "sleep")
     \/ At(c, "sleep") /\ Compute(c, "unlock")
     \/ At(c, "unlock") /\ mutex_unlock(c, data, "wait", "wait")
     \/ At(c, "wait") /\ wait(c, d, "start", "spin")
  /\ UNCHANGED data
butterknife_fun1 == butterknife_task(0, 0)
butterknife_fun2 == butterknife_task(1, 1)

------------------------------------------------------------------------------
(* cyclone: a task that replaces itself.  Its data are ct.                   *)

\* allocate_tasks empties the run queue with interrupts enabled.  An interrupt
\* before it has added the caller again dispatches the idle task or no task at
\* all (module TaskCreate), and nobody adds the caller any more; later ones find
\* the caller first in the queue.  What runs after a null dispatch is not followed.
Lost == Is("cyclone") /\ pc[0] = "lost"

cyclone_main == Is("cyclone") /\ At(NULL, "start") /\ launch_or_refuse(NULL, 1)

cyclone_fun1 ==
  /\ Is("cyclone")
  /\ \/ /\ At(0, "start") /\ data' = data + 1
        /\ Compute(0, IF data' > ITE THEN "spin" ELSE "sleep")
     \/ At(0, "sleep") /\ Compute(0, "create") /\ UNCHANGED data
     \/ At(0, "create") /\ launch_or_refuse(0, 1)
     \/ At(0, "create") /\ Compute(0, "lost") /\ UNCHANGED data

------------------------------------------------------------------------------
(* dagger, sched_check and hello.                                            *)

putter(p, c, d) ==
  /\ Is(p)
  /\ \/ At(c, "start") /\ Compute(c, "wait")
     \/ At(c, "wait") /\ wait(c, d, "start", "spin")
  /\ UNCHANGED data

dagger_main == Is("dagger") /\ At(NULL, "start") /\ launch_or_refuse(NULL, 2)
dagger_fun1 == putter("dagger", 0, 0)
dagger_fun2 == putter("dagger", 1, 1)

\* 20/100 + 40/150 + 100/350 is below the bound for three tasks.
sched_check_main ==
  Is("sched_check") /\ At(NULL, "start") /\ launch(3) /\ UNCHANGED data
sched_check_fun1 == putter("sched_check", 0, 0)
sched_check_fun2 == \E c \in {1, 2} : putter("sched_check", c, 1)

hello_main ==
  Is("hello") /\ At(NULL, "start") /\ Compute(NULL, "returned") /\ UNCHANGED data

------------------------------------------------------------------------------
UserStep ==
  \/ chaser_main \/ chaser_fun1 \/ chaser_fun2 \/ chaser_fun3 \/ chaser_fun4
  \/ simple_main \/ simple_fun1 \/ simple_fun2 \/ simple_fun3
  \/ sys_err_main \/ sys_err_fun1
  \/ stress_main \/ \E c \in 0 .. NUM_TASK - 2 : stress_fun1(c)
  \/ butterknife_main \/ butterknife_fun1 \/ butterknife_fun2
  \/ cyclone_main \/ cyclone_fun1
  \/ dagger_main \/ dagger_fun1 \/ dagger_fun2
  \/ sched_check_main \/ sched_check_fun1 \/ sched_check_fun2
  \/ hello_main

\* The device that a task waits for in each of its periods; the fifth task of
\* stress has the period of dev 2.
DeviceOf(t) ==
  CASE Is("mutex_chaser") -> <<3, 0, 1, 2>>[t + 1]
    [] Is("simple_mutex") -> t
    [] Is("stress") -> IF t = 4 THEN 2 ELSE t
    [] program \in {"sched_check", "dagger"} -> IF t = 0 THEN 0 ELSE 1
    [] OTHER -> NUM_DEVICES

Spins(c) == pc[c] = "spin"

\* An admitted task meets its deadlines if it takes no longer than its C says:
\* it has finished its job when its device has the next event.  Nothing is
\* assumed of a program when one of its tasks spins, and of butterknife, whose
\* tasks sleep for longer than their periods.
InTime(lag) ==
  \/ \E c \in Tcbs : Spins(c)
  \/ \A t \in Tcbs : t < num_tasks /\ DeviceOf(t) \in Fired(lag) => ~IsReady(t)

TickInTime ==
  /\ ~Lost
  /\ \E lag \in 1 .. MaxTickLag : InTime(lag) /\ timer_irq(lag)
  /\ UNCHANGED user_vars

NextUser == UserStep \/ TickInTime

\* User code runs on with interrupts enabled, and interrupts keep coming.
SpecUser ==
  /\ InitUser /\ [][NextUser]_<<kernel_vars, user_vars>>
  /\ WF_<<kernel_vars, user_vars>>(UserStep)
  /\ WF_<<kernel_vars, user_vars>>(TickInTime)

------------------------------------------------------------------------------
\* The critical sections of the programs work.  At every mutex but the first the
\* tasks of mutex_chaser add, multiply, subtract and multiply, in this order and
\* each once, and lose no update, wherever they are interrupted: a later task
\* never comes before an earlier one, and the value is what those have made of it
\* that have stored theirs (mutex_chaser.c:29, 54, 82, 104, 126).  The last one
\* reports the result for all mutexes but the first.  In butterknife one task at
\* a time is between lock and unlock, and it has the cpu.
CriticalSectionsKept ==
  /\ Is("mutex_chaser") /\ pc[NULL] = "start" /\ cur_tcb # NULL =>
       \A m \in Mutexes \ {0} :
         LET done == {c \in 0 .. 3 :
                        data.cur[c] > m \/ (data.cur[c] = m /\ pc[c] \in {"stored", "next"})}
             k == Cardinality(done)
             val == init_val
         IN  /\ done = 0 .. k - 1
             /\ data.val[m] = CASE k = 0 -> val
                                [] k = 1 -> val + 3
                                [] k = 2 -> (val + 3) * 11
                                [] k = 3 -> (val + 3) * 11 - 7
                                [] k = 4 -> result_val
  /\ Is("mutex_chaser") /\ data.report # << >> =>
       \A m \in Mutexes : data.report[m] <=> m # 0
  /\ Is("butterknife") =>
       \A t \in {0, 1} : pc[t] \in {"held", "sleep", "unlock"} =>
         cur_tcb = t /\ pc[1 - t] \notin {"held", "sleep", "unlock"}

\* The calls of sys_err fail when and as it expects (sys_err.c:33-47, and as
\* tests/sys_err.txt shows), and nobody panics but for a reason: a task of
\* simple_mutex waits for an event with the mutex in its hands
\* (simple_mutex.c:87-93), the fifth task of stress waits for a device that does
\* not exist (stress.c:35).  It takes the cpu from all tasks of lower priority, and
\* from everybody if it holds the mutex.  This is what these programs do on this
\* kernel, and not what the records of their runs show (see TestsSucceed).
PanicsAndResults ==
  /\ Is("sys_err") =>
       \A k \in DOMAIN data :
         data[k] # "none" => data[k] \in << {EINVAL}, {EFAULT}, {ENOMEM}, {EINVAL}, {EPERM}, {EINVAL},
                        {SUCCESS}, {EDEADLOCK}, {SUCCESS}, {EINVAL} >>[k]
  /\ \A c \in Tcbs : Spins(c) =>
       /\ cur_tcb <= c
       /\ Is("simple_mutex") /\ c # 0 => errno = EHOLDSLOCK /\ holds_lock[c] = 1
       /\ Is("stress") => c = NUM_DEVICES /\ errno = EINVAL
       /\ holds_lock[c] = 1 => cur_tcb = c
       /\ program \in {"simple_mutex", "stress", "sys_err", "cyclone"}
  /\ Is("stress") => cur_tcb # NUM_TASK - 1

Refused == \E c \in TcbPointers : pc[c] = "returned"

\* Programs that are admitted come to their ends: mutex_chaser reports, cyclone
\* has replaced itself as often as it wants to or is lost in a task_create,
\* simple_mutex and stress panic (TestsSucceed has what they should do); and the
\* tasks of dagger and sched_check get every period.
Ended ==
  CASE Is("mutex_chaser") -> data.report # << >>
    [] Is("cyclone") -> Spins(0) /\ data = ITE + 1
    [] program \in {"simple_mutex", "stress", "sys_err"} -> \E c \in Tcbs : Spins(c)
    [] OTHER -> TRUE
ProgramsProceed ==
  /\ <>(Refused \/ Lost \/ Ended)
  /\ \A t \in 0 .. 2 :
       program \in {"dagger", "sched_check"} /\ t < num_tasks ~> cur_tcb = t /\ pc[t] = "wait"

------------------------------------------------------------------------------
\* tests/simple_mutex.txt and tests/stress.txt record that these programs succeed:
\* fun1 of simple_mutex prints the end of "succes!" and nobody panics.
TestsSucceed ==
  \A c \in Tcbs : Spins(c) =>
    /\ Is("simple_mutex") => c = 0
    /\ ~Is("stress")
==============================================================================
