-------------------------------- MODULE UBTest --------------------------------
(***************************************************************************)
(* assign_schedule of sched/ub_test.c, the admission test of task_create:  *)
(* the task list of the caller is sorted by period in place, and each task *)
(* is tested with the utilization bound of its priority.  One step for     *)
(* each round of the two outer loops; TaskCreate puts them together with   *)
(* the rest of the call.                                                   *)
(*                                                                         *)
(* Utilizations are rational: they are multiplied by a common multiple of  *)
(* the periods and the bounds are integers over BOUND_SCALE.  The bounds   *)
(* are rounded down, which decides as the doubles of the code do as long   *)
(* as no sum lies within the rounding; for the first task, where a sum     *)
(* meets the bound, it is exact.                                           *)
(***************************************************************************)
EXTENDS Integers, FiniteSets, Functions, TLC

CONSTANTS MaxTasks,       \* length of the longest list
          Times,          \* computation times
          Periods,
          Blocking,       \* blocking times
          Hyperperiod     \* a common multiple of the periods

ASSUME TaskAssumption ==
  /\ MaxTasks \in Nat \ {0}
  /\ Times \subseteq Nat /\ Blocking \subseteq Nat
  /\ Periods \subseteq Nat \ {0}
  /\ \A t \in Periods : Hyperperiod % t = 0

VARIABLES
  given,    \* the list as the caller made it
  tasks,    \* the list in memory
  i,        \* the counter of the outer loop
  phase     \* the loop, "sort" or "test", the result, or "none"

ub_vars == <<given, tasks, i, phase>>

\* The times of the tasks of a list, and the list: lambda stands for the fields
\* that are only copied.
TimesOf(n) == [0 .. n - 1 -> [C : Times, T : Periods, B : Blocking]]
ListOf(t) ==
  [k \in DOMAIN t |-> [lambda |-> k, C |-> t[k].C, T |-> t[k].T, B |-> t[k].B]]

count == Cardinality(DOMAIN tasks)

\* No test is going on, and its list is not looked at any more.
NoTest ==
  given = << >> /\ tasks = << >> /\ i = 0 /\ phase = "none"

forget_list == given' = << >> /\ tasks' = << >> /\ i' = 0 /\ phase' = "none"

\* The sort of an empty list, which task_create admits, is left out: it would
\* run to count - 1 of an unsigned 0.
start(list) ==
  /\ DOMAIN list # {}
  /\ given' = list /\ tasks' = list
  /\ i' = 0
  /\ phase' = IF Cardinality(DOMAIN list) = 1 THEN "test" ELSE "sort"

------------------------------------------------------------------------------
(* The sort.                                                                 *)

\* The fields of b with the B of a: swap does not touch B.
\* (Mutated: nor C.)
moved_without_C(a, b) == [b EXCEPT !.B = a.B, !.C = a.C]
moved(a, b) == [b EXCEPT !.B = a.B]

swapped(list, a, b) ==
  [list EXCEPT ![a] = moved(list[a], list[b]), ![b] = moved(list[b], list[a])]

\* The first task of the shortest period from position k on.
minpos(k) ==
  LET rest == k .. count - 1
  IN  CHOOSE p \in rest : \A q \in rest :
        tasks[p].T < tasks[q].T \/ (tasks[p].T = tasks[q].T /\ p <= q)

sorttasks ==
  /\ phase = "sort"
  /\ tasks' = swapped(tasks, i, minpos(i))
  /\ IF i + 1 < count - 1
     THEN i' = i + 1 /\ phase' = phase
     ELSE i' = 0 /\ phase' = "test"
  /\ UNCHANGED given

------------------------------------------------------------------------------
(* The test.                                                                 *)

BOUND_SCALE == 10000

\* (k + 1) * (kroottwo[k] - 1) for lists of up to four; for longer ones the
\* value is left open.
bound == (0 :> 10000 @@ 1 :> 8284 @@ 2 :> 7797 @@ 3 :> 7568)

\* The utilization of the tasks up to k, with the blocking of k, times
\* Hyperperiod.
\* (Mutated: without it.)
util_free(k) ==
  SumFunction([j \in 0 .. k |-> tasks[j].C * (Hyperperiod \div tasks[j].T)])
util(k) ==
  LET C(j) == tasks[j].C + IF j = k THEN tasks[j].B ELSE 0
  IN  SumFunction([j \in 0 .. k |-> C(j) * (Hyperperiod \div tasks[j].T)])

assign_schedule ==
  /\ phase = "test"
  /\ IF util(i) * BOUND_SCALE > bound[i] * Hyperperiod
     THEN phase' = "failed" /\ i' = i
     ELSE IF i + 1 < count
          THEN phase' = phase /\ i' = i + 1
          ELSE phase' = "succeeded" /\ i' = i
  /\ UNCHANGED <<given, tasks>>

------------------------------------------------------------------------------
\* Sorting in place loses no task, duplicates none and keeps each task's
\* function with its times; when the list is tested, and allocate_tasks gives
\* priorities by position, it is in the order of the periods.
SortKeepsTasks ==
  /\ \E f \in Bijection(DOMAIN tasks, DOMAIN tasks) :
       \A k \in DOMAIN tasks :
         /\ tasks[k].lambda = given[f[k]].lambda
         /\ tasks[k].C = given[f[k]].C /\ tasks[k].T = given[f[k]].T
  /\ phase # "sort" =>
       \A j, k \in DOMAIN tasks : j < k => tasks[j].T <= tasks[k].T

\* At some point of its period the task at position k has its own time, its
\* blocking time and all the demand of the tasks before it.
Releases(r, t) == (r + t - 1) \div t
MeetsDeadline(k) ==
  \E r \in 1 .. tasks[k].T :
    tasks[k].C + tasks[k].B
      + SumFunction([j \in 0 .. k - 1 |-> Releases(r, tasks[j].T) * tasks[j].C]) <= r

\* An admitted set meets its deadlines with the blocking times that the list
\* has after the sort: the bounds of kroottwo are sufficient, at each priority
\* with the right index, although blocking is charged to one task at a time.
\* These need not be the blocking times that the tasks were given: swap leaves
\* B where it is.
AdmittedIsSchedulable ==
  phase = "succeeded" => \A k \in DOMAIN tasks : MeetsDeadline(k)
==============================================================================
