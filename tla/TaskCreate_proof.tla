--------------------------- MODULE TaskCreate_proof ---------------------------
(***************************************************************************)
(* Proofs about TaskCreate, for any number of tasks and any lists: the     *)
(* sort of the admission test keeps the tasks, and the stores of           *)
(* allocate_tasks leave the run queue and the contexts as the dispatcher   *)
(* needs them, wherever an interrupt comes between two of them.            *)
(***************************************************************************)
EXTENDS TaskCreate, Numbers_proof, FiniteSetTheorems

------------------------------------------------------------------------------
(* The sort.                                                                 *)

\* The tasks of a list, and the lists of n tasks.
Tasks == [lambda : Nat, C : Times, T : Periods, B : Blocking]
Lists(n) == [0 .. n - 1 -> Tasks]

\* list holds the tasks of from in another order.
Same(a, b) == a.lambda = b.lambda /\ a.C = b.C /\ a.T = b.T
Permuted(n, list, from) ==
  \E f \in Bijection(0 .. n - 1, 0 .. n - 1) : \A k \in 0 .. n - 1 : Same(list[k], from[f[k]])

\* The first m tasks of list are in order, and before the rest.
Ordered(n, list, m) ==
  \A j, k \in 0 .. n - 1 : j < k /\ j < m => list[j].T <= list[k].T

\* A test of n tasks is at a round of one of its loops, or has come to its end.
TestOf(n) ==
  /\ given \in Lists(n) /\ tasks \in Lists(n)
  /\ Permuted(n, tasks, given)
  /\ i \in 0 .. n - 1
  /\ \/ phase = "sort" /\ i + 1 < n /\ Ordered(n, tasks, i)
     \/ phase \in {"test", "failed", "succeeded"} /\ Ordered(n, tasks, n)

SortInv ==
  NoTest \/ \E n \in 1 .. IDLE_PRIO : (stage = "first" => n <= MaxTasks) /\ TestOf(n)

LEMMA PeriodsArePositive == Periods \subseteq Nat
BY TaskAssumption

LEMMA CountIs ==
  ASSUME NEW n \in Nat \ {0}, NEW list \in Lists(n)
  PROVE  DOMAIN list = 0 .. n - 1 /\ Cardinality(DOMAIN list) = n
<1>1. DOMAIN list = 0 .. n - 1
  BY DEF Lists
<1>2. Cardinality(0 .. n - 1) = n
  BY FS_Interval
<1> QED BY <1>1, <1>2

\* A list as the caller makes it.
LEMMA ListOfTimes ==
  ASSUME NEW n \in Nat \ {0}, NEW t \in TimesOf(n)
  PROVE  ListOf(t) \in Lists(n)
<1>1. DOMAIN t = 0 .. n - 1
  BY DEF TimesOf
<1>2. ASSUME NEW k \in 0 .. n - 1
      PROVE  [lambda |-> k, C |-> t[k].C, T |-> t[k].T, B |-> t[k].B] \in Tasks
  <2>1. t[k] \in [C : Times, T : Periods, B : Blocking] /\ k \in Nat
    BY DEF TimesOf
  <2> QED BY <2>1 DEF Tasks
<1> QED BY <1>1, <1>2 DEF ListOf, Lists

\* The identity and the exchange of two places.
LEMMA Identity ==
  ASSUME NEW S PROVE [x \in S |-> x] \in Bijection(S, S)
BY DEF Bijection, Injection, Surjection, IsInjective

LEMMA Exchange ==
  ASSUME NEW S, NEW f \in Bijection(S, S), NEW a \in S, NEW b \in S
  PROVE  [x \in S |-> IF x = a THEN f[b] ELSE IF x = b THEN f[a] ELSE f[x]] \in Bijection(S, S)
<1> DEFINE g == [x \in S |-> IF x = a THEN f[b] ELSE IF x = b THEN f[a] ELSE f[x]]
<1>1. f \in [S -> S] /\ (\A x, y \in S : f[x] = f[y] => x = y) /\ \A y \in S : \E x \in S : f[x] = y
  BY DEF Bijection, Injection, Surjection, IsInjective
<1>2. g \in [S -> S]
  BY <1>1
<1>3. \A x, y \in S : g[x] = g[y] => x = y
  BY <1>1
<1>4. ASSUME NEW y \in S PROVE \E x \in S : g[x] = y
  <2>1. PICK x \in S : f[x] = y
    BY <1>1
  <2>2. CASE x = a
    BY <2>1, <2>2
  <2>3. CASE x = b
    BY <2>1, <2>3
  <2>4. CASE x # a /\ x # b
    BY <2>1, <2>4
  <2> QED BY <2>2, <2>3, <2>4
<1> QED BY <1>2, <1>3, <1>4 DEF Bijection, Injection, Surjection, IsInjective

LEMMA StartIsTest ==
  ASSUME NEW n \in Nat \ {0}, NEW t \in TimesOf(n), start(ListOf(t))
  PROVE  TestOf(n)'
<1> DEFINE list == ListOf(t)
<1>1. list \in Lists(n) /\ Cardinality(DOMAIN list) = n
  BY ListOfTimes, CountIs
<1> HIDE DEF list
<1>2. Permuted(n, list, list)
  <2> DEFINE f == [x \in 0 .. n - 1 |-> x]
  <2>1. f \in Bijection(0 .. n - 1, 0 .. n - 1)
    BY Identity
  <2>2. \A k \in 0 .. n - 1 : Same(list[k], list[f[k]])
    BY DEF Same
  <2> HIDE DEF f
  <2> QED BY <2>1, <2>2 DEF Permuted
<1>3. given' = list /\ tasks' = list /\ i' = 0 /\ phase' = IF n = 1 THEN "test" ELSE "sort"
  BY <1>1 DEF start, list
<1>4. Ordered(n, list, 0) /\ (n = 1 => Ordered(n, list, n))
  BY DEF Ordered
<1> QED BY <1>1, <1>2, <1>3, <1>4 DEF TestOf

\* The task that the search finds.
LEMMA MinposIs ==
  ASSUME NEW n \in Nat \ {0}, tasks \in Lists(n), NEW k \in 0 .. n - 1
  PROVE  /\ minpos(k) \in k .. n - 1
         /\ \A q \in k .. n - 1 : tasks[minpos(k)].T <= tasks[q].T
<1> DEFINE rest == k .. n - 1
           S == {tasks[p].T : p \in rest}
<1>1. count = n
  BY CountIs DEF count
<1>2. ASSUME NEW p \in rest PROVE p \in Nat /\ tasks[p].T \in Nat
  <2>1. p \in 0 .. n - 1
    OBVIOUS
  <2>2. tasks[p] \in Tasks
    BY <2>1 DEF Lists
  <2>3. tasks[p].T \in Periods
    BY <2>2 DEF Tasks
  <2>4. tasks[p].T \in Nat
    BY <2>3, PeriodsArePositive
  <2> QED BY <2>1, <2>4
<1>3. S \in SUBSET Nat /\ S # {}
  BY <1>2
<1>4. PICK m \in S : \A s \in S : m <= s
  BY <1>3, LeastExists
<1> DEFINE P == {p \in rest : tasks[p].T = m}
<1>5. P \in SUBSET Nat /\ P # {}
  BY <1>4
<1>6. PICK p \in P : \A q \in P : p <= q
  BY <1>5, LeastExists
<1>7. ASSUME NEW q \in rest
      PROVE  tasks[p].T < tasks[q].T \/ (tasks[p].T = tasks[q].T /\ p <= q)
  <2>1. p \in rest /\ tasks[p].T = m /\ tasks[p].T <= tasks[q].T
    BY <1>4
  <2>2. tasks[q].T = m => p <= q
    BY <1>6
  <2> QED BY <1>2, <2>1, <2>2
<1>8. minpos(k) = CHOOSE r \in rest : \A q \in rest :
        tasks[r].T < tasks[q].T \/ (tasks[r].T = tasks[q].T /\ r <= q)
  BY <1>1 DEF minpos
<1>9. minpos(k) \in rest /\ \A q \in rest :
        tasks[minpos(k)].T < tasks[q].T \/ (tasks[minpos(k)].T = tasks[q].T /\ minpos(k) <= q)
  BY <1>6, <1>7, <1>8
<1> QED BY <1>2, <1>9

\* What the swap does.
LEMMA SwappedIs ==
  ASSUME NEW n \in Nat \ {0}, NEW list \in Lists(n), NEW a \in 0 .. n - 1, NEW b \in 0 .. n - 1
  PROVE  /\ swapped(list, a, b) \in Lists(n)
         /\ Same(swapped(list, a, b)[a], list[b]) /\ Same(swapped(list, a, b)[b], list[a])
         /\ \A x \in 0 .. n - 1 : x \notin {a, b} => swapped(list, a, b)[x] = list[x]
<1>1. ASSUME NEW s \in Tasks, NEW t \in Tasks
      PROVE  moved(s, t) \in Tasks /\ Same(moved(s, t), t)
  BY DEF moved, Tasks, Same
<1> DEFINE u == moved(list[a], list[b])
           v == moved(list[b], list[a])
<1>2. list[a] \in Tasks /\ list[b] \in Tasks
  BY DEF Lists
<1>3. u \in Tasks /\ v \in Tasks /\ Same(u, list[b]) /\ Same(v, list[a])
  BY <1>1, <1>2
<1>4. swapped(list, a, b) = [list EXCEPT ![a] = u, ![b] = v]
  BY DEF swapped
<1> HIDE DEF u, v
<1>5. list \in [0 .. n - 1 -> Tasks]
  BY DEF Lists
<1>6. swapped(list, a, b) \in [0 .. n - 1 -> Tasks]
  BY <1>3, <1>4, <1>5
<1>7. swapped(list, a, b)[b] = v /\ swapped(list, a, b)[a] = IF a = b THEN v ELSE u
  BY <1>4, <1>5
<1>8. \A x \in 0 .. n - 1 : x \notin {a, b} => swapped(list, a, b)[x] = list[x]
  BY <1>4, <1>5
<1>9. Same(swapped(list, a, b)[a], list[b])
  BY <1>3, <1>7
<1> QED BY <1>3, <1>6, <1>7, <1>8, <1>9 DEF Lists

LEMMA SortStep ==
  ASSUME NEW n \in Nat \ {0}, TestOf(n), sorttasks
  PROVE  TestOf(n)'
<1> DEFINE D == 0 .. n - 1
           a == i
           b == minpos(i)
           new == swapped(tasks, a, b)
<1>2. a \in D /\ a + 1 < n /\ tasks \in Lists(n) /\ given \in Lists(n) /\ count = n
  BY CountIs DEF TestOf, sorttasks, count
<1>3. b \in a .. n - 1 /\ \A q \in a .. n - 1 : tasks[b].T <= tasks[q].T
  BY <1>2, MinposIs
<1>4. b \in D
  BY <1>2, <1>3
<1>5. tasks' = new /\ given' = given
      /\ (IF a + 1 < n - 1 THEN i' = a + 1 /\ phase' = "sort" ELSE i' = 0 /\ phase' = "test")
  BY <1>2 DEF sorttasks
<1> HIDE DEF a, b
<1>6. /\ new \in Lists(n) /\ Same(new[a], tasks[b]) /\ Same(new[b], tasks[a])
      /\ \A x \in D : x \notin {a, b} => new[x] = tasks[x]
  BY <1>2, <1>4, SwappedIs
<1> HIDE DEF new
<1>7. Permuted(n, new, given)
  <2>1. PICK f \in Bijection(D, D) : \A k \in D : Same(tasks[k], given[f[k]])
    BY DEF TestOf, Permuted
  <2> DEFINE g == [x \in D |-> IF x = a THEN f[b] ELSE IF x = b THEN f[a] ELSE f[x]]
  <2>2. g \in Bijection(D, D)
    BY <1>2, <1>4, <2>1, Exchange
  <2>3. ASSUME NEW k \in D PROVE Same(new[k], given[g[k]])
    <3>1. CASE k = a
      <4>1. Same(new[k], tasks[b]) /\ Same(tasks[b], given[f[b]]) /\ g[k] = f[b]
        BY <1>4, <1>6, <2>1, <3>1
      <4> QED BY <4>1 DEF Same
    <3>2. CASE k # a /\ k = b
      <4>1. Same(new[k], tasks[a]) /\ Same(tasks[a], given[f[a]]) /\ g[k] = f[a]
        BY <1>2, <1>6, <2>1, <3>2
      <4> QED BY <4>1 DEF Same
    <3>3. CASE k \notin {a, b}
      <4>1. new[k] = tasks[k] /\ Same(tasks[k], given[f[k]]) /\ g[k] = f[k]
        BY <1>6, <2>1, <3>3
      <4> QED BY <4>1 DEF Same
    <3> QED BY <3>1, <3>2, <3>3
  <2> HIDE DEF g
  <2> QED BY <2>2, <2>3 DEF Permuted
<1>8. Ordered(n, new, a + 1)
  <2>1. \A j, k \in D : j < k /\ j < a => tasks[j].T <= tasks[k].T
    BY <1>2 DEF TestOf, Ordered, sorttasks, a
  <2>2. new[a].T = tasks[b].T /\ new[b].T = tasks[a].T
    BY <1>6 DEF Same
  <2>3. \A x \in D : tasks[x].T \in Nat
    BY <1>2, PeriodsArePositive DEF Lists, Tasks
  <2>4. ASSUME NEW j \in D, NEW k \in D, j < k, j < a + 1
        PROVE  new[j].T <= new[k].T
    <3>1. CASE j < a
      <4>1. new[j].T = tasks[j].T
        BY <1>2, <1>3, <1>6, <3>1
      <4>2. \E x \in D : j < x /\ new[k].T = tasks[x].T
        BY <1>2, <1>3, <1>4, <1>6, <2>2, <2>4, <3>1
      <4> QED BY <2>1, <3>1, <4>1, <4>2
    <3>2. CASE j = a
      <4>1. \E x \in a .. n - 1 : new[k].T = tasks[x].T
        BY <1>2, <1>3, <1>4, <1>6, <2>2, <2>4, <3>2
      <4> QED BY <1>3, <2>2, <3>2, <4>1
    <3>3. j < a \/ j = a
      BY <1>2, <2>4
    <3> QED BY <3>1, <3>2, <3>3
  <2> QED BY <2>4 DEF Ordered
<1>9. CASE a + 1 < n - 1
  <2>1. i' \in 0 .. n - 1 /\ i' + 1 < n /\ i' = a + 1 /\ phase' = "sort"
    BY <1>2, <1>5, <1>9
  <2> QED BY <1>2, <1>5, <1>6, <1>7, <1>8, <2>1 DEF TestOf
<1>10. CASE ~(a + 1 < n - 1)
  <2>1. a + 1 = n - 1 /\ i' = 0 /\ phase' = "test"
    BY <1>2, <1>5, <1>10
  <2>2. Ordered(n, new, n)
    BY <1>8, <2>1 DEF Ordered
  <2> QED BY <1>2, <1>5, <1>6, <1>7, <2>1, <2>2 DEF TestOf
<1> QED BY <1>9, <1>10

LEMMA TestStep ==
  ASSUME NEW n \in Nat \ {0}, TestOf(n), assign_schedule
  PROVE  TestOf(n)'
<1>1. count = n
  BY CountIs DEF TestOf, count
<1> DEFINE over == util(i) * BOUND_SCALE > bound[i] * Hyperperiod
<1>2. /\ given' = given /\ tasks' = tasks
      /\ IF over THEN phase' = "failed" /\ i' = i
         ELSE IF i + 1 < n THEN phase' = "test" /\ i' = i + 1
              ELSE phase' = "succeeded" /\ i' = i
  BY <1>1 DEF assign_schedule
<1> HIDE DEF over
<1>3. i' \in 0 .. n - 1 /\ phase' \in {"test", "failed", "succeeded"}
  BY <1>2 DEF TestOf
<1>4. Ordered(n, tasks, n)
  BY DEF TestOf, assign_schedule
<1> QED BY <1>2, <1>3, <1>4 DEF TestOf

LEMMA SortNext ==
  ASSUME SortInv, [Next]_vars
  PROVE  SortInv'
<1> USE MaxTasksAssumption DEF IDLE_PRIO
<1>1. stage' = "first" => stage = "first"
  BY DEF Next, vars, timer_irq, task_create, event_wait, test_step, refused, admitted,
     allocate_tasks, runqueue_init, clear_groups, clear_byte, clear_slot,
     runqueue_add, load_group, store_group, load_byte, store_byte, store_slot,
     first_store, last_store, find_task, store_cur, load_context
<1>2. ASSUME UNCHANGED ub_vars PROVE SortInv'
  BY <1>1, <1>2 DEF ub_vars, SortInv, NoTest, TestOf
<1>3. CASE timer_irq
  BY <1>2, <1>3 DEF timer_irq
<1>4. ASSUME NEW c \in TcbPointers, task_create(c) PROVE SortInv'
  <2>1. MaxTasks \in 1 .. IDLE_PRIO
    BY TaskAssumption, ListsAssumption
  <2>2. CASE \E n \in 1 .. MaxTasks : \E t \in TimesOf(n) : start(ListOf(t))
    <3>1. PICK n \in 1 .. MaxTasks : \E t \in TimesOf(n) : start(ListOf(t))
      BY <2>2
    <3>2. TestOf(n)' /\ n \in 1 .. IDLE_PRIO
      BY <2>1, <3>1, StartIsTest
    <3> QED BY <3>2 DEF SortInv
  <2>3. CASE stage' = "replacing" /\ \E t \in LaterTimes : start(ListOf(t))
    <3>1. PICK n \in 1 .. OS_MAX_TASKS - 1 : \E t \in TimesOf(n) : start(ListOf(t))
      BY <2>3, ListsAssumption
    <3>2. TestOf(n)' /\ n \in 1 .. IDLE_PRIO
      BY <3>1, StartIsTest
    <3> QED BY <2>3, <3>2 DEF SortInv
  <2> QED BY <1>4, <2>2, <2>3 DEF task_create
<1>5. ASSUME NEW c \in Tcbs, event_wait(c) PROVE SortInv'
  BY <1>2, <1>5 DEF event_wait
<1>6. CASE test_step
  <2>1. PICK n \in 1 .. IDLE_PRIO : (stage = "first" => n <= MaxTasks) /\ TestOf(n)
    BY <1>6 DEF SortInv, NoTest, test_step, sorttasks, assign_schedule
  <2>2. TestOf(n)'
    BY <1>6, <2>1, SortStep, TestStep DEF test_step
  <2> QED BY <1>1, <2>1, <2>2 DEF SortInv
<1>7. CASE refused \/ admitted
  <2>1. forget_list
    BY <1>7 DEF refused, admitted
  <2> QED BY <2>1 DEF forget_list, SortInv, NoTest
<1>8. CASE allocate_tasks
  BY <1>2, <1>8 DEF allocate_tasks, runqueue_init, clear_groups, clear_byte, clear_slot,
     runqueue_add, load_group, store_group, load_byte, store_byte, store_slot,
     first_store, last_store, find_task, store_cur, load_context, ub_rest
<1>9. CASE UNCHANGED vars
  BY <1>2, <1>9 DEF vars
<1> QED BY <1>3, <1>4, <1>5, <1>6, <1>7, <1>8, <1>9 DEF Next

LEMMA SortInvKeepsTasks ==
  ASSUME SortInv PROVE SortKeepsTasks
<1>1. CASE NoTest
  <2>1. DOMAIN tasks = {} /\ phase = "none"
    BY <1>1 DEF NoTest
  <2>2. [x \in {} |-> x] \in Bijection(DOMAIN tasks, DOMAIN tasks)
    BY <2>1, Identity
  <2> QED BY <2>1, <2>2 DEF SortKeepsTasks
<1>2. ASSUME NEW n \in Nat \ {0}, TestOf(n) PROVE SortKeepsTasks
  <2>1. DOMAIN tasks = 0 .. n - 1
    BY <1>2, CountIs DEF TestOf
  <2>2. phase # "sort" => Ordered(n, tasks, n)
    BY <1>2 DEF TestOf
  <2>3. phase # "sort" => \A j, k \in DOMAIN tasks : j < k => tasks[j].T <= tasks[k].T
    BY <2>1, <2>2 DEF Ordered
  <2> QED BY <1>2, <2>1, <2>3 DEF SortKeepsTasks, TestOf, Permuted, Same
<1> QED BY <1>1, <1>2, MaxTasksAssumption DEF SortInv, IDLE_PRIO

\* However long the list and whatever its times, the sort of task_create permutes
\* the tasks, and the test and allocate_tasks see them in the order of their periods
\* (ub_test.c:56-90).
THEOREM SortPermutes == Spec => []SortKeepsTasks
<1>1. Init => SortInv
  BY DEF Init, SortInv
<1>2. SortInv /\ [Next]_vars => SortInv'
  BY SortNext
<1>3. SortInv => SortKeepsTasks
  BY SortInvKeepsTasks
<1> QED BY <1>1, <1>2, <1>3, PTL DEF Spec
------------------------------------------------------------------------------
(* Where the cpu is and the tcbs resume.                                     *)

Clears == {"clear_groups", "clear_byte", "clear_slot"}
Fill == {"load_group", "store_group", "load_byte", "store_byte", "store_slot",
         "first_store", "last_store"}
Ends == {"find_task", "store_cur", "load_context"}

Busy(x) == x.at = "allocate_tasks"

PointOK(size, x) ==
  \/ x \in {User(0), User(1), User(2), Testing, Unset, Mixed, Lost}
  \/ /\ Busy(x)
     /\ \/ x.op = "clear_groups"
        \/ x.op = "clear_byte" /\ x.n \in Groups
        \/ x.op = "clear_slot" /\ x.n \in Prios
        \/ x.op \in Fill /\ x.n \in 0 .. size
        \/ x.op \in Ends
     /\ x.op = "store_group" => x.reg \subseteq Groups
     /\ x.op = "store_byte" => x.reg \subseteq Prios
     /\ x.op = "store_cur" => x.reg \subseteq TcbPointers

\* A slot has its own tcb; the idle task's may have that of the last task of the
\* largest set.
SlotOK(p, t) == t = NULL \/ t = p - 1 \/ (p = IDLE_PRIO /\ t = IDLE_PRIO)

TypesOK ==
  /\ cur_tcb \in TcbPointers
  /\ group_run_bits \subseteq Groups /\ run_bits \subseteq Prios
  /\ run_list \in [Prios -> TcbPointers]
  /\ \A p \in Prios : SlotOK(p, run_list[p])
  /\ asleep \subseteq Tcbs \ {IDLE_PRIO}
  /\ DOMAIN context = Tcbs
  /\ num_tasks \in 0 .. IDLE_PRIO
  /\ stage \in {"first", "refused", "running", "replacing", "replaced"}
  /\ PointOK(num_tasks, pc) /\ \A t \in Tcbs : PointOK(num_tasks, context[t])

\* The points of the code are different.
LEMMA PointsAre ==
  /\ \A s : User(s).at = "user" /\ ~Busy(User(s))
  /\ \A op, n, reg : /\ Busy(Alloc(op, n, reg)) /\ Alloc(op, n, reg).op = op
                     /\ Alloc(op, n, reg).n = n /\ Alloc(op, n, reg).reg = reg
  /\ Testing.at = "assign_schedule" /\ Unset.at = "unset" /\ Mixed.at = "mixed" /\ Lost.at = "lost"
  /\ ~Busy(Testing) /\ ~Busy(Unset) /\ ~Busy(Mixed) /\ ~Busy(Lost)
  /\ User(0) # User(1) /\ User(1) # User(2)
<1>1. \A s : User(s).at = "user" /\ User(s).set = s
  BY DEF User
<1>2. \A op, n, reg : /\ Alloc(op, n, reg).at = "allocate_tasks" /\ Alloc(op, n, reg).op = op
                      /\ Alloc(op, n, reg).n = n /\ Alloc(op, n, reg).reg = reg
  BY DEF Alloc
<1> QED BY <1>1, <1>2 DEF Testing, Unset, Mixed, Lost, Busy

\* A place is of one kind.
LEMMA Kinds ==
  ASSUME NEW size, NEW x, PointOK(size, x)
  PROVE  /\ x.at = "user" => x \in {User(0), User(1), User(2)}
         /\ x.at = "assign_schedule" <=> x = Testing
         /\ x.at = "unset" <=> x = Unset
         /\ x.at = "mixed" <=> x = Mixed
         /\ x.at = "lost" <=> x = Lost
         /\ ~Busy(x) => x \in {User(0), User(1), User(2), Testing, Unset, Mixed, Lost}
         /\ Busy(x) => x.op \in Clears \cup Fill \cup Ends
BY PointsAre DEF PointOK, Busy, Clears, Fill, Ends

\* The tcbs and the slots.
LEMMA Sizes ==
  /\ IDLE_PRIO \in Nat /\ IDLE_PRIO >= 2
  /\ Prios = 0 .. IDLE_PRIO /\ Tcbs = 0 .. IDLE_PRIO
  /\ NULL \notin Tcbs /\ TcbPointers = Tcbs \cup {NULL}
  /\ GroupSize \in Nat \ {0}
BY MaxTasksAssumption, NullAssumption, ListsAssumption
   DEF IDLE_PRIO, Prios, Tcbs, TcbPointers

\* The priority that the search returns is one.
LEMMA LeastIs ==
  ASSUME NEW S \in SUBSET Nat, S # {}
  PROVE  Least(S) \in S /\ \A k \in S : Least(S) <= k
BY LeastExists DEF Least

\* The groups and their priorities.
LEMMA GroupsAre ==
  /\ Groups \subseteq Nat
  /\ \A p \in Prios : group_of(p) \in Groups /\ p \in PriosOf(group_of(p))
  /\ \A g \in Groups : GroupSize * g \in Prios
  /\ \A g : PriosOf(g) \subseteq Prios
<1> USE Sizes
<1> DEFINE last == group_of(IDLE_PRIO)
<1>1. \A p \in Prios : /\ group_of(p) \in Nat
                        /\ GroupSize * group_of(p) \in Nat
                        /\ p % GroupSize \in 0 .. GroupSize - 1
                        /\ p = GroupSize * group_of(p) + (p % GroupSize)
  <2>1. ASSUME NEW p \in Prios
        PROVE  /\ group_of(p) \in Nat
               /\ GroupSize * group_of(p) \in Nat
               /\ p % GroupSize \in 0 .. GroupSize - 1
               /\ p = GroupSize * group_of(p) + (p % GroupSize)
    <3>1. p \in Nat /\ GroupSize \in Nat \ {0}
      OBVIOUS
    <3>2. /\ p \div GroupSize \in Nat /\ p % GroupSize \in 0 .. GroupSize - 1
          /\ p = GroupSize * (p \div GroupSize) + (p % GroupSize)
      BY <3>1, DivMod
    <3>3. GroupSize * (p \div GroupSize) \in Nat
      BY <3>1, <3>2
    <3> QED BY <3>2, <3>3 DEF group_of
  <2> QED BY <2>1
<1>2. Groups = 0 .. last /\ last \in Nat
  BY <1>1 DEF Groups
<1>3. ASSUME NEW p \in Prios PROVE group_of(p) \in Groups
  <2> DEFINE a == p % GroupSize
             b == IDLE_PRIO % GroupSize
             g == group_of(p)
  <2>1. IDLE_PRIO \in Prios /\ p \in Nat /\ p <= IDLE_PRIO
    OBVIOUS
  <2>2. g \in Nat /\ a \in 0 .. GroupSize - 1 /\ b \in 0 .. GroupSize - 1
        /\ GroupSize * g + a = p /\ GroupSize * last + b = IDLE_PRIO
    BY <1>1, <2>1
  <2> HIDE DEF a, b, g, last
  <2>3. g <= last
    BY <1>2, <2>1, <2>2, Rounds
  <2> QED BY <1>2, <2>2, <2>3 DEF g
<1>4. ASSUME NEW g \in Groups PROVE GroupSize * g \in Prios
  <2>1. g \in Nat /\ g <= last /\ last \in Nat
    BY <1>2
  <2>2. GroupSize * g <= GroupSize * last /\ GroupSize * g \in Nat
    BY <2>1, RoundsGrow
  <2>3. GroupSize * last <= IDLE_PRIO /\ GroupSize * last \in Nat
    BY <1>1
  <2> HIDE DEF last
  <2>4. GroupSize * g \in Nat /\ GroupSize * g <= IDLE_PRIO
    BY <2>2, <2>3
  <2> QED BY <2>4
<1>5. \A g : PriosOf(g) \subseteq Prios
  BY DEF PriosOf
<1> QED BY <1>2, <1>3, <1>4, <1>5 DEF PriosOf

\* Whatever the bits, the search ends at a slot.
LEMMA SearchIsSlot ==
  ASSUME NEW groups \in SUBSET Groups, NEW bits \in SUBSET Prios
  PROVE  highest_prio_of(groups, bits) \in Prios
<1> DEFINE g == Least(groups)
           byte == bits \cap PriosOf(g)
<1>1. CASE groups = {}
  BY <1>1, Sizes DEF highest_prio_of
<1>2. CASE groups # {} /\ byte = {}
  <2>1. g \in Groups
    BY <1>2, GroupsAre, LeastIs
  <2> QED BY <1>2, <2>1, GroupsAre DEF highest_prio_of
<1>3. CASE groups # {} /\ byte # {}
  <2>1. byte \in SUBSET Nat
    BY Sizes, GroupsAre
  <2>2. Least(byte) \in byte
    BY <1>3, <2>1, LeastIs
  <2> QED BY <1>3, <2>2 DEF highest_prio_of
<1> QED BY <1>1, <1>2, <1>3

\* h is the tcb of a slot.
Listed(h) == \E p \in Prios : run_list[p] = h

\* The cpu goes to h, or it stays; the place of the task that had it is kept, but
\* for the idle task's.
Dispatched ==
  /\ DOMAIN context' = Tcbs
  /\ \A t \in Tcbs : t # cur_tcb => context'[t] = context[t]
  /\ \A t \in Tcbs : context'[t] = context[t] \/ (t # IDLE_PRIO /\ context'[t] = pc)
  /\ \/ cur_tcb' = cur_tcb /\ pc' = pc /\ context' = context
     \/ /\ cur_tcb' \in Tcbs /\ Listed(cur_tcb)' /\ pc' = context'[cur_tcb']
        /\ cur_tcb # IDLE_PRIO => cur_tcb' # cur_tcb /\ context'[cur_tcb] = pc
     \/ /\ cur_tcb' = NULL /\ pc' = Lost
        /\ cur_tcb # IDLE_PRIO => context'[cur_tcb] = pc

\* A dispatch, in its two ways.
LEMMA SwitchIs ==
  ASSUME TypesOK, cur_tcb \in Tcbs, NEW h \in TcbPointers, h \in Tcbs => Listed(h)',
         \/ dispatch_save(h)
         \/ cur_tcb # IDLE_PRIO /\ h # cur_tcb /\ switch_to(h, [context EXCEPT ![cur_tcb] = pc])
  PROVE  Dispatched
<1> USE Sizes
<1>1. DOMAIN context = Tcbs
  BY DEF TypesOK
<1>a. cur_tcb' = h /\ h \in Tcbs => Listed(cur_tcb)'
  BY DEF Listed
<1>2. CASE cur_tcb = IDLE_PRIO
  <2>1. switch_to(h, context)
    BY <1>2 DEF dispatch_save
  <2>2. cur_tcb' = h /\ context' = context /\ pc' = IF h = NULL THEN Lost ELSE context[h]
    BY <2>1 DEF switch_to
  <2>3. CASE h = NULL
    BY <1>1, <1>2, <2>2, <2>3 DEF Dispatched
  <2>4. CASE h \in Tcbs
    <3>1. Listed(cur_tcb)' /\ pc' = context'[cur_tcb']
      BY <1>a, <2>2, <2>4
    <3> QED BY <1>1, <1>2, <2>2, <2>4, <3>1 DEF Dispatched
  <2> QED BY <2>3, <2>4
<1>3. CASE cur_tcb # IDLE_PRIO /\ h # cur_tcb
  <2>1. switch_to(h, [context EXCEPT ![cur_tcb] = pc])
    BY <1>3 DEF dispatch_save
  <2>2. DOMAIN [context EXCEPT ![cur_tcb] = pc] = Tcbs
        /\ [context EXCEPT ![cur_tcb] = pc][cur_tcb] = pc
        /\ \A t \in Tcbs : t # cur_tcb => [context EXCEPT ![cur_tcb] = pc][t] = context[t]
    BY <1>1
  <2> DEFINE saved == [context EXCEPT ![cur_tcb] = pc]
  <2>3. cur_tcb' = h /\ context' = saved /\ pc' = IF h = NULL THEN Lost ELSE saved[h]
    BY <2>1 DEF switch_to
  <2> HIDE DEF saved
  <2>4. DOMAIN context' = Tcbs /\ context'[cur_tcb] = pc
        /\ \A t \in Tcbs : t # cur_tcb => context'[t] = context[t]
    BY <2>2, <2>3 DEF saved
  <2>5. CASE h = NULL
    BY <1>3, <2>3, <2>4, <2>5 DEF Dispatched
  <2>6. CASE h \in Tcbs
    <3>1. Listed(cur_tcb)' /\ pc' = context'[cur_tcb']
      BY <1>a, <2>3, <2>6
    <3> QED BY <1>3, <2>3, <2>4, <2>6, <3>1 DEF Dispatched
  <2> QED BY <2>5, <2>6
<1>4. CASE cur_tcb # IDLE_PRIO /\ h = cur_tcb
  BY <1>1, <1>4 DEF dispatch_save, Dispatched
<1> QED BY <1>2, <1>3, <1>4

LEMMA TimerIs ==
  ASSUME TypesOK, timer_irq
  PROVE  /\ cur_tcb \in Tcbs /\ pc.at \notin {"unset", "mixed", "lost"}
         /\ stage # "first"
         /\ UNCHANGED <<ub_vars, num_tasks, stage>>
         /\ hit' = (hit \/ Replacing)
         /\ group_run_bits' \subseteq Groups /\ run_bits' \subseteq Prios
         /\ run_list' \in [Prios -> TcbPointers]
         /\ asleep' \subseteq asleep
         /\ \A p \in Prios : run_list'[p] = IF p - 1 \in asleep \ asleep' THEN p - 1 ELSE run_list[p]
         /\ \A p \in Prios : SlotOK(p, run_list'[p])
         /\ run_bits' = run_bits \cup {t + 1 : t \in asleep \ asleep'}
         /\ group_run_bits' = group_run_bits \cup {group_of(t + 1) : t \in asleep \ asleep'}
         /\ dispatch_save(run_list'[highest_prio_of(group_run_bits', run_bits')])
         /\ Dispatched
<1> USE Sizes
<1>1. PICK woken \in SUBSET asleep :
        /\ group_run_bits' = group_run_bits \cup {group_of(t + 1) : t \in woken}
        /\ run_bits' = run_bits \cup {t + 1 : t \in woken}
        /\ run_list' = [p \in Prios |-> IF p - 1 \in woken THEN p - 1 ELSE run_list[p]]
        /\ asleep' = asleep \ woken
  BY DEF timer_irq
<1>2. woken = asleep \ asleep' /\ \A t \in woken : t \in Tcbs /\ t + 1 \in Prios
  <2>1. \A t \in asleep : t \in Tcbs /\ t # IDLE_PRIO
    BY DEF TypesOK
  <2>2. \A t \in woken : t \in Tcbs /\ t + 1 \in Prios
    BY <2>1
  <2>3. woken = asleep \ asleep'
    BY <1>1
  <2> QED BY <2>2, <2>3
<1>3. run_list' \in [Prios -> TcbPointers]
  BY <1>1, <1>2 DEF TypesOK
<1>4. \A p \in Prios : run_list'[p] = IF p - 1 \in asleep \ asleep' THEN p - 1 ELSE run_list[p]
  BY <1>1, <1>2
<1>5. \A p \in Prios : SlotOK(p, run_list'[p])
  BY <1>4 DEF TypesOK, SlotOK
<1>6. /\ cur_tcb \in Tcbs /\ pc.at \notin {"unset", "mixed", "lost"} /\ stage # "first"
      /\ hit' = (hit \/ Replacing)
      /\ UNCHANGED <<ub_vars, num_tasks, stage>>
      /\ dispatch_save(run_list'[highest_prio_of(group_run_bits', run_bits')])
  BY DEF timer_irq, Runs, TypesOK
<1>7. group_run_bits' \subseteq Groups /\ run_bits' \subseteq Prios
  <2>1. \A t \in woken : t + 1 \in Prios /\ group_of(t + 1) \in Groups
    BY <1>2, GroupsAre
  <2>2. group_run_bits \subseteq Groups /\ run_bits \subseteq Prios
    BY DEF TypesOK
  <2> QED BY <1>1, <2>1, <2>2, Zenon
<1>8. highest_prio_of(group_run_bits', run_bits') \in Prios
  BY <1>7, SearchIsSlot
<1>9. Dispatched
  <2>1. PICK p \in Prios : p = highest_prio_of(group_run_bits', run_bits')
    BY <1>8
  <2>2. PICK h \in TcbPointers : h = run_list'[p]
    BY <1>3
  <2>3. dispatch_save(h)
    BY <1>6, <2>1, <2>2
  <2>4. Listed(h)'
    BY <2>2 DEF Listed
  <2> QED BY <1>6, <2>3, <2>4, SwitchIs
<1> QED BY <1>1, <1>2, <1>3, <1>4, <1>5, <1>6, <1>7, <1>9

LEMMA WaitIs ==
  ASSUME TypesOK, NEW c \in Tcbs, event_wait(c)
  PROVE  /\ c = cur_tcb /\ c # IDLE_PRIO /\ pc.at = "user"
         /\ UNCHANGED <<ub_vars, num_tasks, stage, hit>>
         /\ asleep' = asleep \cup {c}
         /\ run_bits' = run_bits \ {c + 1}
         /\ group_run_bits' = group_run_bits \ Emptied(run_bits', group_of(c + 1))
         /\ run_list' \in [Prios -> TcbPointers]
         /\ \A p \in Prios : run_list'[p] = IF p = c + 1 THEN NULL ELSE run_list[p]
         /\ \A p \in Prios : SlotOK(p, run_list'[p])
         /\ cur_tcb' = run_list'[highest_prio_of(group_run_bits', run_bits')]
         /\ Dispatched
<1> USE Sizes
<1>1. /\ c = cur_tcb /\ c # IDLE_PRIO /\ pc.at = "user"
      /\ UNCHANGED <<ub_vars, num_tasks, stage, hit>>
      /\ asleep' = asleep \cup {c}
      /\ run_bits' = run_bits \ {c + 1}
      /\ group_run_bits' = group_run_bits \ Emptied(run_bits', group_of(c + 1))
      /\ run_list' = [run_list EXCEPT ![c + 1] = NULL]
      /\ switch_to(run_list'[highest_prio_of(group_run_bits', run_bits')],
                   [context EXCEPT ![c] = pc])
  BY DEF event_wait, InUser, Runs
<1>2. run_list' \in [Prios -> TcbPointers]
  BY <1>1 DEF TypesOK
<1>3. \A p \in Prios : run_list'[p] = IF p = c + 1 THEN NULL ELSE run_list[p]
  BY <1>1 DEF TypesOK
<1>4. \A p \in Prios : SlotOK(p, run_list'[p])
  BY <1>3 DEF TypesOK, SlotOK
<1>5. PICK p \in Prios : p = highest_prio_of(group_run_bits', run_bits')
  <2>1. group_run_bits' \subseteq Groups /\ run_bits' \subseteq Prios
    BY <1>1 DEF TypesOK
  <2> QED BY <2>1, SearchIsSlot
<1>6. PICK h \in TcbPointers : h = run_list'[p]
  BY <1>2
<1>7. Listed(h)' /\ h # c
  <2>1. h # c
    BY <1>1, <1>3, <1>4, <1>6 DEF SlotOK
  <2> QED BY <1>6, <2>1 DEF Listed
<1>9. cur_tcb' = h /\ switch_to(h, [context EXCEPT ![c] = pc])
  BY <1>1, <1>5, <1>6 DEF switch_to
<1>8. Dispatched
  BY <1>1, <1>6, <1>7, <1>9, SwitchIs
<1> QED BY <1>1, <1>2, <1>3, <1>4, <1>5, <1>6, <1>8, <1>9

\* What the steps of a call leave alone.
LEMMA AllocKeeps ==
  ASSUME allocate_tasks
  PROVE  UNCHANGED <<ub_vars, asleep, num_tasks, hit>> /\ Busy(pc)
BY DEF allocate_tasks, runqueue_init, clear_groups, clear_byte, clear_slot, runqueue_add,
   load_group, store_group, load_byte, store_byte, store_slot, first_store, last_store,
   find_task, store_cur, load_context, ub_rest, At, Busy

\* The size of a list that is admitted.
LEMMA AdmittedSize ==
  ASSUME SortInv, admitted
  PROVE  num_tasks' \in 1 .. IDLE_PRIO /\ (stage = "first" => num_tasks' <= MaxTasks)
<1>1. PICK n \in 1 .. IDLE_PRIO : (stage = "first" => n <= MaxTasks) /\ TestOf(n)
  BY DEF SortInv, NoTest, admitted
<1>2. count = n
  BY <1>1, CountIs, Sizes DEF TestOf, count
<1> QED BY <1>1, <1>2 DEF admitted

\* The slots that the n-th task and the idle task get.
LEMMA PlacesOf ==
  ASSUME TypesOK, NEW n \in 0 .. num_tasks
  PROVE  /\ PrioOf(n) \in Prios /\ TcbOf(n) \in Tcbs
         /\ GroupOf(n) \in Groups /\ PrioOf(n) \in PriosOf(GroupOf(n))
         /\ SlotOK(PrioOf(n), TcbOf(n))
         /\ n < num_tasks => TcbOf(n) = n /\ PrioOf(n) = n + 1
         /\ n = num_tasks => TcbOf(n) = IDLE_PRIO /\ PrioOf(n) = IDLE_PRIO
<1>1. num_tasks \in 0 .. IDLE_PRIO
  BY DEF TypesOK
<1>2. /\ PrioOf(n) \in Prios /\ TcbOf(n) \in Tcbs
      /\ SlotOK(PrioOf(n), TcbOf(n))
      /\ n < num_tasks => TcbOf(n) = n /\ PrioOf(n) = n + 1
      /\ n = num_tasks => TcbOf(n) = IDLE_PRIO /\ PrioOf(n) = IDLE_PRIO
  BY <1>1, Sizes DEF PrioOf, TcbOf, SlotOK
<1> QED BY <1>2, GroupsAre DEF GroupOf

\* The steps of the two parts of allocate_tasks that fill the run queue, and of the
\* last one, in terms of what they leave.
LEMMA ClearIs ==
  ASSUME TypesOK, runqueue_init
  PROVE  /\ pc.op \in Clears /\ Busy(pc)
         /\ UNCHANGED <<cur_tcb, context, stage>>
         /\ pc' = Alloc("load_group", 0, {}) \/
              \/ \E g \in Groups : pc' = Alloc("clear_byte", g, {})
              \/ \E p \in Prios : pc' = Alloc("clear_slot", p, {})
         /\ group_run_bits' \subseteq Groups /\ run_bits' \subseteq Prios
         /\ \/ run_list' = run_list
            \/ pc.op = "clear_slot" /\ pc.n \in Prios /\ run_list' = [run_list EXCEPT ![pc.n] = NULL]
<1> USE Sizes, PointsAre
<1>1. CASE clear_groups
  <2>1. 0 \in Groups
    <3>1. group_of(0) \in Groups /\ group_of(0) = 0
      BY GroupsAre DEF group_of
    <3> QED BY <3>1
  <2> QED BY <1>1, <2>1 DEF clear_groups, At, Goto, Clears, Busy, TypesOK, ub_rest
<1>2. CASE clear_byte
  <2>1. pc' \in {Alloc("clear_byte", pc.n + 1, {}), Alloc("clear_slot", 0, {})}
        /\ (pc' = Alloc("clear_byte", pc.n + 1, {}) => pc.n + 1 \in Groups)
        /\ run_bits' = run_bits \ PriosOf(pc.n) /\ pc.op = "clear_byte" /\ Busy(pc)
        /\ UNCHANGED <<cur_tcb, group_run_bits, run_list, context, stage>>
    BY <1>2 DEF clear_byte, At, Goto, Busy, ub_rest
  <2>2. group_run_bits' \subseteq Groups /\ run_bits' \subseteq Prios
    BY <2>1 DEF TypesOK
  <2> QED BY <2>1, <2>2 DEF Clears
<1>3. CASE clear_slot
  <2>1. /\ pc' \in {Alloc("clear_slot", pc.n + 1, {}), Alloc("load_group", 0, {})}
        /\ (pc' = Alloc("clear_slot", pc.n + 1, {}) => pc.n + 1 \in Prios)
        /\ run_list' = [run_list EXCEPT ![pc.n] = NULL] /\ pc.op = "clear_slot" /\ Busy(pc)
        /\ UNCHANGED <<cur_tcb, group_run_bits, run_bits, context, stage>>
    BY <1>3 DEF clear_slot, At, Goto, Busy, ub_rest
  <2>2. pc.n \in Prios
    BY <2>1 DEF TypesOK, PointOK, Fill, Ends
  <2> QED BY <2>1, <2>2 DEF Clears, TypesOK
<1> QED BY <1>1, <1>2, <1>3 DEF runqueue_init

\* The point after op of the n-th task, the way the steps go.
AddOps == {"load_group", "store_group", "load_byte", "store_byte", "store_slot"}

LEMMA AddIs ==
  ASSUME TypesOK, runqueue_add
  PROVE  /\ pc.op \in AddOps /\ Busy(pc) /\ pc.n \in 0 .. num_tasks
         /\ UNCHANGED <<cur_tcb, context, stage>>
         /\ Busy(pc') /\ pc'.n = pc.n /\ PointOK(num_tasks, pc')
         /\ \/ pc.op # "store_slot" /\ pc'.op \in AddOps /\ run_list' = run_list
            \/ /\ pc.op = "store_slot" /\ pc'.op = "first_store"
               /\ run_list' = [run_list EXCEPT ![PrioOf(pc.n)] = TcbOf(pc.n)]
         /\ group_run_bits' \subseteq Groups /\ run_bits' \subseteq Prios
<1> USE Sizes, PointsAre
<1>0. num_tasks' = num_tasks /\ PointOK(num_tasks, pc)
  BY AllocKeeps DEF allocate_tasks, TypesOK
<1>1. pc.op \in AddOps /\ Busy(pc)
  BY DEF runqueue_add, load_group, store_group, load_byte, store_byte, store_slot, At, Busy, AddOps
<1>2. pc.n \in 0 .. num_tasks
  BY <1>0, <1>1 DEF PointOK, Fill, Ends, AddOps
<1>3. GroupOf(pc.n) \in Groups /\ PrioOf(pc.n) \in Prios
  BY <1>2, PlacesOf
<1>4. group_run_bits \subseteq Groups /\ run_bits \subseteq Prios
  BY DEF TypesOK
<1>5. CASE load_group
  <2>1. pc' = Alloc("store_group", pc.n, group_run_bits) /\ pc.op = "load_group"
        /\ UNCHANGED <<cur_tcb, group_run_bits, run_bits, run_list, context, stage>>
    BY <1>5 DEF load_group, At, sched_vars, queue_vars
  <2> QED BY <1>0, <1>1, <1>2, <1>4, <2>1 DEF AddOps, Fill, PointOK
<1>6. CASE store_group
  <2>1. pc' = Alloc("load_byte", pc.n, {}) /\ pc.op = "store_group"
        /\ group_run_bits' = pc.reg \cup {GroupOf(pc.n)}
        /\ UNCHANGED <<cur_tcb, run_bits, run_list, context, stage>>
    BY <1>6 DEF store_group, At, Goto
  <2>2. pc.reg \subseteq Groups
    BY <1>0, <1>1, <2>1 DEF PointOK
  <2> QED BY <1>0, <1>1, <1>2, <1>3, <1>4, <2>1, <2>2 DEF AddOps, Fill, PointOK
<1>7. CASE load_byte
  <2>1. pc' = Alloc("store_byte", pc.n, run_bits \cap PriosOf(GroupOf(pc.n))) /\ pc.op = "load_byte"
        /\ UNCHANGED <<cur_tcb, group_run_bits, run_bits, run_list, context, stage>>
    BY <1>7 DEF load_byte, At, sched_vars, queue_vars
  <2>2. pc'.reg \subseteq Prios
    <3>1. pc'.reg = run_bits \cap PriosOf(GroupOf(pc.n))
      BY <2>1
    <3> QED BY <1>4, <3>1
  <2>3. PointOK(num_tasks, pc')
    BY <1>2, <2>1, <2>2 DEF PointOK, Fill
  <2> QED BY <1>0, <1>1, <1>2, <1>4, <2>1, <2>3 DEF AddOps
<1>8. CASE store_byte
  <2>1. pc' = Alloc("store_slot", pc.n, {}) /\ pc.op = "store_byte"
        /\ run_bits' = (run_bits \ PriosOf(GroupOf(pc.n))) \cup Added(pc.reg, pc.n)
        /\ UNCHANGED <<cur_tcb, group_run_bits, run_list, context, stage>>
    BY <1>8 DEF store_byte, At, Goto
  <2>2. Added(pc.reg, pc.n) \subseteq Prios
    BY <1>0, <1>1, <1>3, <2>1 DEF PointOK, Added
  <2>3. run_bits' \subseteq Prios
    BY <1>4, <2>1, <2>2
  <2>4. PointOK(num_tasks, pc')
    BY <1>2, <2>1 DEF PointOK, Fill
  <2> QED BY <1>0, <1>1, <1>2, <1>4, <2>1, <2>3, <2>4 DEF AddOps
<1>9. CASE store_slot
  <2>1. pc' = Alloc("first_store", pc.n, {}) /\ pc.op = "store_slot"
        /\ run_list' = [run_list EXCEPT ![PrioOf(pc.n)] = TcbOf(pc.n)]
        /\ UNCHANGED <<cur_tcb, group_run_bits, run_bits, context, stage>>
    BY <1>9 DEF store_slot, At, Goto
  <2> QED BY <1>0, <1>1, <1>2, <1>4, <2>1 DEF AddOps, Fill, PointOK
<1> QED BY <1>5, <1>6, <1>7, <1>8, <1>9 DEF runqueue_add

LEMMA ContextIs ==
  ASSUME TypesOK, first_store \/ last_store
  PROVE  /\ pc.op \in {"first_store", "last_store"} /\ Busy(pc) /\ pc.n \in 0 .. num_tasks
         /\ UNCHANGED <<cur_tcb, queue_vars, stage>>
         /\ Busy(pc') /\ PointOK(num_tasks, pc')
         /\ \/ pc.op = "first_store" /\ pc'.op = "last_store" /\ pc'.n = pc.n
            \/ pc.op = "last_store" /\ pc.n < num_tasks /\ pc'.op = "load_group" /\ pc'.n = pc.n + 1
            \/ pc.op = "last_store" /\ pc.n = num_tasks /\ pc'.op = "find_task"
         /\ DOMAIN context' = Tcbs
         /\ \A t \in Tcbs : t # TcbOf(pc.n) => context'[t] = context[t]
         /\ pc.op = "first_store" => context'[TcbOf(pc.n)] = Mixed
         /\ pc.op = "last_store" =>
              context'[TcbOf(pc.n)] = IF context[TcbOf(pc.n)] = Mixed THEN NewTask ELSE Mixed
<1> USE Sizes, PointsAre
<1>0. num_tasks' = num_tasks /\ PointOK(num_tasks, pc) /\ DOMAIN context = Tcbs /\ num_tasks \in 0 .. IDLE_PRIO
  BY AllocKeeps DEF allocate_tasks, TypesOK
<1>1. pc.op \in {"first_store", "last_store"} /\ Busy(pc)
  BY DEF first_store, last_store, At, Busy
<1>2. pc.n \in 0 .. num_tasks
  BY <1>0, <1>1 DEF PointOK, Fill, Ends
<1>3. CASE first_store
  <2>1. pc' = Alloc("last_store", pc.n, {}) /\ pc.op = "first_store"
        /\ context' = [context EXCEPT ![TcbOf(pc.n)] = Mixed]
        /\ UNCHANGED <<cur_tcb, queue_vars, stage>>
    BY <1>3 DEF first_store, At, Goto
  <2>2. TcbOf(pc.n) \in Tcbs
    BY <1>2, PlacesOf
  <2> QED BY <1>0, <1>1, <1>2, <2>1, <2>2 DEF Fill, PointOK
<1>4. CASE last_store
  <2>1. /\ pc' = IF pc.n < num_tasks THEN Alloc("load_group", pc.n + 1, {})
                 ELSE Alloc("find_task", pc.n, {})
        /\ pc.op = "last_store"
        /\ context' = [context EXCEPT ![TcbOf(pc.n)] = IF @ = Mixed THEN NewTask ELSE Mixed]
        /\ UNCHANGED <<cur_tcb, queue_vars, stage>>
    BY <1>4 DEF last_store, At, Goto
  <2>2. TcbOf(pc.n) \in Tcbs
    BY <1>2, PlacesOf
  <2>3. /\ DOMAIN context' = Tcbs
        /\ \A t \in Tcbs : t # TcbOf(pc.n) => context'[t] = context[t]
        /\ context'[TcbOf(pc.n)] = IF context[TcbOf(pc.n)] = Mixed THEN NewTask ELSE Mixed
    BY <1>0, <2>1, <2>2
  <2>4. CASE pc.n < num_tasks
    BY <1>0, <1>1, <1>2, <2>1, <2>3, <2>4 DEF Fill, PointOK
  <2>5. CASE pc.n = num_tasks
    BY <1>0, <1>1, <1>2, <2>1, <2>3, <2>5 DEF Ends, Fill, PointOK
  <2> QED BY <1>0, <1>2, <2>4, <2>5
<1> QED BY <1>3, <1>4

\* The dispatch of the set.
LEMMA EndIs ==
  ASSUME TypesOK, find_task \/ store_cur \/ load_context
  PROVE  /\ Busy(pc) /\ pc.op \in Ends
         /\ UNCHANGED <<queue_vars, context>>
         /\ \/ /\ pc.op = "find_task" /\ UNCHANGED <<cur_tcb, stage>>
               /\ pc' = Alloc("store_cur", pc.n, {run_list[highest_prio_of(group_run_bits, run_bits)]})
            \/ /\ pc.op = "store_cur" /\ cur_tcb' \in pc.reg /\ stage' = stage
               /\ pc' = Alloc("load_context", pc.n, {})
            \/ /\ pc.op = "load_context" /\ cur_tcb' = cur_tcb
               /\ pc' = IF cur_tcb = NULL THEN Lost ELSE context[cur_tcb]
               /\ stage' = IF stage = "first" THEN "running" ELSE "replaced"
         /\ cur_tcb' \in TcbPointers /\ PointOK(num_tasks, pc')
<1> USE Sizes, PointsAre
<1>0. num_tasks' = num_tasks /\ PointOK(num_tasks, pc) /\ cur_tcb \in TcbPointers
      /\ \A t \in Tcbs : PointOK(num_tasks, context[t])
  BY AllocKeeps DEF allocate_tasks, TypesOK
<1>1. CASE find_task
  <2>1. /\ UNCHANGED <<queue_vars, context, cur_tcb, stage>> /\ pc.op = "find_task" /\ Busy(pc)
        /\ pc' = Alloc("store_cur", pc.n, {run_list[highest_prio_of(group_run_bits, run_bits)]})
    BY <1>1 DEF find_task, At, Busy, sched_vars
  <2>2. run_list[highest_prio_of(group_run_bits, run_bits)] \in TcbPointers
    BY SearchIsSlot DEF TypesOK
  <2> QED BY <1>0, <2>1, <2>2 DEF Ends, PointOK
<1>2. CASE store_cur
  <2>1. /\ UNCHANGED <<queue_vars, context, stage>> /\ pc.op = "store_cur" /\ Busy(pc)
        /\ cur_tcb' \in pc.reg /\ pc' = Alloc("load_context", pc.n, {})
    BY <1>2 DEF store_cur, At, Busy, Goto, Kept
  <2> QED BY <1>0, <2>1 DEF Ends, PointOK
<1>3. CASE load_context
  <2>1. /\ UNCHANGED <<queue_vars, context, cur_tcb>> /\ pc.op = "load_context" /\ Busy(pc)
        /\ pc' = IF cur_tcb = NULL THEN Lost ELSE context[cur_tcb]
        /\ stage' = IF stage = "first" THEN "running" ELSE "replaced"
    BY <1>3 DEF load_context, At, Busy, switch_to
  <2> QED BY <1>0, <2>1 DEF Ends, PointOK
<1> QED BY <1>1, <1>2, <1>3

LEMMA AllocateCases ==
  ASSUME allocate_tasks
  PROVE  \/ runqueue_init \/ runqueue_add \/ first_store \/ last_store
         \/ find_task \/ store_cur \/ load_context
BY DEF allocate_tasks

\* The types.
LEMMA TypesStep ==
  ASSUME TypesOK, SortInv, phase # "none" => \A t \in Tcbs : ~Busy(context[t]), [Next]_vars
  PROVE  TypesOK'
<1> USE Sizes, PointsAre
<1>0. PointOK(num_tasks, pc) /\ DOMAIN context = Tcbs /\ \A t \in Tcbs : PointOK(num_tasks, context[t])
  BY DEF TypesOK
<1>b. \A x : PointOK(num_tasks, x) /\ ~Busy(x) => PointOK(num_tasks', x)
  BY DEF PointOK
<1>1. ASSUME Dispatched, num_tasks' = num_tasks, stage' = stage,
             group_run_bits' \subseteq Groups, run_bits' \subseteq Prios,
             run_list' \in [Prios -> TcbPointers], \A p \in Prios : SlotOK(p, run_list'[p]),
             asleep' \subseteq Tcbs \ {IDLE_PRIO}
      PROVE  TypesOK'
  <2>1. cur_tcb' \in TcbPointers /\ DOMAIN context' = Tcbs
    BY <1>1 DEF Dispatched, TypesOK
  <2>2. ASSUME NEW t \in Tcbs PROVE PointOK(num_tasks', context'[t])
    <3>1. PointOK(num_tasks, context'[t])
      BY <1>0, <1>1 DEF Dispatched
    <3> QED BY <1>1, <3>1
  <2>3. PointOK(num_tasks', pc')
    <3>1. pc' = pc \/ pc' = Lost \/ \E t \in Tcbs : pc' = context'[t]
      BY <1>1 DEF Dispatched
    <3>2. PointOK(num_tasks', Lost) /\ PointOK(num_tasks, pc)
      BY <1>0 DEF PointOK
    <3> QED BY <1>1, <2>2, <3>1, <3>2
  <2>4. num_tasks' \in 0 .. IDLE_PRIO /\ stage' \in {"first", "refused", "running", "replacing", "replaced"}
    BY <1>1 DEF TypesOK
  <2>5. \A p \in Prios : SlotOK(p, run_list'[p])
    BY <1>1 DEF SlotOK
  <2> QED BY <1>1, <2>1, <2>2, <2>3, <2>4, <2>5 DEF TypesOK
<1>2. CASE timer_irq
  <2>1. asleep' \subseteq Tcbs \ {IDLE_PRIO}
    BY <1>2, TimerIs DEF TypesOK
  <2> QED BY <1>1, <1>2, <2>1, TimerIs
<1>3. ASSUME NEW c \in Tcbs, event_wait(c) PROVE TypesOK'
  <2>0. /\ asleep' = asleep \cup {c} /\ c # IDLE_PRIO
        /\ run_bits' \subseteq run_bits /\ group_run_bits' \subseteq group_run_bits
    BY <1>3, WaitIs
  <2>1. asleep' \subseteq Tcbs \ {IDLE_PRIO} /\ group_run_bits' \subseteq Groups /\ run_bits' \subseteq Prios
    BY <2>0 DEF TypesOK
  <2>2. /\ Dispatched /\ UNCHANGED <<num_tasks, stage>> /\ run_list' \in [Prios -> TcbPointers]
        /\ \A p \in Prios : SlotOK(p, run_list'[p])
    BY <1>3, WaitIs
  <2> QED BY <1>1, <2>1, <2>2
<1>4. ASSUME UNCHANGED <<sched_vars, num_tasks>>, PointOK(num_tasks, pc'),
             stage' \in {"first", "refused", "running", "replacing", "replaced"}
      PROVE  TypesOK'
  <2>1. PointOK(num_tasks', pc') /\ \A t \in Tcbs : PointOK(num_tasks', context'[t])
    BY <1>0, <1>4 DEF sched_vars
  <2> QED BY <1>4, <2>1 DEF TypesOK, sched_vars, queue_vars, SlotOK
<1>5. ASSUME NEW c \in TcbPointers, task_create(c) PROVE TypesOK'
  <2>1. PointOK(num_tasks, Testing)
    BY DEF PointOK
  <2> QED BY <1>4, <1>5, <2>1 DEF task_create, TypesOK
<1>6. CASE test_step
  BY <1>0, <1>4, <1>6 DEF test_step, TypesOK
<1>7. CASE refused
  <2>1. PointOK(num_tasks, pc')
    BY <1>7 DEF refused, PointOK
  <2> QED BY <1>4, <1>7, <2>1 DEF refused
<1>8. CASE admitted
  <2>1. num_tasks' \in 0 .. IDLE_PRIO
    BY <1>8, AdmittedSize
  <2>2. pc' = Alloc("clear_groups", 0, {}) /\ UNCHANGED <<sched_vars, stage>> /\ phase # "none"
    BY <1>8 DEF admitted
  <2>3. PointOK(num_tasks', pc')
    BY <2>2 DEF PointOK
  <2>4. \A t \in Tcbs : PointOK(num_tasks', context'[t])
    BY <1>0, <1>b, <2>2 DEF sched_vars
  <2> QED BY <2>1, <2>2, <2>3, <2>4 DEF TypesOK, sched_vars, queue_vars, SlotOK
<1>9. CASE allocate_tasks
  <2>1. num_tasks' = num_tasks /\ asleep' = asleep
    BY <1>9, AllocKeeps
  <2>2. CASE runqueue_init
    <3>1. PointOK(num_tasks, pc')
      <4>1. num_tasks \in 0 .. IDLE_PRIO
        BY DEF TypesOK
      <4> QED BY <2>2, <4>1, ClearIs DEF PointOK, Fill
    <3>2. UNCHANGED <<cur_tcb, context, stage>> /\ group_run_bits' \subseteq Groups /\ run_bits' \subseteq Prios
      BY <2>2, ClearIs
    <3>3. run_list' \in [Prios -> TcbPointers] /\ \A p \in Prios : SlotOK(p, run_list'[p])
      BY <2>2, ClearIs DEF TypesOK, SlotOK
    <3>4. PointOK(num_tasks', pc') /\ \A t \in Tcbs : PointOK(num_tasks', context'[t])
      BY <1>0, <2>1, <3>1, <3>2
    <3> QED BY <2>1, <3>2, <3>3, <3>4 DEF TypesOK, SlotOK
  <2>3. CASE runqueue_add
    <3>1. PointOK(num_tasks, pc') /\ UNCHANGED <<cur_tcb, context, stage>> /\ pc.n \in 0 .. num_tasks
          /\ group_run_bits' \subseteq Groups /\ run_bits' \subseteq Prios
      BY <2>3, AddIs
    <3>2. PrioOf(pc.n) \in Prios /\ TcbOf(pc.n) \in Tcbs /\ SlotOK(PrioOf(pc.n), TcbOf(pc.n))
      BY <3>1, PlacesOf
    <3>3. run_list' \in [Prios -> TcbPointers] /\ \A p \in Prios : SlotOK(p, run_list'[p])
      BY <2>3, <3>2, AddIs DEF TypesOK, SlotOK
    <3>4. PointOK(num_tasks', pc') /\ \A t \in Tcbs : PointOK(num_tasks', context'[t])
      BY <1>0, <2>1, <3>1
    <3> QED BY <2>1, <3>1, <3>3, <3>4 DEF TypesOK, SlotOK
  <2>4. CASE first_store \/ last_store
    <3>1. /\ PointOK(num_tasks, pc') /\ UNCHANGED <<cur_tcb, queue_vars, stage>> /\ DOMAIN context' = Tcbs
          /\ \A t \in Tcbs : context'[t] = context[t] \/ context'[t] \in {Mixed, NewTask}
      BY <2>4, ContextIs
    <3>2. PointOK(num_tasks, Mixed) /\ PointOK(num_tasks, NewTask)
      BY DEF PointOK, NewTask
    <3>3. PointOK(num_tasks', pc') /\ \A t \in Tcbs : PointOK(num_tasks', context'[t])
      <4>1. \A t \in Tcbs : PointOK(num_tasks, context'[t])
        BY <1>0, <3>1, <3>2
      <4> QED BY <2>1, <3>1, <4>1
    <3> QED BY <2>1, <3>1, <3>3 DEF TypesOK, queue_vars, SlotOK
  <2>5. CASE find_task \/ store_cur \/ load_context
    <3>1. PointOK(num_tasks, pc') /\ UNCHANGED <<queue_vars, context>> /\ cur_tcb' \in TcbPointers
          /\ stage' \in {stage, "running", "replaced"}
      BY <2>5, EndIs
    <3>3. PointOK(num_tasks', pc') /\ \A t \in Tcbs : PointOK(num_tasks', context'[t])
      BY <1>0, <2>1, <3>1
    <3> QED BY <2>1, <3>1, <3>3 DEF TypesOK, queue_vars, SlotOK
  <2> QED BY <1>9, <2>2, <2>3, <2>4, <2>5, AllocateCases
<1>10. CASE UNCHANGED vars
  BY <1>0, <1>10, <1>4 DEF vars, TypesOK, sched_vars
<1> QED BY <1>2, <1>3, <1>5, <1>6, <1>7, <1>8, <1>9, <1>10 DEF Next

------------------------------------------------------------------------------
(* No task of the second set goes on in code of the first.                   *)

Points == {pc} \cup {context[t] : t \in Tcbs}

\* x is a point of allocate_tasks at which the context of t has been stored, or at
\* least its first part.
Stored(x, t) ==
  Busy(x) /\ (x.op \in Ends \/ (x.op \in Fill /\ (t < x.n \/ (t = x.n /\ x.op = "last_store"))))

Fresh(t) == context[t] # User(1) /\ (cur_tcb = t => pc # User(1))

TasksOf == 0 .. num_tasks - 1

\* The call is made once: there is no place in allocate_tasks while a list is
\* tested, while the first set runs and when it was refused.
CallInv ==
  /\ phase # "none" => \A x \in Points : ~Busy(x)
  /\ stage \in {"refused", "running"} => \A x \in Points : ~Busy(x)
  /\ stage = "first" => \A t \in Tcbs : ~Busy(context[t])
  /\ stage \in {"refused", "running", "replaced"} => phase = "none"

FreshInv ==
  /\ stage # "first" => \A x \in Points : \A t \in TasksOf : Stored(x, t) => Fresh(t)
  /\ stage = "replaced" => \A t \in TasksOf : Fresh(t)

LEMMA PointsKept ==
  ASSUME TypesOK, Dispatched
  PROVE  \A x \in Points' : x \in Points \/ x = Lost
<1>1. \A t \in Tcbs : context'[t] \in Points
  BY DEF Dispatched, Points
<1>2. pc' \in Points \/ pc' = Lost
  BY <1>1 DEF Dispatched, Points
<1> QED BY <1>1, <1>2 DEF Points

LEMMA CallStep ==
  ASSUME TypesOK, CallInv, [Next]_vars
  PROVE  CallInv'
<1> USE PointsAre
<1>0. \A t \in Tcbs : context[t] \in Points
  BY DEF Points
<1>1. ASSUME Dispatched, stage # "first", UNCHANGED <<stage, ub_vars>>
      PROVE  CallInv'
  <2>1. \A x \in Points' : x \in Points \/ x = Lost
    BY <1>1, PointsKept
  <2> QED BY <1>1, <2>1 DEF CallInv, ub_vars
<1>2. CASE timer_irq
  BY <1>1, <1>2, TimerIs
<1>3. ASSUME NEW c \in Tcbs, event_wait(c) PROVE CallInv'
  <2>1. CASE stage # "first"
    BY <1>1, <1>3, <2>1, WaitIs
  <2>2. CASE stage = "first"
    <3>1. Dispatched /\ UNCHANGED <<stage, ub_vars>> /\ ~Busy(pc)
      BY <1>3, WaitIs DEF Busy
    <3>2. \A x \in Points : ~Busy(x)
      BY <2>2, <3>1 DEF Points, CallInv
    <3>3. \A x \in Points' : ~Busy(x)
      BY <3>1, <3>2, PointsKept
    <3>4. \A t \in Tcbs : ~Busy(context'[t])
      BY <3>3 DEF Points
    <3> QED BY <2>2, <3>1, <3>3, <3>4 DEF CallInv, ub_vars
  <2> QED BY <2>1, <2>2
<1>4. ASSUME NEW c \in TcbPointers, task_create(c) PROVE CallInv'
  <2>1. pc' = Testing /\ context' = context /\ ((stage' = stage /\ stage = "first") \/ (stage = "running" /\ stage' = "replacing"))
    BY <1>4 DEF task_create, sched_vars
  <2>2. \A t \in Tcbs : ~Busy(context[t])
    BY <1>0, <2>1 DEF CallInv
  <2>3. \A x \in Points' : ~Busy(x)
    BY <2>1, <2>2 DEF Points
  <2> QED BY <2>1, <2>2, <2>3 DEF CallInv
<1>5. CASE test_step
  <2>1. UNCHANGED <<sched_vars, pc, stage>> /\ phase # "none"
    BY <1>5 DEF test_step, sorttasks, assign_schedule
  <2>2. Points' = Points
    BY <2>1 DEF Points, sched_vars
  <2> QED BY <2>1, <2>2 DEF CallInv, sched_vars
<1>6. CASE refused
  <2>1. phase # "none" /\ phase' = "none" /\ context' = context /\ ~Busy(pc')
        /\ stage' \in {"refused", "running"}
    BY <1>6 DEF refused, forget_list, sched_vars
  <2>2. \A t \in Tcbs : ~Busy(context[t])
    BY <1>0, <2>1 DEF CallInv
  <2> QED BY <2>1, <2>2 DEF CallInv, Points
<1>7. CASE admitted
  <2>1. phase # "none" /\ phase' = "none" /\ context' = context /\ stage' = stage
    BY <1>7 DEF admitted, forget_list, sched_vars
  <2>2. \A t \in Tcbs : ~Busy(context[t])
    BY <1>0, <2>1 DEF CallInv
  <2>3. stage \notin {"refused", "running", "replaced"}
    BY <2>1 DEF CallInv
  <2> QED BY <2>1, <2>2, <2>3 DEF CallInv
<1>8. CASE allocate_tasks
  <2>1. UNCHANGED ub_vars /\ Busy(pc) /\ pc \in Points
    BY <1>8, AllocKeeps DEF Points
  <2>2. phase = "none" /\ phase' = "none" /\ stage \notin {"refused", "running"}
    BY <2>1 DEF CallInv, ub_vars
  <2>3. CASE stage' = stage
    <3>1. \A t \in Tcbs : context'[t] = context[t] \/ ~Busy(context'[t])
      <4>1. context' = context \/ first_store \/ last_store
        BY <1>8, AllocateCases, ClearIs, AddIs, EndIs
      <4>2. ~Busy(Mixed) /\ ~Busy(NewTask)
        BY DEF NewTask
      <4> QED BY <4>1, <4>2, ContextIs
    <3> QED BY <2>2, <2>3, <3>1 DEF CallInv
  <2>4. CASE stage' # stage
    <3>1. context' = context /\ pc' = (IF cur_tcb = NULL THEN Lost ELSE context[cur_tcb])
          /\ stage' = IF stage = "first" THEN "running" ELSE "replaced"
      <4>1. find_task \/ store_cur \/ load_context
        BY <1>8, <2>4, AllocateCases, ClearIs, AddIs, ContextIs
      <4> QED BY <2>4, <4>1, EndIs
    <3>2. stage = "first" => \A x \in Points' : ~Busy(x)
      BY <3>1 DEF CallInv, Points, TypesOK, TcbPointers
    <3> QED BY <2>2, <3>1, <3>2 DEF CallInv
  <2> QED BY <2>3, <2>4
<1>9. CASE UNCHANGED vars
  BY <1>9 DEF vars, sched_vars, ub_vars, CallInv, Points
<1> QED BY <1>2, <1>3, <1>4, <1>5, <1>6, <1>7, <1>8, <1>9 DEF Next

LEMMA FreshStep ==
  ASSUME TypesOK, CallInv, CallInv', FreshInv, SortInv, [Next]_vars
  PROVE  FreshInv'
<1> USE PointsAre, Sizes
<1>0. pc \in Points /\ (\A t \in Tcbs : context[t] \in Points) /\ DOMAIN context = Tcbs
      /\ TasksOf \subseteq Tcbs /\ num_tasks \in Nat
  BY DEF Points, TypesOK, TasksOf
<1>x. \A x, t : Stored(x, t) => Busy(x)
  BY DEF Stored
<1>y. \A x : Busy(x) => x # User(1)
  OBVIOUS
<1>1. ASSUME Dispatched, UNCHANGED <<stage, num_tasks>>
      PROVE  FreshInv'
  <2>1. \A x \in Points' : x \in Points \/ x = Lost
    BY <1>1, PointsKept
  <2>2. ASSUME NEW t \in TasksOf, Fresh(t) PROVE Fresh(t)'
    <3>1. t \in Tcbs /\ (context'[t] = context[t] \/ (cur_tcb = t /\ context'[t] = pc))
      BY <1>0, <1>1 DEF Dispatched
    <3>2. context'[t] # User(1)
      BY <2>2, <3>1 DEF Fresh
    <3>3. cur_tcb' = t => pc' # User(1)
      BY <1>0, <1>1, <2>2, <3>1, <3>2 DEF Dispatched, Fresh
    <3> QED BY <3>2, <3>3 DEF Fresh
  <2>3. TasksOf' = TasksOf
    BY <1>1 DEF TasksOf
  <2> QED BY <1>1, <1>x, <2>1, <2>2, <2>3 DEF FreshInv
<1>2. CASE timer_irq
  BY <1>1, <1>2, TimerIs
<1>3. ASSUME NEW c \in Tcbs, event_wait(c) PROVE FreshInv'
  BY <1>1, <1>3, WaitIs
<1>4. ASSUME \A x \in Points' : \A t \in TasksOf' : ~Stored(x, t), stage' # "replaced"
      PROVE  FreshInv'
  BY <1>4 DEF FreshInv
<1>5. ASSUME NEW c \in TcbPointers, task_create(c) PROVE FreshInv'
  <2>1. pc' = Testing /\ context' = context /\ stage' # "replaced"
        /\ (stage = "first" \/ stage = "running")
    BY <1>5 DEF task_create, sched_vars
  <2>2. \A t \in Tcbs : ~Busy(context[t])
    BY <1>0, <2>1 DEF CallInv
  <2>3. \A x \in Points' : ~Busy(x)
    BY <2>1, <2>2 DEF Points
  <2> QED BY <1>4, <1>x, <2>1, <2>3
<1>6. CASE test_step
  <2>1. UNCHANGED <<sched_vars, pc, stage, num_tasks>>
    BY <1>6 DEF test_step
  <2>2. UNCHANGED <<Points, TasksOf>> /\ \A t : Fresh(t)' <=> Fresh(t)
    BY <2>1 DEF Points, TasksOf, sched_vars, Fresh
  <2> QED BY <2>1, <2>2 DEF FreshInv
<1>7. CASE refused
  <2>1. phase # "none" /\ context' = context /\ ~Busy(pc')
        /\ stage' \in {"refused", "running"}
    BY <1>7 DEF refused, forget_list, sched_vars
  <2>2. \A t \in Tcbs : ~Busy(context[t])
    BY <1>0, <2>1 DEF CallInv
  <2>3. \A x \in Points' : ~Busy(x)
    BY <2>1, <2>2 DEF Points
  <2> QED BY <1>4, <1>x, <2>1, <2>3
<1>8. CASE admitted
  <2>1. phase # "none" /\ context' = context /\ stage' = stage /\ pc' = Alloc("clear_groups", 0, {})
    BY <1>8 DEF admitted, sched_vars
  <2>2. (\A t \in Tcbs : ~Busy(context[t])) /\ stage # "replaced"
    BY <1>0, <2>1 DEF CallInv
  <2>3. \A t : ~Stored(pc', t)
    BY <2>1 DEF Stored, Fill, Ends
  <2>4. \A x \in Points' : \A t : ~Stored(x, t)
    BY <1>x, <2>1, <2>2, <2>3 DEF Points
  <2> QED BY <1>4, <2>1, <2>2, <2>4
<1>9. CASE allocate_tasks
  <2>1. num_tasks' = num_tasks /\ TasksOf' = TasksOf /\ Busy(pc)
    BY <1>9, AllocKeeps DEF TasksOf
  <2>2. ASSUME stage' = stage, cur_tcb' = cur_tcb, Busy(pc'),
               \A t \in TasksOf : context'[t] = context[t] \/ (context'[t] \in {Mixed, NewTask}),
               \A t \in Tcbs : context'[t] = context[t] \/ ~Busy(context'[t]),
               \A t \in TasksOf : Stored(pc', t) => Stored(pc, t) \/ context'[t] \in {Mixed, NewTask}
        PROVE  FreshInv'
    <3>1. stage # "first" => NewTask # User(1) /\ Mixed # User(1)
      BY DEF NewTask
    <3>2. ASSUME stage # "first", NEW t \in TasksOf, Fresh(t) \/ context'[t] \in {Mixed, NewTask}
          PROVE  Fresh(t)'
      <4>1. context'[t] # User(1) /\ pc' # User(1)
        BY <1>y, <2>2, <3>1, <3>2 DEF Fresh
      <4> QED BY <4>1 DEF Fresh
    <3>3. ASSUME stage # "first", NEW x \in Points', NEW t \in TasksOf, Stored(x, t)
          PROVE  Fresh(t)'
      <4>1. CASE x = pc'
        <5>1. Fresh(t) \/ context'[t] \in {Mixed, NewTask}
          BY <1>0, <2>2, <3>3, <4>1 DEF FreshInv
        <5> QED BY <3>2, <3>3, <5>1
      <4>2. CASE x # pc'
        <5>1. x \in Points
          BY <1>0, <1>x, <2>2, <3>3, <4>2 DEF Points
        <5>2. Fresh(t)
          BY <3>3, <5>1 DEF FreshInv
        <5> QED BY <3>2, <3>3, <5>2
      <4> QED BY <4>1, <4>2
    <3>4. ASSUME stage = "replaced", NEW t \in TasksOf PROVE Fresh(t)'
      <4>1. Fresh(t)
        BY <3>4 DEF FreshInv
      <4> QED BY <3>2, <3>4, <4>1
    <3> QED BY <2>1, <2>2, <3>3, <3>4 DEF FreshInv
  <2>3. CASE runqueue_init
    <3>1. UNCHANGED <<cur_tcb, context, stage>> /\ Busy(pc') /\ \A t \in TasksOf : ~Stored(pc', t)
      BY <2>3, ClearIs DEF Stored, Fill, Ends, TasksOf
    <3> QED BY <2>2, <3>1
  <2>4. CASE runqueue_add
    <3>1. UNCHANGED <<cur_tcb, context, stage>> /\ Busy(pc')
      BY <2>4, AddIs
    <3>2. \A t \in TasksOf : Stored(pc', t) => Stored(pc, t)
      BY <2>4, AddIs DEF Stored, Fill, Ends, AddOps
    <3> QED BY <2>2, <3>1, <3>2
  <2>5. CASE first_store \/ last_store
    <3>1. UNCHANGED <<cur_tcb, stage>> /\ Busy(pc') /\ pc.n \in 0 .. num_tasks
          /\ \A t \in Tcbs : context'[t] = context[t] \/ (t = TcbOf(pc.n) /\ context'[t] \in {Mixed, NewTask})
      BY <2>5, ContextIs
    <3>2. ~Busy(Mixed) /\ ~Busy(NewTask)
      BY DEF NewTask
    <3>3. ASSUME NEW t \in TasksOf, Stored(pc', t)
          PROVE  Stored(pc, t) \/ context'[t] \in {Mixed, NewTask}
      <4>1. t \in Nat /\ t < num_tasks
        BY <1>0, <3>3 DEF TasksOf
      <4>2. CASE t = pc.n
        <5>1. TcbOf(pc.n) = t
          BY <4>1, <4>2 DEF TcbOf
        <5> QED BY <1>0, <2>5, <3>3, <5>1, ContextIs
      <4>3. CASE t # pc.n
        BY <2>5, <3>3, <4>1, <4>3, ContextIs DEF Stored, Fill, Ends
      <4> QED BY <4>2, <4>3
    <3> QED BY <1>0, <2>2, <3>1, <3>2, <3>3
  <2>6. CASE find_task \/ store_cur \/ load_context
    <3>1. UNCHANGED context /\ pc.op \in Ends
      BY <2>6, EndIs
    <3>2. \A t \in TasksOf : Stored(pc, t)
      BY <2>1, <3>1 DEF Stored
    <3>3. stage # "first" => \A t \in TasksOf : Fresh(t)
      BY <1>0, <3>2 DEF FreshInv
    <3>4. ASSUME stage # "first", NEW t \in TasksOf PROVE Fresh(t)'
      <4>1. context'[t] # User(1)
        BY <3>1, <3>3, <3>4 DEF Fresh
      <4>2. cur_tcb' = t => pc' # User(1)
        <5>1. Busy(pc') \/ (cur_tcb' = cur_tcb /\ pc' = (IF cur_tcb = NULL THEN Lost ELSE context[cur_tcb]))
          BY <2>6, EndIs
        <5>2. t \in Tcbs
          BY <1>0
        <5> QED BY <1>y, <3>3, <3>4, <5>1, <5>2 DEF Fresh
      <4> QED BY <4>1, <4>2 DEF Fresh
    <3>5. CASE stage = "first"
      <4>1. stage' \in {"first", "running"}
        BY <2>6, <3>5, EndIs
      <4>2. stage' = "running" => \A x \in Points' : ~Busy(x)
        BY DEF CallInv
      <4> QED BY <1>x, <4>1, <4>2 DEF FreshInv
    <3>6. CASE stage # "first"
      BY <2>1, <3>4, <3>6 DEF FreshInv
    <3> QED BY <3>5, <3>6
  <2> QED BY <1>9, <2>3, <2>4, <2>5, <2>6, AllocateCases
<1>10. CASE UNCHANGED vars
  <2>1. UNCHANGED <<Points, TasksOf, stage>> /\ \A t : Fresh(t)' <=> Fresh(t)
    BY <1>10 DEF vars, Points, TasksOf, sched_vars, Fresh
  <2> QED BY <2>1 DEF FreshInv
<1> QED BY <1>2, <1>3, <1>5, <1>6, <1>7, <1>8, <1>9, <1>10 DEF Next

PlacesInv == TypesOK /\ SortInv /\ CallInv

LEMMA InitPlaces == Init => PlacesInv
<1> USE Sizes, PointsAre
<1>1. Init => TypesOK
  BY DEF Init, TypesOK, PointOK, SlotOK, EmptyList
<1>2. Init => SortInv
  BY DEF Init, SortInv
<1>3. Init => CallInv
  BY DEF Init, CallInv, NoTest, Points
<1> QED BY <1>1, <1>2, <1>3 DEF PlacesInv

LEMMA PlacesStep == PlacesInv /\ [Next]_vars => PlacesInv'
<1> SUFFICES ASSUME PlacesInv, [Next]_vars PROVE PlacesInv'
  OBVIOUS
<1>1. phase # "none" => \A t \in Tcbs : ~Busy(context[t])
  BY DEF PlacesInv, CallInv, Points
<1> QED BY <1>1, TypesStep, CallStep, SortNext DEF PlacesInv

\* Once the second set is dispatched none of its tasks resumes in code of the first,
\* at whatever store of task_create (sched.c:73-97) its caller was interrupted, however
\* long, and whatever the tasks of the first set did to the tcbs in between.
THEOREM NoOldTaskRuns == Spec => []ReplacedTasksGone
<1>1. Init => PlacesInv /\ FreshInv
  <2>1. Init => FreshInv
    BY DEF Init, FreshInv
  <2> QED BY <2>1, InitPlaces
<1>2. PlacesInv /\ FreshInv /\ [Next]_vars => PlacesInv' /\ FreshInv'
  BY PlacesStep, FreshStep DEF PlacesInv
<1>3. PlacesInv /\ FreshInv => ReplacedTasksGone
  <2> SUFFICES ASSUME PlacesInv, FreshInv, stage = "replaced"
               PROVE  /\ \A t \in Tcbs : t < num_tasks => context[t] # User(1)
                      /\ cur_tcb # NULL /\ cur_tcb < num_tasks => pc # User(1)
    BY DEF ReplacedTasksGone
  <2>1. \A t \in Tcbs : t < num_tasks => Fresh(t)
    BY Sizes DEF FreshInv, TasksOf, PlacesInv, TypesOK
  <2>2. cur_tcb \in Tcbs \cup {NULL}
    BY Sizes DEF PlacesInv, TypesOK
  <2> QED BY <2>1, <2>2 DEF Fresh
<1> QED BY <1>1, <1>2, <1>3, PTL DEF Spec

------------------------------------------------------------------------------
(* The dispatchers find a task, unless the run queue was found half replaced. *)

Mid(x) == Busy(x) /\ x.op \notin {"clear_groups", "find_task", "store_cur", "load_context"}
Stops == {Unset, Mixed, Lost}

\* A task whose context is there, or for its last store.
Loadable(t) == context[t] \notin Stops \/ (Busy(pc) /\ pc.op = "last_store" /\ t = TcbOf(pc.n))

\* The priorities of the first n tasks of a set of size, and of the idle task.
Done(size, n) == {IF k = size THEN IDLE_PRIO ELSE k + 1 : k \in 0 .. n - 1}
GroupsOf(S) == {group_of(p) : p \in S}

\* The bits are those of the occupied slots, and the idle task is in its slot.
Exact ==
  /\ run_bits = Occupied(run_list) /\ group_run_bits = GroupsOf(run_bits)
  /\ run_list[IDLE_PRIO] = IDLE_PRIO
  /\ \A p \in Prios : run_list[p] # NULL => Loadable(run_list[p])

\* How far the call has come that no interrupt has hit.
Progress(op, n) ==
  /\ op = "clear_byte" => group_run_bits = {} /\ \A p \in run_bits : group_of(p) >= n
  /\ op = "clear_slot" => group_run_bits = {} /\ run_bits = {}
                          /\ \A p \in Prios : p < n => run_list[p] = NULL
  /\ op \in Fill =>
       /\ group_run_bits = GroupsOf(Done(num_tasks, IF op \in {"load_group", "store_group"} THEN n ELSE n + 1))
       /\ run_bits = Done(num_tasks, IF op \in {"store_slot", "first_store", "last_store"} THEN n + 1 ELSE n)
       /\ Occupied(run_list) = Done(num_tasks, IF op \in AddOps THEN n ELSE n + 1)
       /\ op = "store_group" => pc.reg = group_run_bits
       /\ op = "store_byte" => pc.reg = run_bits \cap PriosOf(GroupOf(n))
       /\ op \in {"first_store", "last_store"} => run_list[PrioOf(n)] = TcbOf(n)
       /\ op = "last_store" => context[TcbOf(n)] = Mixed
       /\ \A k \in 0 .. n - 1 : context[k] \notin Stops

\* Without such an interrupt, wherever the cpu is.
Calm ==
  /\ pc \notin Stops
  /\ \A t \in Tcbs : ~Mid(context[t])
  /\ cur_tcb # IDLE_PRIO - 1
  /\ \A t \in asleep : t # IDLE_PRIO - 1 /\ Loadable(t)
  /\ \A x \in Points : Busy(x) /\ x.op = "store_cur" =>
       \E f \in Tcbs : x.reg = {f} /\ f # IDLE_PRIO - 1 /\ Loadable(f)
  /\ Busy(pc) /\ pc.op = "load_context" => cur_tcb \in Tcbs /\ Loadable(cur_tcb)
  /\ ~Mid(pc) /\ (cur_tcb # NULL \/ (Busy(pc) /\ pc.op \in Ends)) => Exact

Underway == Busy(pc) => Progress(pc.op, pc.n)

QuietInv == Calm /\ Underway

\* With exact bits the search finds an occupied slot, and not that of the last task
\* of the largest set.
LEMMA SearchFinds ==
  ASSUME NEW list \in [Prios -> TcbPointers], \A p \in Prios : SlotOK(p, list[p]),
         NEW bits, bits = Occupied(list), NEW groups, groups = GroupsOf(bits),
         list[IDLE_PRIO] = IDLE_PRIO
  PROVE  LET h == list[highest_prio_of(groups, bits)]
         IN  h \in Tcbs /\ h # IDLE_PRIO - 1 /\ \E p \in Prios : list[p] = h
<1> USE Sizes
<1> DEFINE g == Least(groups)
           byte == bits \cap PriosOf(g)
           p == highest_prio_of(groups, bits)
<1>0. bits \subseteq Prios /\ groups \subseteq Groups
  BY GroupsAre DEF Occupied, GroupsOf
<1>1. IDLE_PRIO \in bits /\ group_of(IDLE_PRIO) \in groups
  BY DEF Occupied, GroupsOf
<1>2. g \in groups
  BY <1>0, <1>1, GroupsAre, LeastIs
<1>3. byte # {}
  <2>1. PICK q \in bits : group_of(q) = g
    BY <1>2 DEF GroupsOf
  <2> QED BY <1>0, <2>1, GroupsAre DEF PriosOf
<1>4. Least(byte) \in byte
  <2>1. byte \in SUBSET Nat
    BY <1>0, GroupsAre
  <2> QED BY <1>3, <2>1, LeastIs
<1>5. p \in Occupied(list)
  <2>1. p = Least(byte)
    BY <1>1, <1>3 DEF highest_prio_of
  <2> QED BY <1>4, <2>1
<1> HIDE DEF p
<1>6. p \in Prios /\ list[p] # NULL /\ list[p] \in TcbPointers /\ SlotOK(p, list[p])
  BY <1>5 DEF Occupied
<1>7. list[p] # IDLE_PRIO - 1
  BY <1>6 DEF SlotOK
<1> QED BY <1>6, <1>7 DEF p

\* Tasks that are woken, and a task that goes to sleep, leave the bits exact.
LEMMA WokenExact ==
  ASSUME TypesOK, Exact, \A t \in asleep : t # IDLE_PRIO - 1, timer_irq
  PROVE  /\ run_bits' = Occupied(run_list') /\ group_run_bits' = GroupsOf(run_bits')
         /\ run_list'[IDLE_PRIO] = IDLE_PRIO
         /\ \A p \in Prios : run_list'[p] # NULL =>
              run_list'[p] \in asleep \/ \E q \in Prios : run_list'[p] = run_list[q]
<1> USE Sizes
<1> DEFINE W == asleep \ asleep'
<1>1. /\ \A p \in Prios : run_list'[p] = IF p - 1 \in W THEN p - 1 ELSE run_list[p]
      /\ run_bits' = run_bits \cup {t + 1 : t \in W}
      /\ group_run_bits' = group_run_bits \cup {group_of(t + 1) : t \in W}
  BY TimerIs
<1>2. \A t \in W : t \in Tcbs /\ t # IDLE_PRIO /\ t # IDLE_PRIO - 1 /\ t + 1 \in Prios /\ t # NULL
                   /\ (t + 1) - 1 = t
  BY DEF TypesOK
<1> HIDE DEF W
<1>3. run_bits' = Occupied(run_list')
  <2>1. ASSUME NEW p PROVE p \in run_bits' <=> p \in Prios /\ run_list'[p] # NULL
    <3>1. p \in run_bits <=> p \in Prios /\ run_list[p] # NULL
      BY DEF Exact, Occupied
    <3>2. p \in Prios => (p - 1 \in W <=> \E t \in W : p = t + 1)
      BY <1>2
    <3>3. CASE p \in Prios
      BY <1>1, <1>2, <3>1, <3>2, <3>3
    <3>4. CASE p \notin Prios
      BY <1>1, <1>2, <3>1, <3>4
    <3> QED BY <3>3, <3>4
  <2> QED BY <2>1 DEF Occupied
<1>4. group_run_bits' = GroupsOf(run_bits')
  <2>1. group_run_bits = GroupsOf(run_bits)
    BY DEF Exact
  <2> QED BY <1>1, <2>1 DEF GroupsOf
<1>5. run_list'[IDLE_PRIO] = IDLE_PRIO
  BY <1>1, <1>2 DEF Exact
<1>6. \A p \in Prios : run_list'[p] # NULL =>
        run_list'[p] \in asleep \/ \E q \in Prios : run_list'[p] = run_list[q]
  BY <1>1 DEF W
<1> QED BY <1>3, <1>4, <1>5, <1>6

LEMMA WaitExact ==
  ASSUME TypesOK, Exact, NEW c \in Tcbs, c # IDLE_PRIO - 1, event_wait(c)
  PROVE  /\ run_bits' = Occupied(run_list') /\ group_run_bits' = GroupsOf(run_bits')
         /\ run_list'[IDLE_PRIO] = IDLE_PRIO
         /\ \A p \in Prios : run_list'[p] # NULL => \E q \in Prios : run_list'[p] = run_list[q]
<1> USE Sizes
<1> DEFINE g == group_of(c + 1)
<1>1. /\ c # IDLE_PRIO /\ run_bits' = run_bits \ {c + 1}
      /\ group_run_bits' = group_run_bits \ Emptied(run_bits', g)
      /\ \A p \in Prios : run_list'[p] = IF p = c + 1 THEN NULL ELSE run_list[p]
  BY WaitIs
<1> HIDE DEF g
<1>2. run_bits' = Occupied(run_list')
  BY <1>1 DEF Exact, Occupied
<1>3. \A q \in run_bits' : q \in PriosOf(g) <=> group_of(q) = g
  BY <1>1 DEF PriosOf, TypesOK
<1>4. GroupsOf(run_bits') = group_run_bits'
  <2>1. \A k : k # g => (k \in GroupsOf(run_bits') <=> k \in GroupsOf(run_bits))
    BY <1>1 DEF GroupsOf, g
  <2>2. g \in GroupsOf(run_bits') <=> run_bits' \cap PriosOf(g) # {}
    BY <1>3 DEF GroupsOf
  <2>3. g \in GroupsOf(run_bits') => g \in GroupsOf(run_bits)
    BY <1>1 DEF GroupsOf
  <2>4. group_run_bits = GroupsOf(run_bits)
    BY DEF Exact
  <2>5. Emptied(run_bits', g) = IF run_bits' \cap PriosOf(g) = {} THEN {g} ELSE {}
    BY DEF Emptied
  <2>6. \A k : k \in group_run_bits' <=> k \in GroupsOf(run_bits')
    BY <1>1, <2>1, <2>2, <2>3, <2>4, <2>5
  <2> QED BY <2>6
<1>5. run_list'[IDLE_PRIO] = IDLE_PRIO
  BY <1>1 DEF Exact
<1>6. \A p \in Prios : run_list'[p] # NULL => \E q \in Prios : run_list'[p] = run_list[q]
  BY <1>1
<1> QED BY <1>2, <1>4, <1>5, <1>6

\* A dispatch.
LEMMA DispatchedCalm ==
  ASSUME TypesOK, TypesOK', QuietInv, Dispatched, ~Mid(pc), cur_tcb \in Tcbs, cur_tcb' # NULL,
         asleep' \subseteq asleep \/ (asleep' = asleep \cup {cur_tcb} /\ cur_tcb # IDLE_PRIO
                                      /\ cur_tcb' # cur_tcb),
         run_bits' = Occupied(run_list'), group_run_bits' = GroupsOf(run_bits'),
         run_list'[IDLE_PRIO] = IDLE_PRIO,
         \A p \in Prios : run_list'[p] # NULL =>
           run_list'[p] \in asleep \/ \E q \in Prios : run_list'[p] = run_list[q]
  PROVE  QuietInv'
<1> USE Sizes, PointsAre
<1>1. pc \notin Stops /\ Exact /\ Calm
  BY DEF QuietInv, Calm
<1>2. \A t : Loadable(t) => context[t] \notin Stops
  BY DEF Loadable, Mid
<1>3. \A t \in Tcbs : context'[t] \in {context[t], pc}
  BY DEF Dispatched
<1>4. \A t \in Tcbs : Loadable(t) => context'[t] \notin Stops
  BY <1>1, <1>2, <1>3
<1>5. \A t : context'[t] \notin Stops => Loadable(t)'
  BY DEF Loadable
<1>6. \A t \in Tcbs : ~Mid(context'[t])
  BY <1>1, <1>3 DEF Calm
<1>7. \A p \in Prios : run_list'[p] # NULL => run_list'[p] \in Tcbs /\ context'[run_list'[p]] \notin Stops
  <2>1. \A t \in asleep : t \in Tcbs /\ Loadable(t)
    BY <1>1 DEF Calm, TypesOK
  <2>2. \A q \in Prios : run_list[q] # NULL => run_list[q] \in Tcbs /\ Loadable(run_list[q])
    BY <1>1 DEF Exact, TypesOK
  <2> QED BY <1>4, <2>1, <2>2
<1>8. Exact'
  BY <1>5, <1>7 DEF Exact
<1>9. \/ cur_tcb' = cur_tcb /\ pc' = pc /\ context' = context
      \/ /\ cur_tcb' \in Tcbs /\ cur_tcb' # IDLE_PRIO - 1 /\ pc' = context'[cur_tcb']
         /\ context'[cur_tcb'] \notin Stops
  <2>1. ASSUME cur_tcb' \in Tcbs, Listed(cur_tcb)'
        PROVE  cur_tcb' # IDLE_PRIO - 1 /\ context'[cur_tcb'] \notin Stops
    <3>1. PICK p \in Prios : run_list'[p] = cur_tcb'
      BY <2>1 DEF Listed
    <3>2. SlotOK(p, run_list'[p])
      BY DEF TypesOK, SlotOK
    <3> QED BY <1>7, <2>1, <3>1, <3>2 DEF SlotOK
  <2> QED BY <2>1 DEF Dispatched
<1>10. pc' \notin Stops /\ ~Mid(pc') /\ cur_tcb' # IDLE_PRIO - 1
  BY <1>1, <1>6, <1>9 DEF Calm
<1>11. \A t \in asleep' : t # IDLE_PRIO - 1 /\ Loadable(t)'
  <2>1. \A t \in asleep : t \in Tcbs /\ t # IDLE_PRIO - 1 /\ context'[t] \notin Stops
    BY <1>1, <1>4 DEF Calm, TypesOK
  <2>2. CASE asleep' \subseteq asleep
    BY <1>5, <2>1, <2>2
  <2>3. CASE asleep' = asleep \cup {cur_tcb} /\ cur_tcb # IDLE_PRIO /\ cur_tcb' # cur_tcb
    <3>1. context'[cur_tcb] = pc /\ cur_tcb # IDLE_PRIO - 1
      BY <1>1, <2>3 DEF Dispatched, Calm
    <3> QED BY <1>1, <1>5, <2>1, <2>3, <3>1
  <2> QED BY <2>2, <2>3
<1>12. ASSUME NEW x \in Points', Busy(x), x.op = "store_cur"
       PROVE  \E f \in Tcbs : x.reg = {f} /\ f # IDLE_PRIO - 1 /\ Loadable(f)'
  <2>1. x \in Points
    BY <1>12, PointsKept
  <2>2. PICK f \in Tcbs : x.reg = {f} /\ f # IDLE_PRIO - 1 /\ Loadable(f)
    BY <1>1, <1>12, <2>1 DEF Calm
  <2> QED BY <1>4, <1>5, <2>2
<1>13. Busy(pc') /\ pc'.op = "load_context" => cur_tcb' \in Tcbs /\ Loadable(cur_tcb)'
  <2>1. CASE cur_tcb' = cur_tcb /\ pc' = pc /\ context' = context
    <3>1. Busy(pc') /\ pc'.op = "load_context" => context'[cur_tcb'] \notin Stops
      BY <1>1, <1>2, <2>1 DEF Calm
    <3> QED BY <2>1, <3>1 DEF Loadable
  <2>2. CASE cur_tcb' \in Tcbs /\ context'[cur_tcb'] \notin Stops
    BY <2>2 DEF Loadable
  <2> QED BY <1>9, <2>1, <2>2
<1>14. Underway'
  BY <1>10 DEF Mid, Underway, Progress, Fill
<1>15. Calm'
  BY <1>6, <1>8, <1>10, <1>11, <1>12, <1>13 DEF Calm
<1> QED BY <1>14, <1>15 DEF QuietInv

\* A step of a task or of the test.
LEMMA CalmKept ==
  ASSUME QuietInv, UNCHANGED sched_vars, ~Busy(pc), pc' \notin Stops,
         Busy(pc') => pc'.op = "clear_groups"
  PROVE  QuietInv'
<1> USE PointsAre
<1>1. \A t : Loadable(t) => Loadable(t)'
  BY DEF Loadable, sched_vars
<1>2. ~Mid(pc) /\ ~Mid(pc') /\ Calm
  BY DEF Mid, QuietInv
<1>3. Exact => Exact'
  BY <1>1 DEF Exact, sched_vars, queue_vars
<1>4. \A x \in Points' : x \in Points \/ x = pc'
  BY DEF Points, sched_vars
<1>5. (\A t \in Tcbs : ~Mid(context'[t])) /\ cur_tcb' # IDLE_PRIO - 1
      /\ \A t \in asleep' : t # IDLE_PRIO - 1 /\ Loadable(t)'
  BY <1>1, <1>2 DEF sched_vars, Calm
<1>6. \A x \in Points' : Busy(x) /\ x.op = "store_cur" =>
        \E f \in Tcbs : x.reg = {f} /\ f # IDLE_PRIO - 1 /\ Loadable(f)'
  <2>1. ASSUME NEW x \in Points', Busy(x), x.op = "store_cur" PROVE x \in Points
    BY <1>4, <2>1
  <2> QED BY <1>1, <1>2, <2>1 DEF Calm
<1>7. cur_tcb' # NULL => Exact'
  BY <1>2, <1>3 DEF Calm, sched_vars
<1>8. Calm'
  BY <1>2, <1>5, <1>6, <1>7 DEF Calm, Ends
<1>9. Underway'
  BY DEF Underway, Progress, Fill
<1> QED BY <1>8, <1>9 DEF QuietInv

\* A step of the call that changes the run queue.
LEMMA CalmFill ==
  ASSUME QuietInv, UNCHANGED <<cur_tcb, context, asleep>>, Mid(pc'), Busy(pc), pc.op # "last_store"
  PROVE  Calm'
<1> USE PointsAre
<1>1. \A t : Loadable(t) => Loadable(t)'
  BY DEF Loadable
<1>2. Busy(pc') /\ pc' \notin Stops /\ pc'.op \notin {"store_cur", "load_context"} /\ Calm
  BY DEF Mid, QuietInv, Stops
<1>4. \A x \in Points' : x \in Points \/ x = pc'
  BY DEF Points
<1>5. (\A t \in Tcbs : ~Mid(context'[t])) /\ cur_tcb' # IDLE_PRIO - 1
      /\ \A t \in asleep' : t # IDLE_PRIO - 1 /\ Loadable(t)'
  BY <1>1, <1>2 DEF Calm
<1>6. \A x \in Points' : Busy(x) /\ x.op = "store_cur" =>
        \E f \in Tcbs : x.reg = {f} /\ f # IDLE_PRIO - 1 /\ Loadable(f)'
  <2>1. ASSUME NEW x \in Points', Busy(x), x.op = "store_cur" PROVE x \in Points
    BY <1>2, <1>4, <2>1
  <2> QED BY <1>1, <1>2, <2>1 DEF Calm
<1> QED BY <1>2, <1>5, <1>6 DEF Calm

LEMMA DoneIs ==
  ASSUME TypesOK, NEW n \in 0 .. num_tasks
  PROVE  Done(num_tasks, n + 1) = Done(num_tasks, n) \cup {PrioOf(n)}
BY Sizes DEF Done, TypesOK, PrioOf

\* runqueue_init.
LEMMA ClearQuiet ==
  ASSUME TypesOK, QuietInv, runqueue_init
  PROVE  QuietInv'
<1> USE Sizes, PointsAre
<1>0. /\ UNCHANGED <<cur_tcb, context, asleep, num_tasks>> /\ Busy(pc) /\ pc.op \in Clears
      /\ Busy(pc') /\ pc'.op \in {"load_group", "clear_byte", "clear_slot"}
  BY ClearIs, AllocKeeps DEF allocate_tasks
<1>1. Calm'
  <2>1. Mid(pc') /\ pc.op # "last_store"
    BY <1>0 DEF Mid, Clears
  <2> QED BY <1>0, <2>1, CalmFill
<1>2. CASE clear_groups
  <2>1. pc' = Alloc("clear_byte", 0, {}) /\ group_run_bits' = {} /\ run_bits' = run_bits
    BY <1>2 DEF clear_groups, Goto
  <2>2. \A p \in run_bits' : group_of(p) >= 0
    <3>1. ASSUME NEW p \in run_bits' PROVE group_of(p) >= 0
      <4>1. group_of(p) \in Groups
        BY <2>1, GroupsAre DEF TypesOK
      <4>2. group_of(p) \in Nat
        BY <4>1, GroupsAre
      <4> QED BY <4>2
    <3> QED BY <3>1
  <2> QED BY <1>1, <2>1, <2>2 DEF QuietInv, Underway, Progress, Fill
<1>3. CASE clear_byte
  <2>1. /\ pc' = IF pc.n + 1 \in Groups THEN Alloc("clear_byte", pc.n + 1, {})
                 ELSE Alloc("clear_slot", 0, {})
        /\ run_bits' = run_bits \ PriosOf(pc.n) /\ group_run_bits' = group_run_bits
        /\ pc.op = "clear_byte"
    BY <1>3 DEF clear_byte, At, Goto
  <2>2. pc.n \in Groups /\ group_run_bits = {} /\ \A p \in run_bits : group_of(p) >= pc.n
    BY <1>0, <2>1 DEF TypesOK, PointOK, Fill, Ends, QuietInv, Underway, Progress
  <2>3. \A p \in run_bits' : p \in Prios /\ group_of(p) \in Groups /\ group_of(p) >= pc.n /\ group_of(p) # pc.n
    BY <2>1, <2>2, GroupsAre DEF TypesOK, PriosOf
  <2>4. CASE pc.n + 1 \in Groups
    <3>1. \A p \in run_bits' : group_of(p) >= pc.n + 1
      <4>1. ASSUME NEW p \in run_bits' PROVE group_of(p) >= pc.n + 1
        <5>1. group_of(p) \in Nat /\ pc.n \in Nat
          BY <2>2, <2>3, GroupsAre
        <5> QED BY <2>3, <5>1
      <4> QED BY <4>1
    <3> QED BY <1>1, <2>1, <2>2, <2>4, <3>1 DEF QuietInv, Underway, Progress, Fill
  <2>5. CASE pc.n + 1 \notin Groups
    <3>1. ASSUME NEW k \in Groups PROVE k <= pc.n
      <4>1. group_of(IDLE_PRIO) \in Nat /\ Groups = 0 .. group_of(IDLE_PRIO)
        BY GroupsAre DEF Groups
      <4> QED BY <2>2, <2>5, <4>1
    <3>2. run_bits' = {}
      <4>1. ASSUME NEW p \in run_bits' PROVE FALSE
        <5>1. group_of(p) \in Nat /\ pc.n \in Nat /\ group_of(p) <= pc.n
          BY <2>2, <2>3, <3>1, GroupsAre
        <5> QED BY <2>3, <5>1
      <4> QED BY <4>1
    <3> QED BY <1>1, <2>1, <2>2, <2>5, <3>2 DEF QuietInv, Underway, Progress, Fill
  <2> QED BY <2>4, <2>5
<1>4. CASE clear_slot
  <2>1. /\ pc' = IF pc.n + 1 \in Prios THEN Alloc("clear_slot", pc.n + 1, {})
                 ELSE Alloc("load_group", 0, {})
        /\ run_list' = [run_list EXCEPT ![pc.n] = NULL]
        /\ UNCHANGED <<run_bits, group_run_bits>> /\ pc.op = "clear_slot"
    BY <1>4 DEF clear_slot, At, Goto
  <2>2. /\ pc.n \in Prios /\ group_run_bits = {} /\ run_bits = {}
        /\ \A p \in Prios : p < pc.n => run_list[p] = NULL
    BY <1>0, <2>1 DEF TypesOK, PointOK, Fill, Ends, QuietInv, Underway, Progress
  <2>3. \A p \in Prios : p < pc.n + 1 => run_list'[p] = NULL
    BY <2>1, <2>2 DEF TypesOK
  <2>4. CASE pc.n + 1 \in Prios
    BY <1>1, <2>1, <2>2, <2>3, <2>4 DEF QuietInv, Underway, Progress, Fill
  <2>5. CASE pc.n + 1 \notin Prios
    <3>1. Occupied(run_list') = {}
      BY <2>2, <2>3, <2>5 DEF Occupied
    <3>2. Done(num_tasks', 0) = {}
      BY DEF Done
    <3>3. GroupsOf({}) = {}
      BY DEF GroupsOf
    <3>4. pc'.n = 0 /\ pc'.op = "load_group"
      BY <2>1, <2>5
    <3>5. group_run_bits' = {} /\ run_bits' = {} /\ \A k \in 0 .. 0 - 1 : context'[k] \notin Stops
      BY <2>1, <2>2
    <3>6. Progress("load_group", 0)'
      BY <3>1, <3>2, <3>3, <3>4, <3>5 DEF Progress, Fill, AddOps
    <3> QED BY <1>1, <3>4, <3>6 DEF QuietInv, Underway
  <2> QED BY <2>4, <2>5
<1> QED BY <1>2, <1>3, <1>4 DEF runqueue_init

\* runqueue_add.
LEMMA AddQuiet ==
  ASSUME TypesOK, QuietInv, runqueue_add
  PROVE  QuietInv'
<1> USE Sizes, PointsAre
<1>n. PICK n : n = pc.n
  OBVIOUS
<1>0. /\ UNCHANGED <<cur_tcb, context, asleep, num_tasks>> /\ Busy(pc) /\ pc.op \in AddOps
      /\ Busy(pc') /\ pc'.op \in AddOps \cup {"first_store"} /\ pc'.n = n /\ n \in 0 .. num_tasks
  BY <1>n, AddIs, AllocKeeps DEF allocate_tasks
<1>1. Calm'
  <2>1. Mid(pc') /\ pc.op # "last_store"
    BY <1>0 DEF Mid, AddOps
  <2> QED BY <1>0, <2>1, CalmFill
<1>2. Progress(pc.op, n)
  BY <1>0, <1>n DEF QuietInv, Underway
<1>3. /\ PrioOf(n) \in Prios /\ TcbOf(n) \in Tcbs /\ PrioOf(n) \in PriosOf(GroupOf(n))
      /\ GroupOf(n) = group_of(PrioOf(n))
  BY <1>0, PlacesOf DEF GroupOf
<1>4. Done(num_tasks, n + 1) = Done(num_tasks, n) \cup {PrioOf(n)}
  BY <1>0, DoneIs
<1>5. GroupsOf(Done(num_tasks, n + 1)) = GroupsOf(Done(num_tasks, n)) \cup {GroupOf(n)}
  BY <1>3, <1>4 DEF GroupsOf
<1>6. /\ \A k \in 0 .. n - 1 : context'[k] \notin Stops
      /\ TcbOf(n)' = TcbOf(n) /\ PrioOf(n)' = PrioOf(n) /\ GroupOf(n)' = GroupOf(n)
  BY <1>0, <1>2 DEF Progress, Fill, AddOps, TcbOf, PrioOf, GroupOf
<1> SUFFICES Progress(pc.op, n)'
  BY <1>0, <1>1 DEF QuietInv, Underway
<1>7. CASE load_group
  <2>1. pc' = Alloc("store_group", n, group_run_bits) /\ pc.op = "load_group"
        /\ UNCHANGED <<group_run_bits, run_bits, run_list>>
    BY <1>7, <1>n DEF load_group, At, sched_vars, queue_vars
  <2> QED BY <1>0, <1>2, <1>4, <1>6, <2>1 DEF Progress, Fill, AddOps
<1>8. CASE store_group
  <2>1. pc' = Alloc("load_byte", n, {}) /\ pc.op = "store_group"
        /\ group_run_bits' = pc.reg \cup {GroupOf(n)} /\ UNCHANGED <<run_bits, run_list>>
    BY <1>8, <1>n DEF store_group, At, Goto
  <2>2. group_run_bits' = GroupsOf(Done(num_tasks, n + 1))
    BY <1>2, <1>5, <1>n, <2>1 DEF Progress, Fill
  <2> QED BY <1>0, <1>2, <1>4, <1>6, <2>1, <2>2 DEF Progress, Fill, AddOps
<1>9. CASE load_byte
  <2>1. pc' = Alloc("store_byte", n, run_bits \cap PriosOf(GroupOf(n))) /\ pc.op = "load_byte"
        /\ UNCHANGED <<group_run_bits, run_bits, run_list>>
    BY <1>9, <1>n DEF load_byte, At, sched_vars, queue_vars
  <2>2. pc'.reg = run_bits' \cap PriosOf(GroupOf(n)) /\ pc'.op = "store_byte"
    BY <2>1
  <2> QED BY <1>0, <1>2, <1>4, <1>6, <2>1, <2>2 DEF Progress, Fill, AddOps
<1>10. CASE store_byte
  <2>1. pc' = Alloc("store_slot", n, {}) /\ pc.op = "store_byte"
        /\ run_bits' = (run_bits \ PriosOf(GroupOf(n))) \cup Added(pc.reg, n)
        /\ UNCHANGED <<group_run_bits, run_list>>
    BY <1>10, <1>n DEF store_byte, At, Goto
  <2>2. pc.reg = run_bits \cap PriosOf(GroupOf(n)) /\ run_bits = Done(num_tasks, n)
    BY <1>0, <1>2, <1>n, <2>1 DEF Progress, Fill
  <2>3. run_bits' = Done(num_tasks, n + 1)
    BY <1>n, <1>4, <2>1, <2>2 DEF Added
  <2> QED BY <1>0, <1>2, <1>4, <1>6, <2>1, <2>3 DEF Progress, Fill, AddOps
<1>11. CASE store_slot
  <2>1. pc' = Alloc("first_store", n, {}) /\ pc.op = "store_slot"
        /\ run_list' = [run_list EXCEPT ![PrioOf(n)] = TcbOf(n)]
        /\ UNCHANGED <<group_run_bits, run_bits>>
    BY <1>11, <1>n DEF store_slot, At, Goto
  <2>2. Occupied(run_list) = Done(num_tasks, n)
    BY <1>0, <1>2, <1>n, <2>1 DEF Progress, Fill, AddOps
  <2>3. run_list'[PrioOf(n)] = TcbOf(n) /\ TcbOf(n) # NULL
        /\ \A p \in Prios : p # PrioOf(n) => run_list'[p] = run_list[p]
    BY <1>3, <2>1 DEF TypesOK
  <2>4. Occupied(run_list') = Done(num_tasks, n + 1)
    BY <1>3, <1>4, <2>2, <2>3 DEF Occupied
  <2> QED BY <1>0, <1>2, <1>4, <1>6, <2>1, <2>3, <2>4 DEF Progress, Fill, AddOps
<1> QED BY <1>7, <1>8, <1>9, <1>10, <1>11 DEF runqueue_add

\* The stores of a context.
LEMMA ContextQuiet ==
  ASSUME TypesOK, QuietInv, first_store \/ last_store
  PROVE  QuietInv'
<1> USE Sizes, PointsAre
<1>n. PICK n, t0 : n = pc.n /\ t0 = TcbOf(pc.n)
  OBVIOUS
<1>0. /\ UNCHANGED <<cur_tcb, asleep, num_tasks, queue_vars>> /\ Busy(pc) /\ Busy(pc')
      /\ n \in 0 .. num_tasks /\ t0 \in Tcbs /\ DOMAIN context' = Tcbs /\ num_tasks \in 0 .. IDLE_PRIO
      /\ \A t \in Tcbs : t # t0 => context'[t] = context[t]
  BY <1>n, ContextIs, AllocKeeps, PlacesOf DEF allocate_tasks, TypesOK
<1>2. Progress(pc.op, n) /\ Calm
  BY <1>0, <1>n DEF QuietInv, Underway
<1>3. pc.op \in Fill
  BY ContextIs DEF Fill
<1>4. Done(num_tasks, n + 1) = Done(num_tasks, n) \cup {PrioOf(n)}
  BY <1>0, DoneIs
<1>6. TcbOf(n) = t0 /\ TcbOf(n)' = t0 /\ PrioOf(n)' = PrioOf(n)
  BY <1>0, <1>n DEF TcbOf, PrioOf
<1>7. ASSUME \A t \in Tcbs : Loadable(t) => Loadable(t)', Mid(pc') \/ pc'.op = "find_task",
             \A t \in Tcbs : ~Mid(context'[t]), ~Mid(pc') => Exact'
      PROVE  Calm'
  <2>1. pc' \notin Stops /\ pc'.op \notin {"store_cur", "load_context"}
    BY <1>0, <1>7 DEF Stops, Mid
  <2>2. \A t \in asleep' : t # IDLE_PRIO - 1 /\ Loadable(t)'
    BY <1>0, <1>2, <1>7 DEF Calm, TypesOK
  <2>3. ASSUME NEW x \in Points', Busy(x), x.op = "store_cur"
        PROVE  \E f \in Tcbs : x.reg = {f} /\ f # IDLE_PRIO - 1 /\ Loadable(f)'
    <3>1. x \in Points
      <4>1. PICK t \in Tcbs : x = context'[t]
        BY <2>1, <2>3 DEF Points
      <4>2. t # t0
        <5>1. context'[t0] \in {Mixed, NewTask}
          BY <1>n, ContextIs
        <5> QED BY <2>3, <4>1, <5>1 DEF NewTask
      <4> QED BY <1>0, <4>1, <4>2 DEF Points
    <3> QED BY <1>2, <1>7, <2>3, <3>1 DEF Calm
  <2> QED BY <1>0, <1>2, <1>7, <2>1, <2>2, <2>3 DEF Calm
<1>8. \A t \in Tcbs : ~Mid(context'[t])
  <2>1. context'[t0] \in {Mixed, NewTask}
    BY <1>n, ContextIs
  <2>2. ~Mid(Mixed) /\ ~Mid(NewTask)
    BY DEF Mid, NewTask
  <2> QED BY <1>0, <1>2, <2>1, <2>2 DEF Calm
<1>9. \A k \in 0 .. n - 1 : k \in Tcbs /\ k # t0
  BY <1>0, <1>n DEF TcbOf
<1>10. CASE pc.op = "first_store"
  <2>1. pc'.op = "last_store" /\ pc'.n = n /\ context'[t0] = Mixed
    BY <1>10, <1>n, ContextIs
  <2>2. \A t \in Tcbs : Loadable(t) => Loadable(t)'
    BY <1>0, <1>n, <1>6, <1>10, <2>1 DEF Loadable
  <2>3. Mid(pc')
    BY <1>0, <2>1 DEF Mid
  <2>4. Calm'
    BY <1>7, <1>8, <2>2, <2>3
  <2>5. \A k \in 0 .. n - 1 : context'[k] \notin Stops
    BY <1>0, <1>2, <1>3, <1>9 DEF Progress
  <2>6. Progress("last_store", n)'
    BY <1>0, <1>2, <1>4, <1>6, <1>10, <2>1, <2>5 DEF Progress, Fill, AddOps, queue_vars
  <2> QED BY <2>1, <2>4, <2>6 DEF QuietInv, Underway
<1>11. CASE pc.op = "last_store"
  <2>1. context[t0] = Mixed /\ context'[t0] = NewTask
    BY <1>2, <1>3, <1>11, <1>n, ContextIs DEF Progress
  <2>2. NewTask \notin Stops
    BY DEF NewTask, Stops
  <2>3. \A t \in Tcbs : Loadable(t) => context'[t] \notin Stops
    BY <1>0, <1>n, <1>11, <2>1, <2>2 DEF Loadable
  <2>4. \A t \in Tcbs : Loadable(t) => Loadable(t)'
    BY <2>3 DEF Loadable
  <2>5. \A k \in 0 .. n : k < num_tasks => k \in Tcbs /\ context'[k] \notin Stops
    <3>1. \A k \in 0 .. n - 1 : context'[k] \notin Stops
      BY <1>0, <1>2, <1>3, <1>9 DEF Progress
    <3>2. n < num_tasks => t0 = n
      BY <1>0, <1>n DEF TcbOf
    <3> QED BY <1>0, <2>1, <2>2, <3>1, <3>2
  <2>6. group_run_bits' = GroupsOf(Done(num_tasks, n + 1)) /\ run_bits' = Done(num_tasks, n + 1)
        /\ Occupied(run_list') = Done(num_tasks, n + 1) /\ run_list'[PrioOf(n)] = t0
    BY <1>0, <1>2, <1>6, <1>11 DEF Progress, Fill, AddOps, queue_vars
  <2>7. CASE n < num_tasks
    <3>1. pc'.op = "load_group" /\ pc'.n = n + 1
      BY <1>11, <2>7, <1>n, ContextIs
    <3>2. Mid(pc')
      BY <1>0, <3>1 DEF Mid
    <3>3. Calm'
      BY <1>7, <1>8, <2>4, <3>2
    <3>4. \A k \in 0 .. (n + 1) - 1 : context'[k] \notin Stops
      BY <1>0, <2>5, <2>7
    <3>5. Progress("load_group", n + 1)'
      BY <1>0, <1>4, <2>6, <3>1, <3>4 DEF Progress, Fill, AddOps
    <3> QED BY <3>1, <3>3, <3>5 DEF QuietInv, Underway
  <2>8. CASE n = num_tasks
    <3>1. pc'.op = "find_task" /\ ~Mid(pc')
      BY <1>11, <2>8, <1>n, ContextIs DEF Mid
    <3>2. run_list'[IDLE_PRIO] = IDLE_PRIO /\ t0 = IDLE_PRIO
      BY <1>n, <2>6, <2>8 DEF PrioOf, TcbOf
    <3>3. ASSUME NEW p \in Prios, run_list'[p] # NULL PROVE context'[run_list'[p]] \notin Stops
      <4>1. PICK k \in 0 .. num_tasks : p = PrioOf(k)
        <5>1. p \in Done(num_tasks, num_tasks + 1) /\ num_tasks \in Nat
          BY <1>0, <2>6, <2>8, <3>3 DEF Occupied
        <5>2. PICK j \in 0 .. (num_tasks + 1) - 1 : p = IF j = num_tasks THEN IDLE_PRIO ELSE j + 1
          BY <5>1 DEF Done
        <5>3. j \in 0 .. num_tasks /\ p = PrioOf(j)
          BY <5>1, <5>2 DEF PrioOf
        <5> QED BY <5>3
      <4>2. SlotOK(p, run_list'[p])
        BY <1>0 DEF TypesOK, queue_vars
      <4>3. CASE p = IDLE_PRIO
        BY <2>1, <2>2, <3>2, <4>3
      <4>4. CASE p # IDLE_PRIO
        <5>1. p = k + 1 /\ k < num_tasks
          BY <1>0, <4>1, <4>4 DEF PrioOf
        <5>2. run_list'[p] = k
          BY <3>3, <4>2, <4>4, <5>1 DEF SlotOK
        <5> QED BY <2>5, <2>8, <5>1, <5>2
      <4> QED BY <4>3, <4>4
    <3>4. Exact'
      BY <2>6, <3>2, <3>3 DEF Exact, Loadable
    <3>5. Calm'
      BY <1>7, <1>8, <2>4, <3>1, <3>4
    <3> QED BY <3>1, <3>5 DEF QuietInv, Underway, Progress, Fill
  <2> QED BY <1>0, <2>7, <2>8
<1> QED BY <1>10, <1>11, ContextIs

\* The dispatch of the set.
LEMMA EndQuiet ==
  ASSUME TypesOK, QuietInv, find_task \/ store_cur \/ load_context
  PROVE  QuietInv'
<1> USE Sizes, PointsAre
<1>0. UNCHANGED <<context, asleep, num_tasks, queue_vars>> /\ Busy(pc) /\ pc.op \in Ends /\ ~Mid(pc)
  BY EndIs, AllocKeeps DEF allocate_tasks, Mid, Ends
<1>1. Calm /\ Exact
  BY <1>0 DEF QuietInv, Calm
<1>2. \A t : Loadable(t) => context'[t] \notin Stops
  BY <1>0 DEF Loadable, Ends
<1>3. \A t : context'[t] \notin Stops => Loadable(t)'
  BY DEF Loadable
<1>4. Exact'
  BY <1>0, <1>1, <1>2, <1>3 DEF Exact, queue_vars
<1>5. ASSUME pc' \notin Stops, ~Mid(pc'), cur_tcb' # IDLE_PRIO - 1,
             Busy(pc') /\ pc'.op = "load_context" => cur_tcb' \in Tcbs /\ Loadable(cur_tcb)',
             pc' \in Points \/
               (\E f \in Tcbs : pc'.reg = {f} /\ f # IDLE_PRIO - 1 /\ Loadable(f)) \/
               pc'.op # "store_cur"
      PROVE  QuietInv'
  <2>1. \A x \in Points' : x \in Points \/ x = pc'
    BY <1>0 DEF Points
  <2>2. \A x \in Points' : Busy(x) /\ x.op = "store_cur" =>
          \E f \in Tcbs : x.reg = {f} /\ f # IDLE_PRIO - 1 /\ Loadable(f)'
    <3>1. ASSUME NEW x \in Points', Busy(x), x.op = "store_cur"
          PROVE  \E f \in Tcbs : x.reg = {f} /\ f # IDLE_PRIO - 1 /\ Loadable(f)
      <4>1. CASE x \in Points
        BY <1>1, <3>1, <4>1 DEF Calm
      <4>2. CASE x \notin Points
        BY <1>5, <2>1, <3>1, <4>2
      <4> QED BY <4>1, <4>2
    <3> QED BY <1>2, <1>3, <3>1
  <2>3. (\A t \in Tcbs : ~Mid(context'[t])) /\ \A t \in asleep' : t # IDLE_PRIO - 1 /\ Loadable(t)'
    BY <1>0, <1>1, <1>2, <1>3 DEF Calm
  <2>4. Calm'
    BY <1>4, <1>5, <2>2, <2>3 DEF Calm
  <2>5. Underway'
    BY <1>5 DEF Underway, Mid, Progress, Fill
  <2> QED BY <2>4, <2>5 DEF QuietInv
<1>6. CASE pc.op = "find_task"
  <2>1. PICK list \in [Prios -> TcbPointers] : list = run_list
    BY DEF TypesOK
  <2>2. PICK bits, groups : bits = run_bits /\ groups = group_run_bits
    OBVIOUS
  <2>3. PICK h : h = list[highest_prio_of(groups, bits)]
    OBVIOUS
  <2>4. h \in Tcbs /\ h # IDLE_PRIO - 1 /\ \E p \in Prios : list[p] = h
    BY <1>1, <2>1, <2>2, <2>3, SearchFinds DEF TypesOK, Exact
  <2>5. Loadable(h)
    BY <1>1, <2>1, <2>4 DEF Exact
  <2>6. pc' = Alloc("store_cur", pc.n, {h}) /\ cur_tcb' = cur_tcb
    BY <1>6, <2>1, <2>2, <2>3, EndIs
  <2>7. pc' \notin Stops /\ ~Mid(pc') /\ pc'.op # "load_context" /\ pc'.reg = {h}
    BY <2>6 DEF Stops, Mid
  <2> QED BY <1>1, <1>5, <2>4, <2>5, <2>6, <2>7 DEF Calm
<1>7. CASE pc.op = "store_cur"
  <2>1. PICK f \in Tcbs : pc.reg = {f} /\ f # IDLE_PRIO - 1 /\ Loadable(f)
    BY <1>0, <1>1, <1>7 DEF Calm, Points
  <2>2. cur_tcb' = f /\ pc' = Alloc("load_context", pc.n, {})
    BY <1>7, <2>1, EndIs
  <2>3. pc' \notin Stops /\ ~Mid(pc') /\ pc'.op = "load_context"
    BY <2>2 DEF Stops, Mid
  <2>4. Loadable(cur_tcb)'
    BY <1>2, <2>1, <2>2 DEF Loadable
  <2> QED BY <1>5, <2>1, <2>2, <2>3, <2>4
<1>8. CASE pc.op = "load_context"
  <2>1. cur_tcb \in Tcbs /\ Loadable(cur_tcb)
    BY <1>0, <1>1, <1>8 DEF Calm
  <2>2. cur_tcb' = cur_tcb /\ pc' = context[cur_tcb]
    BY <1>8, <2>1, EndIs
  <2>3. pc' \notin Stops /\ ~Mid(pc') /\ pc' \in Points /\ Loadable(cur_tcb)'
    BY <1>0, <1>1, <1>2, <2>1, <2>2 DEF Calm, Points, Loadable
  <2> QED BY <1>1, <1>5, <2>1, <2>2, <2>3 DEF Calm
<1> QED BY <1>0, <1>6, <1>7, <1>8 DEF Ends

LEMMA QuietStep ==
  ASSUME PlacesInv, PlacesInv', ~hit', hit \in BOOLEAN, ~hit => QuietInv, [Next]_vars
  PROVE  QuietInv'
<1> USE Sizes, PointsAre
<1>0. TypesOK /\ TypesOK'
  BY DEF PlacesInv
<1>1. CASE timer_irq
  <2>1. QuietInv /\ ~Mid(pc) /\ cur_tcb \in Tcbs
    BY <1>0, <1>1, TimerIs DEF Mid, Busy, Replacing
  <2>2. Exact /\ (\A t \in asleep : t # IDLE_PRIO - 1) /\ cur_tcb # NULL
    BY <2>1 DEF QuietInv, Calm
  <2>3. /\ run_bits' = Occupied(run_list') /\ group_run_bits' = GroupsOf(run_bits')
        /\ run_list'[IDLE_PRIO] = IDLE_PRIO
        /\ \A p \in Prios : run_list'[p] # NULL =>
             run_list'[p] \in asleep \/ \E q \in Prios : run_list'[p] = run_list[q]
    BY <1>0, <1>1, <2>2, WokenExact
  <2>4. PICK list, bits, groups, h :
          /\ list \in [Prios -> TcbPointers]
          /\ list = run_list' /\ bits = run_bits' /\ groups = group_run_bits'
          /\ h = list[highest_prio_of(groups, bits)]
    BY <1>0 DEF TypesOK
  <2>5. \A p \in Prios : SlotOK(p, list[p])
    BY <1>0, <1>1, <2>4, TimerIs
  <2>6. h \in Tcbs
    BY <2>3, <2>4, <2>5, SearchFinds
  <2>7. cur_tcb' # NULL
    <3>1. dispatch_save(h)
      BY <1>0, <1>1, <2>4, TimerIs
    <3> QED BY <2>1, <2>6, <3>1 DEF dispatch_save, switch_to
  <2>8. Dispatched /\ asleep' \subseteq asleep
    BY <1>0, <1>1, TimerIs
  <2> QED BY <1>0, <2>1, <2>3, <2>7, <2>8, DispatchedCalm
<1>2. ASSUME NEW c \in Tcbs, event_wait(c) PROVE QuietInv'
  <2>1. QuietInv /\ ~Mid(pc) /\ c = cur_tcb /\ c # IDLE_PRIO
    BY <1>0, <1>2, WaitIs DEF Mid, Busy
  <2>2. Exact /\ c # IDLE_PRIO - 1 /\ cur_tcb # NULL
    BY <2>1 DEF QuietInv, Calm
  <2>3. /\ run_bits' = Occupied(run_list') /\ group_run_bits' = GroupsOf(run_bits')
        /\ run_list'[IDLE_PRIO] = IDLE_PRIO
        /\ \A p \in Prios : run_list'[p] # NULL => \E q \in Prios : run_list'[p] = run_list[q]
    BY <1>0, <1>2, <2>2, WaitExact
  <2>4. PICK list, bits, groups, h :
          /\ list \in [Prios -> TcbPointers]
          /\ list = run_list' /\ bits = run_bits' /\ groups = group_run_bits'
          /\ h = list[highest_prio_of(groups, bits)]
    BY <1>0 DEF TypesOK
  <2>5. \A p \in Prios : SlotOK(p, list[p])
    BY <1>0, <1>2, <2>4, WaitIs
  <2>6. h \in Tcbs /\ \E p \in Prios : list[p] = h
    BY <2>3, <2>4, <2>5, SearchFinds
  <2>7. cur_tcb' = h /\ Dispatched /\ asleep' = asleep \cup {c} /\ list[c + 1] = NULL
    BY <1>0, <1>2, <2>1, <2>4, WaitIs
  <2>8. cur_tcb' # NULL /\ cur_tcb' # cur_tcb
    BY <2>1, <2>5, <2>6, <2>7 DEF SlotOK
  <2> QED BY <1>0, <2>1, <2>3, <2>7, <2>8, DispatchedCalm
<1>3. ASSUME NEW c \in TcbPointers, task_create(c) PROVE QuietInv'
  <2>1. QuietInv /\ UNCHANGED sched_vars /\ ~Busy(pc) /\ pc' = Testing
    BY <1>3 DEF task_create, InUser, Busy
  <2>2. Testing \notin Stops
    BY DEF Stops
  <2> QED BY <2>1, <2>2, CalmKept
<1>4. CASE test_step
  <2>1. QuietInv /\ UNCHANGED sched_vars /\ pc = Testing /\ pc' = pc
    BY <1>4 DEF test_step
  <2>2. Testing \notin Stops
    BY DEF Stops
  <2> QED BY <2>1, <2>2, CalmKept
<1>5. CASE refused
  <2>1. QuietInv /\ UNCHANGED sched_vars /\ pc = Testing /\ pc' \in {User(0), User(1)}
    BY <1>5 DEF refused
  <2>2. ~Busy(pc') /\ pc' \notin Stops
    BY <2>1 DEF Stops
  <2> QED BY <2>1, <2>2, CalmKept
<1>6. CASE admitted
  <2>1. QuietInv /\ UNCHANGED sched_vars /\ pc = Testing /\ pc' = Alloc("clear_groups", 0, {})
    BY <1>6 DEF admitted
  <2>2. pc' \notin Stops
    BY <2>1 DEF Stops
  <2> QED BY <2>1, <2>2, CalmKept
<1>7. CASE allocate_tasks
  <2>1. QuietInv
    BY <1>7, AllocKeeps
  <2> QED BY <1>0, <1>7, <2>1, AllocateCases, ClearQuiet, AddQuiet, ContextQuiet, EndQuiet
<1>8. CASE UNCHANGED vars
  <2>1. QuietInv /\ UNCHANGED <<sched_vars, pc, num_tasks>>
    BY <1>8 DEF vars
  <2>2. UNCHANGED <<cur_tcb, group_run_bits, run_bits, run_list, asleep, context, pc, num_tasks>>
    BY <2>1 DEF sched_vars, queue_vars
  <2>3. Points' = Points /\ \A t : Loadable(t)' <=> Loadable(t)
    BY <2>2 DEF Points, Loadable, TcbOf
  <2>4. Exact' <=> Exact
    BY <2>2, <2>3 DEF Exact
  <2>5. Calm'
    BY <2>1, <2>2, <2>3, <2>4 DEF QuietInv, Calm
  <2>6. Underway'
    BY <2>1, <2>2 DEF QuietInv, Underway, Progress, TcbOf, PrioOf, GroupOf
  <2> QED BY <2>5, <2>6 DEF QuietInv
<1> QED BY <1>1, <1>2, <1>3, <1>4, <1>5, <1>6, <1>7, <1>8 DEF Next

LEMMA InitQuiet == Init => QuietInv
<1>1. Init => Calm
  BY Sizes, PointsAre DEF Init, Calm, Stops, Points, Mid, Busy
<1>2. Init => Underway
  BY PointsAre DEF Init, Underway
<1> QED BY <1>1, <1>2 DEF QuietInv

LEMMA HitStep ==
  ASSUME hit \in BOOLEAN, [Next]_vars PROVE hit' \in BOOLEAN
<1>1. allocate_tasks => hit' = hit
  BY AllocKeeps
<1>2. timer_irq => hit' \in BOOLEAN
  <2>1. timer_irq => hit' = (hit \/ Replacing)
    BY DEF timer_irq
  <2>2. (hit \/ Replacing) \in BOOLEAN
    BY DEF Replacing
  <2> QED BY <2>1, <2>2
<1> QED BY <1>1, <1>2 DEF Next, task_create, event_wait, test_step, refused, admitted, vars

\* No dispatcher goes through the null pointer or loads a context that is not there
\* (ctx_switch.c:19-65), for sets and groups of any size: an interrupt from the first
\* store of runqueue_init to the last one of the idle task's context
\* (sched.c:73-94) is needed for that.
THEOREM DispatchAlwaysFinds == Spec => []DispatchFindsTask
<1> DEFINE Inv == PlacesInv /\ hit \in BOOLEAN /\ (~hit => QuietInv)
<1>1. Init => Inv
  BY InitPlaces, InitQuiet DEF Init
<1>2. Inv /\ [Next]_vars => Inv'
  BY PlacesStep, HitStep, QuietStep
<1>3. Inv => DispatchFindsTask
  BY DEF QuietInv, Calm, Stops, DispatchFindsTask
<1> QED BY <1>1, <1>2, <1>3, PTL DEF Spec

------------------------------------------------------------------------------
(* The tasks of the second set are all there.                                *)

Calls(x) == x = Testing \/ (Busy(x) /\ x.op # "load_context")
Clearing(x) == Busy(x) /\ x.op \in Clears
Filling(x) == Busy(x) /\ x.op \in Fill \cup Ends

\* The first n tasks are in their slots or wait for a device.
Full(n) ==
  \A k \in 0 .. n - 1 : k < num_tasks /\ k + 1 # IDLE_PRIO => run_list[k + 1] = k \/ k \in asleep

FullAt(x) ==
  Busy(x) =>
    /\ x.op \in Fill => Full(IF x.op \in AddOps THEN x.n ELSE x.n + 1)
    /\ x.op \in Ends => Full(num_tasks)

\* c has been taken out of its slot, and is not put back if it is not in the set.
Out(c, x) ==
  /\ Busy(x)
  /\ \/ x.op = "clear_slot" /\ x.n > c + 1
     \/ c >= num_tasks /\ x.op \in Fill \cup {"find_task", "store_cur"}

\* c runs no more.
Gone(c) == run_list[c + 1] # c /\ c \notin asleep /\ cur_tcb # c

\* Its context has not been replaced yet.
Before(c, x) ==
  /\ Busy(x)
  /\ IF c < num_tasks THEN x.op \in Fill /\ (x.n < c \/ (x.n = c /\ x.op # "last_store"))
     ELSE x.op \in Fill \cup {"find_task", "store_cur"}

Late == stage = "replaced" \/ \E x \in Points : Filling(x)

\* c makes the call.
CallerInv(c) ==
  /\ \A t \in Tcbs : t # c => ~Calls(context[t])
  /\ Calls(pc) => cur_tcb = c /\ c \notin asleep
  /\ Calls(context[c]) => c \notin asleep /\ (cur_tcb = c => Busy(pc) \/ pc = Testing)
  /\ Out(c, pc) => run_list[c + 1] # c /\ (pc.op = "store_cur" => c \notin pc.reg)
  /\ Out(c, context[c]) => Gone(c)
  /\ Late => ~Clearing(pc)
  /\ Late /\ Clearing(context[c]) => Gone(c) \/ (cur_tcb = c /\ Before(c, pc))

\* While the first set runs, and while a list is tested.
StartInv ==
  /\ stage = "first" => /\ asleep = {} /\ \A t \in Tcbs : context[t] # Testing
                        /\ cur_tcb = NULL \/ Busy(pc)
  /\ stage = "running" => /\ pc # Testing
                          /\ \A t \in Tcbs : context[t] = Testing =>
                               t = cur_tcb /\ t # IDLE_PRIO /\ pc.at = "user"
  /\ stage \notin {"first", "refused"} /\ cur_tcb = NULL => pc = Lost \/ Busy(pc)
  /\ stage \in {"first", "running"} \/ phase # "none" =>
       cur_tcb \notin asleep /\ \A p \in Prios : run_list[p] \notin asleep

There == stage \in {"running", "replaced"} \/ (stage = "replacing" /\ phase # "none")

FullInv ==
  /\ \A x \in Points : FullAt(x)
  /\ There => Full(num_tasks)

CompleteInv ==
  /\ FullInv
  /\ stage \in {"replacing", "replaced"} => \E c \in Tcbs \ {IDLE_PRIO} : CallerInv(c)

\* A task that has its slot or sleeps does so after a step that clears no slot.
LEMMA FullKept ==
  ASSUME TypesOK, num_tasks' = num_tasks,
         \A p \in Prios : p # IDLE_PRIO /\ run_list[p] = p - 1 => run_list'[p] = p - 1 \/ p - 1 \in asleep',
         \A t \in asleep : t \in asleep' \/ run_list'[t + 1] = t
  PROVE  /\ \A n \in Nat : Full(n) => Full(n)'
         /\ \A x : FullAt(x) => (PointOK(num_tasks, x) => FullAt(x)')
<1> USE Sizes
<1>1. num_tasks \in 0 .. IDLE_PRIO
  BY DEF TypesOK
<1>2. ASSUME NEW n \in Nat, Full(n) PROVE Full(n)'
  <2> SUFFICES ASSUME NEW k \in 0 .. n - 1, k < num_tasks, k + 1 # IDLE_PRIO
               PROVE  run_list'[k + 1] = k \/ k \in asleep'
    BY DEF Full
  <2>1. k + 1 \in Prios /\ (k + 1) - 1 = k /\ (run_list[k + 1] = k \/ k \in asleep)
    BY <1>1, <1>2 DEF Full
  <2> QED BY <2>1
<1>3. ASSUME NEW x, FullAt(x), PointOK(num_tasks, x) PROVE FullAt(x)'
  <2>1. Busy(x) /\ x.op \in Fill => x.n \in Nat /\ x.n + 1 \in Nat
    BY <1>1, <1>3, PointsAre DEF PointOK, Fill, Ends
  <2>2. Busy(x) /\ x.op \in Fill => Full(IF x.op \in AddOps THEN x.n ELSE x.n + 1)'
    BY <1>2, <1>3, <2>1 DEF FullAt
  <2>3. Busy(x) /\ x.op \in Ends => Full(num_tasks)'
    BY <1>1, <1>2, <1>3 DEF FullAt
  <2> QED BY <2>2, <2>3 DEF FullAt
<1> QED BY <1>2, <1>3

LEMMA DispatchedFull ==
  ASSUME TypesOK, FullInv, Dispatched, UNCHANGED <<ub_vars, num_tasks, stage>>,
         \A p \in Prios : p # IDLE_PRIO /\ run_list[p] = p - 1 => run_list'[p] = p - 1 \/ p - 1 \in asleep',
         \A t \in asleep : t \in asleep' \/ run_list'[t + 1] = t
  PROVE  FullInv'
<1>1. \A x \in Points : PointOK(num_tasks, x)
  BY DEF TypesOK, Points
<1>2. \A x \in Points : FullAt(x)'
  BY <1>1, FullKept DEF FullInv
<1>3. FullAt(Lost)'
  BY PointsAre DEF FullAt
<1>4. \A x \in Points' : FullAt(x)'
  BY <1>2, <1>3, PointsKept
<1>5. num_tasks \in Nat
  BY Sizes DEF TypesOK
<1>6. There' => Full(num_tasks)'
  <2>1. Full(num_tasks) => Full(num_tasks)'
    <3>1. PICK m \in Nat : m = num_tasks
      BY <1>5
    <3>2. Full(m) => Full(m)'
      BY FullKept
    <3> QED BY <3>1, <3>2
  <2> QED BY <2>1 DEF FullInv, There, ub_vars
<1> QED BY <1>4, <1>6 DEF FullInv

LEMMA FullStep ==
  ASSUME PlacesInv, FullInv, [Next]_vars,
         stage \in {"replacing", "replaced"} => (Late => ~Clearing(pc))
  PROVE  FullInv'
<1> USE Sizes, PointsAre
<1>0. TypesOK /\ CallInv /\ num_tasks \in 0 .. IDLE_PRIO /\ pc \in Points
      /\ \A x \in Points : PointOK(num_tasks, x)
  BY DEF PlacesInv, TypesOK, Points
<1>1. CASE timer_irq
  <2>1. /\ Dispatched /\ UNCHANGED <<ub_vars, num_tasks, stage>>
        /\ \A p \in Prios : run_list'[p] = IF p - 1 \in asleep \ asleep' THEN p - 1 ELSE run_list[p]
    BY <1>0, <1>1, TimerIs
  <2>2. \A t \in asleep : t + 1 \in Prios /\ (t + 1) - 1 = t
    BY <1>0 DEF TypesOK
  <2>3. \A t \in asleep : t \in asleep' \/ run_list'[t + 1] = t
    BY <2>1, <2>2
  <2> QED BY <1>0, <2>1, <2>3, DispatchedFull
<1>2. ASSUME NEW c \in Tcbs, event_wait(c) PROVE FullInv'
  <2>1. /\ Dispatched /\ UNCHANGED <<ub_vars, num_tasks, stage>> /\ asleep' = asleep \cup {c}
        /\ \A p \in Prios : run_list'[p] = IF p = c + 1 THEN NULL ELSE run_list[p]
    BY <1>0, <1>2, WaitIs
  <2>2. \A p \in Prios : run_list[p] = p - 1 => run_list'[p] = p - 1 \/ p - 1 \in asleep'
    BY <2>1
  <2> QED BY <1>0, <2>1, <2>2, DispatchedFull
<1>3. ASSUME UNCHANGED <<run_list, asleep, num_tasks, context>>, There' => There,
             ~Busy(pc') \/ pc' = pc
      PROVE  FullInv'
  <2>1. \A n : Full(n) <=> Full(n)'
    BY <1>3 DEF Full
  <2>2. \A x \in Points : FullAt(x)'
    BY <1>3, <2>1 DEF FullAt, FullInv
  <2>3. \A x \in Points' : x \in Points \/ ~Busy(x)
    BY <1>0, <1>3 DEF Points
  <2>4. \A x \in Points' : FullAt(x)'
    BY <2>2, <2>3 DEF FullAt
  <2> QED BY <1>3, <2>1, <2>4 DEF FullInv
<1>4. ASSUME NEW c \in TcbPointers, task_create(c) PROVE FullInv'
  <2>1. UNCHANGED sched_vars /\ num_tasks' = num_tasks /\ pc' = Testing
        /\ ((stage = "first" /\ stage' = "first") \/ stage = "running")
    BY <1>4 DEF task_create
  <2>2. There' => There
    BY <2>1 DEF There
  <2> QED BY <1>3, <2>1, <2>2 DEF sched_vars, queue_vars
<1>5. CASE test_step
  <2>1. UNCHANGED <<sched_vars, num_tasks, pc, stage>> /\ phase # "none"
    BY <1>5 DEF test_step, sorttasks, assign_schedule
  <2> QED BY <1>3, <2>1 DEF sched_vars, queue_vars, There
<1>6. CASE refused
  <2>1. UNCHANGED <<sched_vars, num_tasks>> /\ phase # "none" /\ pc' \in {User(0), User(1)}
        /\ stage' = IF stage = "first" THEN "refused" ELSE "running"
    BY <1>6 DEF refused
  <2>2. There' => There
    <3>1. stage \in {"first", "replacing"}
      BY <1>0, <2>1 DEF CallInv, TypesOK
    <3>2. CASE stage = "first"
      BY <2>1, <3>2 DEF There
    <3>3. CASE stage = "replacing"
      BY <2>1, <3>3 DEF There
    <3> QED BY <3>1, <3>2, <3>3
  <2> QED BY <1>3, <2>1, <2>2 DEF sched_vars, queue_vars
<1>7. CASE admitted
  <2>1. UNCHANGED <<sched_vars, stage>> /\ phase # "none" /\ phase' = "none"
        /\ pc' = Alloc("clear_groups", 0, {})
    BY <1>7 DEF admitted, forget_list
  <2>2. \A x \in Points' : ~Busy(x) \/ x.op = "clear_groups"
    BY <1>0, <2>1 DEF Points, CallInv, sched_vars
  <2>3. \A x \in Points' : FullAt(x)'
    BY <2>2 DEF FullAt, Fill, Ends
  <2>4. ~There'
    BY <1>0, <2>1 DEF There, CallInv, TypesOK
  <2> QED BY <2>3, <2>4 DEF FullInv
<1>8. CASE allocate_tasks
  <2>0. UNCHANGED <<ub_vars, asleep, num_tasks>> /\ Busy(pc) /\ phase = "none"
    BY <1>0, <1>8, AllocKeeps DEF CallInv
  <2>a. ASSUME \A n \in Nat : Full(n) => Full(n)',
               \A x : FullAt(x) => (PointOK(num_tasks, x) => FullAt(x)'),
               \A t \in Tcbs : context'[t] = context[t] \/ ~Busy(context'[t]),
               \A y : y = pc' => FullAt(y)',
               stage' = stage \/ Full(num_tasks)
        PROVE  FullInv'
    <3>1. ASSUME NEW x \in Points' PROVE FullAt(x)'
      <4>1. x \in Points \/ ~Busy(x) \/ x = pc'
        BY <2>a DEF Points
      <4> QED BY <1>0, <2>a, <4>1 DEF FullAt, FullInv
    <3>2. There' => Full(num_tasks)
      BY <2>0, <2>a DEF There, FullInv, ub_vars
    <3>3. PICK m \in Nat : m = num_tasks
      BY <1>0
    <3>4. Full(m) => Full(m)'
      BY <2>a
    <3> QED BY <2>0, <3>1, <3>2, <3>3, <3>4 DEF FullInv
  <2>1. CASE runqueue_init
    <3>1. UNCHANGED <<context, stage>> /\ pc.op \in Clears /\ Clearing(pc)
          /\ Busy(pc') /\ (pc'.op \in {"clear_byte", "clear_slot"} \/ (pc'.op = "load_group" /\ pc'.n = 0))
      BY <1>0, <2>1, ClearIs DEF Clearing
    <3>2. \A t \in Tcbs : ~Filling(context[t]) /\ stage # "replaced" /\ stage # "running"
      <4>1. stage \in {"replacing", "replaced"} => ~Late
        BY <3>1
      <4>2. stage = "first" => \A t \in Tcbs : ~Busy(context[t])
        BY <1>0 DEF CallInv
      <4>3. stage \notin {"refused", "running"}
        BY <1>0, <2>0 DEF CallInv
      <4> QED BY <1>0, <4>1, <4>2, <4>3 DEF Late, Points, Filling, TypesOK
    <3>3. \A t \in Tcbs : FullAt(context[t])'
      BY <3>1, <3>2 DEF FullAt, Filling
    <3>4. \A y : y = pc' => FullAt(y)'
      BY <3>1 DEF FullAt, Full, Fill, Ends, AddOps
    <3>5. \A x \in Points' : FullAt(x)'
      BY <3>1, <3>3, <3>4 DEF Points
    <3>6. ~There'
      <4>1. stage # "replaced" /\ stage # "running"
        BY <1>0, <3>2, Sizes DEF Tcbs
      <4> QED BY <2>0, <3>1, <4>1 DEF There, ub_vars
    <3> QED BY <3>5, <3>6 DEF FullInv
  <2>2. CASE runqueue_add
    <3>1. /\ UNCHANGED <<context, stage>> /\ pc.n \in 0 .. num_tasks /\ pc.op \in AddOps
          /\ Busy(pc') /\ pc'.n = pc.n
          /\ \/ pc.op # "store_slot" /\ pc'.op \in AddOps /\ run_list' = run_list
             \/ /\ pc.op = "store_slot" /\ pc'.op = "first_store"
                /\ run_list' = [run_list EXCEPT ![PrioOf(pc.n)] = TcbOf(pc.n)]
      BY <1>0, <2>2, AddIs
    <3>2. PICK n \in 0 .. num_tasks : n = pc.n
      BY <3>1
    <3>3. /\ PrioOf(n) \in Prios /\ TcbOf(n) \in Tcbs
          /\ n < num_tasks => TcbOf(n) = n /\ PrioOf(n) = n + 1
          /\ n = num_tasks => PrioOf(n) = IDLE_PRIO
      BY <1>0, PlacesOf
    <3>4. \A p \in Prios : p # IDLE_PRIO /\ run_list[p] = p - 1 => run_list'[p] = p - 1
      BY <1>0, <3>1, <3>2, <3>3 DEF TypesOK
    <3>5. /\ \A k \in Nat : Full(k) => Full(k)'
          /\ \A x : FullAt(x) => (PointOK(num_tasks, x) => FullAt(x)')
      BY <1>0, <2>0, <3>4, FullKept
    <3>6. Full(n)
      BY <1>0, <2>0, <3>1, <3>2 DEF FullInv, FullAt, Fill, AddOps
    <3>7. pc.op = "store_slot" => Full(n + 1)'
      <4> SUFFICES ASSUME pc.op = "store_slot", NEW k \in 0 .. (n + 1) - 1, k < num_tasks, k + 1 # IDLE_PRIO
                   PROVE  run_list'[k + 1] = k \/ k \in asleep'
        BY <2>0 DEF Full
      <4>1. CASE k = n
        BY <1>0, <3>1, <3>2, <3>3, <4>1 DEF TypesOK
      <4>2. CASE k # n
        <5>1. k \in 0 .. n - 1 /\ Full(n)'
          BY <1>0, <3>2, <3>5, <3>6, <4>2
        <5> QED BY <2>0, <5>1 DEF Full
      <4> QED BY <4>1, <4>2
    <3>8. \A y : y = pc' => FullAt(y)'
      <4>1. Full(n)' /\ n \in Nat
        BY <1>0, <3>2, <3>5, <3>6
      <4>2. pc'.op \in AddOps \/ pc'.op = "first_store"
        BY <3>1
      <4> QED BY <3>1, <3>2, <3>7, <4>1, <4>2 DEF FullAt, Fill, Ends, AddOps
    <3> QED BY <2>a, <3>1, <3>5, <3>8
  <2>3. CASE first_store \/ last_store
    <3>1. /\ UNCHANGED <<queue_vars, stage>> /\ pc.n \in 0 .. num_tasks /\ Busy(pc')
          /\ pc.op \in {"first_store", "last_store"}
          /\ \/ pc.op = "first_store" /\ pc'.op = "last_store" /\ pc'.n = pc.n
             \/ pc.op = "last_store" /\ pc.n < num_tasks /\ pc'.op = "load_group" /\ pc'.n = pc.n + 1
             \/ pc.op = "last_store" /\ pc.n = num_tasks /\ pc'.op = "find_task"
          /\ \A t \in Tcbs : context'[t] = context[t] \/ context'[t] \in {Mixed, NewTask}
      BY <1>0, <2>3, ContextIs
    <3>2. \A k : Full(k) <=> Full(k)'
      BY <2>0, <3>1 DEF Full, queue_vars
    <3>3. \A x : FullAt(x) <=> FullAt(x)'
      BY <2>0, <3>2 DEF FullAt
    <3>4. Full(pc.n + 1)
      BY <1>0, <2>0, <3>1 DEF FullInv, FullAt, Fill, AddOps
    <3>5. PICK n \in 0 .. num_tasks : n = pc.n
      BY <3>1
    <3>6. Full(n + 1)' /\ (n = num_tasks => Full(num_tasks)')
      <4>1. n = num_tasks => Full(num_tasks)
        BY <1>0, <3>4, <3>5 DEF Full
      <4> QED BY <2>0, <3>2, <3>4, <3>5, <4>1
    <3>7. \A y : y = pc' => FullAt(y)'
      BY <3>1, <3>5, <3>6 DEF FullAt, Fill, Ends, AddOps
    <3>8. ~Busy(Mixed) /\ ~Busy(NewTask)
      BY DEF NewTask
    <3> QED BY <2>a, <3>1, <3>2, <3>3, <3>7, <3>8
  <2>4. CASE find_task \/ store_cur \/ load_context
    <3>1. UNCHANGED <<queue_vars, context>> /\ pc.op \in Ends
          /\ (pc' \in Points \/ ~Busy(pc') \/ pc'.op \in Ends)
      BY <1>0, <2>4, EndIs DEF Points, Ends, TypesOK, TcbPointers
    <3>2. \A k : Full(k) <=> Full(k)'
      BY <2>0, <3>1 DEF Full, queue_vars
    <3>3. \A x : FullAt(x) <=> FullAt(x)'
      BY <2>0, <3>2 DEF FullAt
    <3>4. Full(num_tasks) /\ Full(num_tasks)'
      BY <1>0, <2>0, <3>1, <3>2 DEF FullInv, FullAt
    <3>5. \A y : y = pc' => FullAt(y)'
      <4>1. ASSUME NEW y, y = pc', y \in Points PROVE FullAt(y)'
        BY <3>3, <4>1 DEF FullInv
      <4>2. ASSUME NEW y, y = pc', ~Busy(y) \/ y.op \in Ends PROVE FullAt(y)'
        BY <3>4, <4>2 DEF FullAt, Ends, Fill
      <4> QED BY <3>1, <4>1, <4>2
    <3> QED BY <2>a, <3>1, <3>2, <3>3, <3>4, <3>5
  <2> QED BY <1>8, <2>1, <2>2, <2>3, <2>4, AllocateCases
<1>9. CASE UNCHANGED vars
  BY <1>3, <1>9 DEF vars, sched_vars, queue_vars, There, ub_vars
<1> QED BY <1>1, <1>2, <1>4, <1>5, <1>6, <1>7, <1>8, <1>9 DEF Next

LEMMA StartStep ==
  ASSUME PlacesInv, StartInv, stage = "replacing" => \E c \in Tcbs \ {IDLE_PRIO} : CallerInv(c),
         [Next]_vars
  PROVE  StartInv'
<1> USE Sizes, PointsAre
<1>0. TypesOK /\ CallInv /\ asleep \subseteq Tcbs /\ cur_tcb \in TcbPointers
  BY DEF PlacesInv, TypesOK
<1>1. ASSUME Dispatched, UNCHANGED <<ub_vars, stage>>, stage # "first", cur_tcb \in Tcbs,
             asleep' \subseteq Tcbs,
             \/ stage = "running" \/ phase # "none" =>
                  cur_tcb' \notin asleep' /\ \A p \in Prios : run_list'[p] \notin asleep'
      PROVE  StartInv'
  <2>1. CASE stage = "running"
    <3>1. ASSUME NEW t \in Tcbs, context'[t] = Testing
          PROVE  t = cur_tcb' /\ t # IDLE_PRIO /\ pc'.at = "user" /\ pc' = pc
      <4>1. pc # Testing
        BY <2>1 DEF StartInv
      <4>2. context[t] = Testing
        BY <1>1, <3>1, <4>1 DEF Dispatched
      <4>3. t = cur_tcb /\ t # IDLE_PRIO /\ pc.at = "user"
        BY <2>1, <4>2 DEF StartInv
      <4> QED BY <1>1, <3>1, <4>1, <4>3 DEF Dispatched
    <3>2. pc' # Testing
      BY <1>1, <2>1, <3>1 DEF Dispatched, StartInv
    <3>3. cur_tcb' = NULL => pc' = Lost
      BY <1>1 DEF Dispatched
    <3> QED BY <1>1, <2>1, <3>1, <3>2, <3>3 DEF StartInv, ub_vars
  <2>2. CASE stage # "running"
    <3>1. cur_tcb' = NULL => pc' = Lost
      BY <1>1 DEF Dispatched
    <3> QED BY <1>1, <2>2, <3>1 DEF StartInv, ub_vars
  <2> QED BY <2>1, <2>2
<1>2. CASE timer_irq
  <2>1. /\ Dispatched /\ UNCHANGED <<ub_vars, stage>> /\ stage # "first" /\ cur_tcb \in Tcbs
        /\ asleep' \subseteq asleep
        /\ \A p \in Prios : run_list'[p] = IF p - 1 \in asleep \ asleep' THEN p - 1 ELSE run_list[p]
    BY <1>0, <1>2, TimerIs
  <2>2. ASSUME stage = "running" \/ phase # "none"
        PROVE  cur_tcb' \notin asleep' /\ \A p \in Prios : run_list'[p] \notin asleep'
    <3>1. cur_tcb \notin asleep /\ \A p \in Prios : run_list[p] \notin asleep
      BY <2>2 DEF StartInv
    <3>2. \A p \in Prios : run_list'[p] \notin asleep'
      BY <2>1, <3>1
    <3>3. cur_tcb' = cur_tcb \/ cur_tcb' = NULL \/ \E p \in Prios : run_list'[p] = cur_tcb'
      BY <2>1 DEF Dispatched, Listed
    <3>4. NULL \notin asleep'
      BY <1>0, <2>1
    <3> QED BY <2>1, <3>1, <3>2, <3>3, <3>4
  <2> QED BY <1>0, <1>1, <2>1, <2>2
<1>3. ASSUME NEW c \in Tcbs, event_wait(c) PROVE StartInv'
  <2>1. /\ Dispatched /\ UNCHANGED <<ub_vars, stage>> /\ c = cur_tcb /\ c # IDLE_PRIO
        /\ pc.at = "user" /\ asleep' = asleep \cup {c}
        /\ group_run_bits' = group_run_bits \ Emptied(run_bits', group_of(c + 1))
        /\ run_bits' = run_bits \ {c + 1}
        /\ \A p \in Prios : run_list'[p] = IF p = c + 1 THEN NULL ELSE run_list[p]
        /\ cur_tcb' = run_list'[highest_prio_of(group_run_bits', run_bits')]
    BY <1>0, <1>3, WaitIs
  <2>2. stage # "first"
    BY <2>1 DEF StartInv, Busy
  <2>3. ASSUME stage = "running" \/ phase # "none"
        PROVE  cur_tcb' \notin asleep' /\ \A p \in Prios : run_list'[p] \notin asleep'
    <3>1. cur_tcb \notin asleep /\ \A p \in Prios : run_list[p] \notin asleep
      BY <2>3 DEF StartInv
    <3>2. ASSUME NEW p \in Prios PROVE run_list'[p] \notin asleep'
      <4>1. SlotOK(p, run_list[p])
        BY <1>0 DEF TypesOK
      <4>2. CASE p = c + 1
        BY <1>0, <2>1, <4>2
      <4>3. CASE p # c + 1
        <5>1. run_list'[p] = run_list[p] /\ run_list[p] # c
          BY <1>0, <2>1, <4>1, <4>3 DEF SlotOK
        <5> QED BY <2>1, <3>1, <5>1
      <4> QED BY <4>2, <4>3
    <3>3. group_run_bits' \subseteq Groups /\ run_bits' \subseteq Prios
      BY <1>0, <2>1 DEF TypesOK
    <3>4. highest_prio_of(group_run_bits', run_bits') \in Prios
      BY <3>3, SearchIsSlot
    <3> QED BY <2>1, <3>2, <3>4
  <2> QED BY <1>0, <1>1, <2>1, <2>2, <2>3
<1>4. ASSUME NEW c \in TcbPointers, task_create(c) PROVE StartInv'
  <2>1. /\ UNCHANGED sched_vars /\ pc' = Testing /\ pc.at = "user"
        /\ ((stage = "first" /\ stage' = "first") \/ (stage = "running" /\ stage' = "replacing"))
    BY <1>4 DEF task_create, InUser
  <2>2. UNCHANGED <<cur_tcb, run_list, asleep, context>> /\ ~Busy(pc) /\ pc # Lost
    BY <2>1 DEF sched_vars, queue_vars, Busy
  <2> QED BY <2>1, <2>2 DEF StartInv
<1>5. CASE test_step
  <2>1. UNCHANGED <<sched_vars, pc, stage>> /\ phase # "none"
    BY <1>5 DEF test_step, sorttasks, assign_schedule
  <2> QED BY <2>1 DEF StartInv, sched_vars, queue_vars
<1>6. CASE refused
  <2>1. /\ UNCHANGED <<cur_tcb, run_list, asleep, context>> /\ phase # "none" /\ phase' = "none"
        /\ pc = Testing /\ pc' = User(IF stage = "first" THEN 0 ELSE 1)
        /\ stage' = IF stage = "first" THEN "refused" ELSE "running"
    BY <1>6 DEF refused, forget_list, sched_vars, queue_vars
  <2>2. stage \in {"first", "replacing"}
    BY <1>0, <2>1 DEF CallInv, TypesOK
  <2>3. CASE stage = "first"
    BY <2>1, <2>3 DEF StartInv
  <2>4. CASE stage = "replacing"
    <3>1. PICK c \in Tcbs \ {IDLE_PRIO} : CallerInv(c)
      BY <2>4
    <3>2. cur_tcb = c /\ \A t \in Tcbs : t # c => context[t] # Testing
      BY <2>1, <3>1 DEF CallerInv, Calls
    <3>3. pc'.at = "user" /\ pc' # Testing
      BY <2>1
    <3> QED BY <2>1, <2>4, <3>2, <3>3 DEF StartInv
  <2> QED BY <2>2, <2>3, <2>4
<1>7. CASE admitted
  <2>1. /\ UNCHANGED <<cur_tcb, run_list, asleep, context, stage>> /\ phase # "none" /\ phase' = "none"
        /\ Busy(pc')
    BY <1>7 DEF admitted, forget_list, sched_vars, queue_vars
  <2>2. stage # "running"
    BY <1>0, <2>1 DEF CallInv
  <2> QED BY <2>1, <2>2 DEF StartInv
<1>8. CASE allocate_tasks
  <2>0. UNCHANGED <<ub_vars, asleep>> /\ phase = "none" /\ stage # "running" /\ Busy(pc)
    BY <1>0, <1>8, AllocKeeps DEF CallInv, Points
  <2>1. ASSUME stage' = stage, Busy(pc'), \A t \in Tcbs : context'[t] # Testing \/ context'[t] = context[t]
        PROVE  StartInv'
    <3>1. CASE stage = "first"
      <4>1. NULL \notin {} /\ cur_tcb' \notin asleep' /\ \A p \in Prios : run_list'[p] \notin asleep'
        BY <2>0, <3>1 DEF StartInv
      <4> QED BY <2>0, <2>1, <3>1, <4>1 DEF StartInv
    <3>2. CASE stage # "first"
      BY <2>0, <2>1, <3>2 DEF StartInv, ub_vars
    <3> QED BY <3>1, <3>2
  <2>2. CASE runqueue_init \/ runqueue_add
    BY <1>0, <2>1, <2>2, ClearIs, AddIs
  <2>3. CASE first_store \/ last_store
    <3>1. Mixed # Testing /\ NewTask # Testing
      BY DEF NewTask
    <3> QED BY <1>0, <2>1, <2>3, <3>1, ContextIs
  <2>4. CASE find_task \/ store_cur \/ load_context
    <3>1. CASE pc.op # "load_context"
      BY <1>0, <2>1, <2>4, <3>1, EndIs
    <3>2. CASE pc.op = "load_context"
      <4>1. /\ UNCHANGED <<context, cur_tcb, run_list>> /\ pc' = IF cur_tcb = NULL THEN Lost ELSE context[cur_tcb]
            /\ stage' = IF stage = "first" THEN "running" ELSE "replaced"
        BY <1>0, <2>4, <3>2, EndIs DEF queue_vars
      <4>2. CASE stage = "first"
        BY <1>0, <2>0, <4>1, <4>2 DEF StartInv, ub_vars
      <4>3. CASE stage # "first"
        BY <2>0, <4>1, <4>3 DEF StartInv, ub_vars
      <4> QED BY <4>2, <4>3
    <3> QED BY <3>1, <3>2
  <2> QED BY <1>8, <2>2, <2>3, <2>4, AllocateCases
<1>9. CASE UNCHANGED vars
  BY <1>9 DEF vars, sched_vars, queue_vars, ub_vars, StartInv
<1> QED BY <1>2, <1>3, <1>4, <1>5, <1>6, <1>7, <1>8, <1>9 DEF Next

\* c is not run again once it is gone, and not put back while it is out.
LEMMA CallerDispatched ==
  ASSUME TypesOK, NEW c \in Tcbs \ {IDLE_PRIO}, CallerInv(c), Dispatched,
         UNCHANGED <<stage, num_tasks>>, \A p \in Prios : SlotOK(p, run_list'[p]),
         run_list'[c + 1] = c => run_list[c + 1] = c \/ c \in asleep,
         \/ asleep' \subseteq asleep
         \/ asleep' = asleep \cup {cur_tcb} /\ ~Calls(pc) /\ cur_tcb' # cur_tcb
  PROVE  CallerInv(c)'
<1> USE Sizes, PointsAre
<1>1. \A x : (Out(c, x) => Calls(x)) /\ (Clearing(x) => Calls(x)) /\ (Before(c, x) => Calls(x))
  BY DEF Out, Clearing, Before, Calls, Clears, Fill
<1>2. ~Calls(Lost)
  BY DEF Calls
<1>3. /\ \A t \in Tcbs : t # c => ~Calls(context[t])
      /\ Calls(pc) => cur_tcb = c /\ c \notin asleep
      /\ Calls(context[c]) => c \notin asleep /\ (cur_tcb = c => Busy(pc) \/ pc = Testing)
      /\ Out(c, pc) => run_list[c + 1] # c /\ (pc.op = "store_cur" => c \notin pc.reg)
      /\ Out(c, context[c]) => Gone(c)
      /\ Late => ~Clearing(pc)
      /\ Late /\ Clearing(context[c]) => Gone(c) \/ (cur_tcb = c /\ Before(c, pc))
  BY DEF CallerInv
<1>4. \/ cur_tcb' = cur_tcb /\ pc' = pc /\ context' = context /\ asleep' \subseteq asleep
      \/ /\ cur_tcb' # c \/ cur_tcb # c
         /\ (cur_tcb' \in Tcbs /\ pc' = context'[cur_tcb']) \/ pc' = Lost
         /\ context'[c] = IF cur_tcb = c THEN pc ELSE context[c]
         /\ cur_tcb' = c => run_list'[c + 1] = c
         /\ cur_tcb' = c => pc' = context'[c]
         /\ cur_tcb = c => cur_tcb' # c
  <2>1. ASSUME cur_tcb' \in Tcbs, Listed(cur_tcb)' PROVE cur_tcb' = c => run_list'[c + 1] = c
    <3>1. PICK p \in Prios : run_list'[p] = cur_tcb'
      BY <2>1 DEF Listed
    <3>2. cur_tcb' = c => p = c + 1
      BY <3>1 DEF SlotOK
    <3> QED BY <3>1, <3>2
  <2>2. cur_tcb # c => context'[c] = context[c]
    BY DEF Dispatched
  <2>3. \/ cur_tcb' = cur_tcb /\ pc' = pc /\ context' = context
        \/ /\ cur_tcb' \in Tcbs /\ Listed(cur_tcb)' /\ pc' = context'[cur_tcb']
           /\ cur_tcb # IDLE_PRIO => cur_tcb' # cur_tcb /\ context'[cur_tcb] = pc
        \/ /\ cur_tcb' = NULL /\ pc' = Lost
           /\ cur_tcb # IDLE_PRIO => context'[cur_tcb] = pc
    BY DEF Dispatched
  <2> QED BY <2>1, <2>2, <2>3
<1>5. \A t \in Tcbs : t # c => ~Calls(context'[t])
  BY <1>3 DEF Dispatched
<1>6. ASSUME Calls(pc) \/ cur_tcb # c, c \notin asleep PROVE c \notin asleep'
  BY <1>3, <1>6
<1>7. ASSUME Gone(c) PROVE Gone(c)'
  <2>1. run_list'[c + 1] # c /\ c \notin asleep' /\ cur_tcb # c
    BY <1>6, <1>7 DEF Gone
  <2> QED BY <1>4, <2>1 DEF Gone
<1>8. Calls(pc') => cur_tcb' = c /\ c \notin asleep'
  BY <1>2, <1>3, <1>4, <1>5, <1>6
<1>9. Calls(context'[c]) => c \notin asleep' /\ (cur_tcb' = c => Busy(pc') \/ pc' = Testing)
  <2>1. Calls(context'[c]) => Busy(context'[c]) \/ context'[c] = Testing
    BY DEF Calls
  <2>2. Calls(context'[c]) => c \notin asleep'
    BY <1>3, <1>4, <1>6
  <2>3. Calls(context'[c]) /\ cur_tcb' = c => Busy(pc') \/ pc' = Testing
    BY <1>3, <1>4, <2>1
  <2> QED BY <2>2, <2>3
<1>10. \A x : (Out(c, x)' <=> Out(c, x)) /\ (Before(c, x)' <=> Before(c, x))
  BY DEF Out, Before
<1>11. ASSUME NEW x, x = pc', Out(c, x)
       PROVE  run_list'[c + 1] # c /\ (x.op = "store_cur" => c \notin x.reg)
  <2>1. CASE pc' = pc /\ cur_tcb' = cur_tcb /\ context' = context
    BY <1>1, <1>3, <1>11, <2>1
  <2>2. CASE ~(pc' = pc /\ cur_tcb' = cur_tcb /\ context' = context)
    <3>1. cur_tcb' = c /\ cur_tcb # c /\ x = context[c]
      BY <1>1, <1>4, <1>8, <1>11, <2>2
    <3>2. Gone(c)
      BY <1>3, <1>11, <3>1
    <3> QED BY <1>4, <1>7, <3>1, <3>2 DEF Gone
  <2> QED BY <2>1, <2>2
<1>12. ASSUME NEW x, x = context'[c], Out(c, x) PROVE Gone(c)'
  <2>1. CASE x = context[c]
    BY <1>3, <1>7, <1>12, <2>1
  <2>2. CASE x # context[c]
    <3>1. cur_tcb = c /\ x = pc /\ cur_tcb' # c
      BY <1>4, <1>12, <2>2
    <3>2. run_list[c + 1] # c /\ c \notin asleep /\ Calls(pc)
      BY <1>1, <1>3, <1>12, <3>1
    <3> QED BY <1>6, <3>1, <3>2 DEF Gone
  <2> QED BY <2>1, <2>2
<1>13. Late' => Late
  BY PointsKept DEF Late, Filling
<1>14. ASSUME Late PROVE ~Clearing(pc')
  <2>1. CASE pc' = pc
    BY <1>3, <1>14, <2>1
  <2>2. CASE pc' # pc
    <3> SUFFICES ASSUME Clearing(pc') PROVE FALSE
      OBVIOUS
    <3>1. cur_tcb' = c /\ cur_tcb # c /\ pc' = context[c]
      BY <1>1, <1>4, <1>8, <2>2
    <3>2. Gone(c)
      BY <1>3, <1>14, <3>1
    <3> QED BY <1>7, <3>1, <3>2 DEF Gone
  <2> QED BY <2>1, <2>2
<1>15. ASSUME Late, Clearing(context'[c]) PROVE Gone(c)' \/ (cur_tcb' = c /\ \A x : x = pc' => Before(c, x))
  <2>1. context'[c] = context[c]
    BY <1>3, <1>4, <1>15
  <2>2. CASE Gone(c)
    BY <1>7, <2>2
  <2>3. CASE cur_tcb = c /\ Before(c, pc)
    <3>1. pc' = pc /\ cur_tcb' = cur_tcb
      BY <1>3, <1>4, <1>15, <2>3
    <3> QED BY <2>3, <3>1
  <2> QED BY <1>3, <1>15, <2>1, <2>2, <2>3
<1> QED
  <2>1. Out(c, pc)' => run_list'[c + 1] # c /\ (pc'.op = "store_cur" => c \notin pc'.reg)
    <3>1. PICK x : x = pc'
      OBVIOUS
    <3>2. Out(c, pc)' => Out(c, x)
      BY <3>1 DEF Out
    <3> QED BY <1>11, <3>1, <3>2
  <2>2. Out(c, context[c])' => Gone(c)'
    <3>1. PICK x : x = context'[c]
      OBVIOUS
    <3>2. Out(c, context[c])' => Out(c, x)
      BY <3>1 DEF Out
    <3> QED BY <1>12, <3>1, <3>2
  <2>3. Late' /\ Clearing(context'[c]) => Gone(c)' \/ (cur_tcb' = c /\ Before(c, pc)')
    <3>1. PICK x : x = pc'
      OBVIOUS
    <3>2. Before(c, x) => Before(c, pc)'
      BY <3>1 DEF Before
    <3> QED BY <1>13, <1>15, <3>1, <3>2
  <2>4. \A t \in Tcbs : t # c => ~Calls(context[t])'
    BY <1>5 DEF Calls
  <2> QED BY <1>8, <1>9, <1>13, <1>14, <2>1, <2>2, <2>3, <2>4 DEF CallerInv

\* A step by which the caller goes on in the call.
CallerMoves(c) ==
  /\ Busy(pc) /\ pc.op # "load_context" /\ Busy(pc')
  /\ cur_tcb' = c /\ UNCHANGED <<stage, asleep, num_tasks>>
  /\ \A t \in Tcbs : context'[t] = context[t] \/ (~Busy(context'[t]) /\ context'[t] # Testing)
  /\ Out(c, pc)' => run_list'[c + 1] # c /\ (pc'.op = "store_cur" => c \notin pc'.reg)
  /\ Clearing(pc') => Clearing(pc) /\ context' = context
  /\ Clearing(context'[c]) /\ ~Clearing(pc') => Before(c, pc)'

LEMMA CallerMoved ==
  ASSUME TypesOK, NEW c \in Tcbs \ {IDLE_PRIO}, CallerInv(c), CallerMoves(c)
  PROVE  CallerInv(c)'
<1> USE Sizes, PointsAre
<1>1. /\ \A t \in Tcbs : t # c => ~Calls(context[t])
      /\ Calls(pc) => cur_tcb = c /\ c \notin asleep
      /\ Out(c, context[c]) => Gone(c)
      /\ Late => ~Clearing(pc)
  BY DEF CallerInv
<1>2. /\ pc.op # "load_context" /\ Busy(pc) /\ Busy(pc') /\ cur_tcb' = c
      /\ UNCHANGED <<stage, asleep, num_tasks>>
      /\ \A t \in Tcbs : context'[t] = context[t] \/ (~Busy(context'[t]) /\ context'[t] # Testing)
      /\ Clearing(pc') => Clearing(pc) /\ context' = context
  BY DEF CallerMoves
<1>3. Calls(pc) /\ cur_tcb = c /\ c \notin asleep
  BY <1>1, <1>2 DEF Calls
<1>4. \A t \in Tcbs : t # c => ~Calls(context'[t])
  BY <1>1, <1>2 DEF Calls
<1>4a. \A t \in Tcbs : t # c => ~Calls(context[t])'
  BY <1>4 DEF Calls
<1>5. Out(c, context[c])' => Gone(c)'
  <2>1. Out(c, context[c])' => context'[c] = context[c]
    BY <1>2 DEF Out
  <2>2. ~Out(c, context[c])
    BY <1>1, <1>3 DEF Gone
  <2> QED BY <1>2, <2>1, <2>2 DEF Out
<1>6. Clearing(pc') => ~Late'
  <2>1. Clearing(pc') => ~Late /\ context' = context
    BY <1>1, <1>2
  <2>2. Clearing(pc') => ~Filling(pc')
    BY DEF Clearing, Filling, Clears, Fill, Ends
  <2>3. \A x \in Points' : x \in Points \/ x = pc' \/ context' # context
    BY DEF Points
  <2>4. Late' => stage' = "replaced" \/ \E x \in Points' : Filling(x)
    BY DEF Late, Filling
  <2> QED BY <1>2, <2>1, <2>2, <2>3, <2>4 DEF Late
<1>7. Out(c, pc)' => run_list'[c + 1] # c /\ (pc'.op = "store_cur" => c \notin pc'.reg)
  BY DEF CallerMoves
<1>8. Late' /\ Clearing(context'[c]) => cur_tcb' = c /\ Before(c, pc)'
  <2>1. Clearing(context'[c]) /\ ~Clearing(pc') => Before(c, pc)'
    BY DEF CallerMoves
  <2> QED BY <1>2, <1>6, <2>1
<1>9. (Late => ~Clearing(pc))'
  BY <1>6 DEF Clearing
<1>10. (Late /\ Clearing(context[c]) => Gone(c) \/ (cur_tcb = c /\ Before(c, pc)))'
  BY <1>8 DEF Clearing
<1>11. (Calls(pc) => cur_tcb = c /\ c \notin asleep)'
  BY <1>2, <1>3
<1>12. (Calls(context[c]) => c \notin asleep /\ (cur_tcb = c => Busy(pc) \/ pc = Testing))'
  BY <1>2, <1>3 DEF Busy
<1> QED BY <1>4a, <1>5, <1>7, <1>9, <1>10, <1>11, <1>12 DEF CallerInv

\* A step of the caller in the call.
LEMMA CallerAlloc ==
  ASSUME TypesOK, CallInv, NEW c \in Tcbs \ {IDLE_PRIO}, CallerInv(c), allocate_tasks,
         stage \in {"replacing", "replaced"}
  PROVE  CallerInv(c)'
<1> USE Sizes, PointsAre
<1>0. UNCHANGED <<asleep, num_tasks>> /\ Busy(pc) /\ pc \in Points /\ num_tasks \in 0 .. IDLE_PRIO
      /\ PointOK(num_tasks, pc) /\ c \in Nat /\ c < IDLE_PRIO /\ NULL # c
  BY AllocKeeps DEF Points, TypesOK
<1>1. \A x : (Out(c, x) => Calls(x)) /\ (Clearing(x) => Calls(x)) /\ (Before(c, x) => Calls(x))
  BY DEF Out, Clearing, Before, Calls, Clears, Fill
<1>3. /\ \A t \in Tcbs : t # c => ~Calls(context[t])
      /\ Calls(pc) => cur_tcb = c /\ c \notin asleep
      /\ Calls(context[c]) => c \notin asleep /\ (cur_tcb = c => Busy(pc) \/ pc = Testing)
      /\ Out(c, pc) => run_list[c + 1] # c /\ (pc.op = "store_cur" => c \notin pc.reg)
      /\ Out(c, context[c]) => Gone(c)
      /\ Late => ~Clearing(pc)
      /\ Late /\ Clearing(context[c]) => Gone(c) \/ (cur_tcb = c /\ Before(c, pc))
  BY DEF CallerInv
<1>4. \A x : (Out(c, x)' <=> Out(c, x)) /\ (Before(c, x)' <=> Before(c, x))
  BY <1>0 DEF Out, Before
<1>6. ASSUME Clearing(context[c]), Filling(pc), pc.op # "load_context" PROVE Before(c, pc)
  <2>1. Late
    BY <1>0, <1>6 DEF Late
  <2>2. cur_tcb = c
    BY <1>0, <1>3, <1>6 DEF Calls
  <2> QED BY <1>3, <1>6, <2>1, <2>2 DEF Gone
<1>7. CASE runqueue_init
  <2>1. /\ UNCHANGED <<cur_tcb, context, stage>> /\ Clearing(pc) /\ Busy(pc') /\ pc.op # "load_context"
        /\ cur_tcb = c
    BY <1>0, <1>3, <1>7, ClearIs DEF Clearing, Calls, Clears
  <2>2. ASSUME Out(c, pc)' PROVE run_list'[c + 1] # c /\ pc'.op # "store_cur"
    <3>1. CASE clear_slot
      <4>1. /\ pc.op = "clear_slot" /\ run_list' = [run_list EXCEPT ![pc.n] = NULL]
            /\ pc' = IF pc.n + 1 \in Prios THEN Alloc("clear_slot", pc.n + 1, {})
                     ELSE Alloc("load_group", 0, {})
        BY <3>1 DEF clear_slot, At, Goto
      <4>2. pc.n \in Prios
        BY <1>0, <4>1 DEF PointOK, Fill, Ends
      <4>3. pc.n >= c + 1
        <5>1. CASE pc.n + 1 \in Prios
          <6>1. pc'.op = "clear_slot" /\ pc'.n = pc.n + 1
            BY <4>1, <5>1
          <6>2. pc'.n > c + 1
            BY <2>2, <6>1 DEF Out, Fill
          <6> QED BY <1>0, <4>2, <6>1, <6>2
        <5>2. CASE pc.n + 1 \notin Prios
          BY <1>0, <4>2, <5>2
        <5> QED BY <5>1, <5>2
      <4>4. CASE pc.n = c + 1
        BY <1>0, <4>1, <4>2, <4>4 DEF TypesOK
      <4>5. CASE pc.n # c + 1
        <5>1. Out(c, pc)
          BY <1>0, <4>1, <4>2, <4>3, <4>5 DEF Out
        <5>2. run_list'[c + 1] = run_list[c + 1]
          BY <1>0, <4>1, <4>2, <4>5 DEF TypesOK
        <5> QED BY <1>3, <4>1, <5>1, <5>2
      <4> QED BY <4>1, <4>4, <4>5
    <3>2. CASE clear_byte
      <4>1. pc' = Alloc("clear_byte", pc.n + 1, {}) \/ pc' = Alloc("clear_slot", 0, {})
        BY <3>2 DEF clear_byte, Goto
      <4> QED BY <1>0, <2>2, <4>1 DEF Out, Fill
    <3>3. CASE clear_groups
      <4>1. pc' = Alloc("clear_byte", 0, {})
        BY <3>3 DEF clear_groups, Goto
      <4> QED BY <1>0, <2>2, <4>1 DEF Out, Fill
    <3> QED BY <1>7, <3>1, <3>2, <3>3 DEF runqueue_init
  <2>3. ~Clearing(pc') => Before(c, pc)'
    <3>1. ~Clearing(pc') => pc' = Alloc("load_group", 0, {})
      BY <1>0, <1>7, <2>1, ClearIs DEF Clearing, Clears
    <3> QED BY <1>0, <3>1 DEF Before, Fill
  <2>4. CallerMoves(c)
    BY <1>0, <2>1, <2>2, <2>3 DEF CallerMoves
  <2> QED BY <2>4, CallerMoved
<1>8. CASE runqueue_add
  <2>1. /\ UNCHANGED <<cur_tcb, context, stage>> /\ pc.op \in AddOps /\ Busy(pc') /\ pc'.n = pc.n
        /\ pc.n \in 0 .. num_tasks
        /\ \/ pc.op # "store_slot" /\ pc'.op \in AddOps /\ run_list' = run_list
           \/ /\ pc.op = "store_slot" /\ pc'.op = "first_store"
              /\ run_list' = [run_list EXCEPT ![PrioOf(pc.n)] = TcbOf(pc.n)]
    BY <1>0, <1>8, AddIs
  <2>2. cur_tcb = c /\ Filling(pc) /\ ~Clearing(pc') /\ pc.op # "load_context" /\ pc'.op # "store_cur"
    BY <1>0, <1>3, <2>1 DEF Calls, Filling, Clearing, Fill, Clears, AddOps
  <2>3. ASSUME Out(c, pc)' PROVE run_list'[c + 1] # c
    <3>1. c >= num_tasks /\ Out(c, pc)
      BY <1>0, <2>1, <2>3 DEF Out, Fill, AddOps
    <3>2. run_list[c + 1] # c
      BY <1>3, <3>1
    <3>3. TcbOf(pc.n) # c
      BY <1>0, <2>1, <3>1 DEF TcbOf
    <3> QED BY <2>1, <3>2, <3>3 DEF TypesOK
  <2>4. Clearing(context[c]) => Before(c, pc)'
    <3>1. Before(c, pc) => Before(c, pc)'
      BY <1>0, <2>1 DEF Before, AddOps, Fill
    <3> QED BY <1>6, <2>2, <3>1
  <2>5. CallerMoves(c)
    BY <1>0, <2>1, <2>2, <2>3, <2>4 DEF CallerMoves, queue_vars
  <2> QED BY <2>5, CallerMoved
<1>9. CASE first_store \/ last_store
  <2>1. /\ UNCHANGED <<cur_tcb, queue_vars, stage>> /\ Busy(pc') /\ pc.n \in 0 .. num_tasks
        /\ pc.op \in {"first_store", "last_store"}
        /\ \/ pc.op = "first_store" /\ pc'.op = "last_store" /\ pc'.n = pc.n
           \/ pc.op = "last_store" /\ pc.n < num_tasks /\ pc'.op = "load_group" /\ pc'.n = pc.n + 1
           \/ pc.op = "last_store" /\ pc.n = num_tasks /\ pc'.op = "find_task"
        /\ \A t \in Tcbs : t # TcbOf(pc.n) => context'[t] = context[t]
    BY <1>0, <1>9, ContextIs
  <2>2. \A t \in Tcbs : context'[t] = context[t] \/ (t = TcbOf(pc.n) /\ ~Busy(context'[t]) /\ context'[t] # Testing)
    <3>1. \A t \in Tcbs : context'[t] = context[t] \/ (t = TcbOf(pc.n) /\ context'[t] \in {Mixed, NewTask})
      BY <1>9, <2>1, ContextIs
    <3>2. ~Busy(Mixed) /\ ~Busy(NewTask) /\ Mixed # Testing /\ NewTask # Testing
      BY DEF NewTask
    <3> QED BY <3>1, <3>2
  <2>3. cur_tcb = c /\ Filling(pc) /\ ~Clearing(pc') /\ pc.op # "load_context" /\ pc'.op # "store_cur"
    BY <1>0, <1>3, <2>1 DEF Calls, Filling, Clearing, Fill, Clears
  <2>4. ASSUME Out(c, pc)' PROVE run_list'[c + 1] # c
    <3>1. Out(c, pc)
      BY <1>0, <2>1, <2>4 DEF Out, Fill
    <3> QED BY <1>3, <2>1, <3>1 DEF queue_vars
  <2>5. ASSUME Clearing(context'[c]) PROVE Before(c, pc)'
    <3>1. c # TcbOf(pc.n) /\ context'[c] = context[c]
      <4>1. context'[TcbOf(pc.n)] \in {Mixed, NewTask}
        BY <1>9, ContextIs
      <4>2. ~Busy(Mixed) /\ ~Busy(NewTask)
        BY DEF NewTask
      <4>3. Busy(context'[c])
        BY <2>5 DEF Clearing
      <4> QED BY <2>2, <4>1, <4>2, <4>3
    <3>2. Before(c, pc)
      BY <1>6, <2>3, <2>5, <3>1
    <3>3. CASE c < num_tasks
      <4>1. pc.n < c
        BY <1>0, <2>1, <3>1, <3>2, <3>3 DEF Before, TcbOf
      <4> QED BY <1>0, <2>1, <3>3, <4>1 DEF Before, Fill
    <3>4. CASE ~(c < num_tasks)
      BY <1>0, <2>1, <3>4 DEF Before, Fill
    <3> QED BY <3>3, <3>4
  <2>6. CallerMoves(c)
    BY <1>0, <2>1, <2>2, <2>3, <2>4, <2>5 DEF CallerMoves
  <2> QED BY <2>6, CallerMoved
<1>10. CASE find_task \/ store_cur \/ load_context
  <2>0. UNCHANGED <<queue_vars, context>> /\ pc.op \in Ends /\ Filling(pc)
    BY <1>0, <1>10, EndIs DEF Filling
  <2>1. CASE pc.op = "find_task"
    <3>1. /\ UNCHANGED <<cur_tcb, stage>>
          /\ pc' = Alloc("store_cur", pc.n, {run_list[highest_prio_of(group_run_bits, run_bits)]})
      BY <1>10, <2>1, EndIs
    <3>2. cur_tcb = c /\ ~Clearing(pc') /\ Busy(pc') /\ pc'.op = "store_cur"
      BY <1>0, <1>3, <2>1, <3>1 DEF Calls, Clearing, Clears
    <3>3. ASSUME Out(c, pc)' PROVE run_list'[c + 1] # c /\ c \notin pc'.reg
      <4>1. Out(c, pc)
        BY <1>0, <2>1, <3>2, <3>3 DEF Out
      <4>2. run_list[c + 1] # c
        BY <1>3, <4>1
      <4>3. PICK p \in Prios : p = highest_prio_of(group_run_bits, run_bits)
        BY SearchIsSlot DEF TypesOK
      <4>4. run_list[p] # c
        BY <4>2 DEF TypesOK, SlotOK
      <4>5. pc'.reg = {run_list[p]}
        BY <3>1, <4>3
      <4> QED BY <2>0, <4>2, <4>4, <4>5 DEF queue_vars
    <3>4. Clearing(context[c]) => Before(c, pc)'
      <4>1. Before(c, pc) => Before(c, pc)'
        BY <1>0, <2>1, <3>2 DEF Before, Fill
      <4> QED BY <1>6, <2>0, <2>1, <4>1
    <3>5. CallerMoves(c)
      BY <1>0, <2>0, <2>1, <3>1, <3>2, <3>3, <3>4 DEF CallerMoves
    <3> QED BY <3>5, CallerMoved
  <2>2. CASE pc.op = "store_cur"
    <3>1. cur_tcb' \in pc.reg /\ stage' = stage /\ pc' = Alloc("load_context", pc.n, {})
      BY <1>10, <2>2, EndIs
    <3>2. Calls(pc) /\ cur_tcb = c /\ c \notin asleep
      BY <1>0, <1>3, <2>2 DEF Calls
    <3>3. ~Calls(pc') /\ Busy(pc') /\ pc'.op = "load_context" /\ ~Clearing(pc')
      BY <3>1 DEF Calls, Clearing, Clears
    <3>4. ~Out(c, context[c])
      BY <1>3, <3>2 DEF Gone
    <3>5. Clearing(context[c]) => Gone(c)'
      <4>1. Before(c, pc) => Out(c, pc)
        BY <1>0, <2>2 DEF Before, Out, Fill
      <4>2. Out(c, pc) => run_list[c + 1] # c /\ cur_tcb' # c
        BY <1>3, <2>2, <3>1
      <4> QED BY <1>0, <1>6, <2>0, <2>2, <3>2, <4>1, <4>2 DEF Gone, queue_vars
    <3>6. ~Out(c, pc)' /\ ~Out(c, context[c])'
      BY <1>0, <2>0, <3>3, <3>4 DEF Out, Fill
    <3>7. \A t \in Tcbs : t # c => ~Calls(context[t])'
      BY <1>3, <2>0 DEF Calls
    <3> QED BY <1>0, <1>3, <2>0, <3>2, <3>3, <3>5, <3>6, <3>7 DEF CallerInv
  <2>3. CASE pc.op = "load_context"
    <3>1. /\ cur_tcb' = cur_tcb /\ (pc' = Lost \/ (cur_tcb \in Tcbs /\ pc' = context[cur_tcb]))
          /\ cur_tcb = c => pc' = context[c]
      BY <1>0, <1>10, <2>3, EndIs DEF TypesOK, TcbPointers
    <3>2. Late /\ ~Before(c, pc)
      BY <1>0, <2>0, <2>3 DEF Late, Before, Fill
    <3>3. Gone(c)' <=> Gone(c)
      BY <1>0, <2>0, <3>1 DEF Gone, queue_vars
    <3>4. Calls(pc') => cur_tcb = c /\ pc' = context[c]
      BY <1>3, <3>1 DEF Calls
    <3>5. ~Out(c, pc)'
      <4>1. Out(c, pc)' => Calls(pc')
        BY DEF Out, Calls, Fill
      <4>2. ASSUME Calls(pc') PROVE ~Out(c, context[c])
        BY <1>3, <3>4, <4>2 DEF Gone
      <4>3. Out(c, pc)' => Out(c, pc)' /\ pc' = context[c] /\ cur_tcb = c
        BY <3>4, <4>1
      <4> QED BY <1>0, <3>4, <4>1, <4>2, <4>3 DEF Out
    <3>6. ~Clearing(pc')
      <4> SUFFICES ASSUME Clearing(pc') PROVE FALSE
        OBVIOUS
      <4>1. cur_tcb = c /\ pc' = context[c]
        BY <1>1, <3>4
      <4> QED BY <1>3, <3>2, <4>1 DEF Gone
    <3>7. Out(c, context[c])' => Gone(c)'
      <4>1. Out(c, context[c])' => Out(c, context[c])
        BY <1>0, <2>0 DEF Out
      <4> QED BY <1>3, <3>3, <4>1
    <3>8. \A t \in Tcbs : t # c => ~Calls(context[t])'
      BY <1>3, <2>0 DEF Calls
    <3>9. Calls(pc') => Busy(pc') \/ pc' = Testing
      BY DEF Calls
    <3>10. Calls(context'[c]) => c \notin asleep' /\ (cur_tcb' = c => Busy(pc') \/ pc' = Testing)
      <4>1. Calls(context'[c]) => Calls(context[c])
        BY <2>0
      <4>2. Calls(context[c]) /\ cur_tcb' = c => Busy(pc') \/ pc' = Testing
        BY <3>1, <3>9
      <4> QED BY <1>0, <1>3, <4>1, <4>2
    <3>11. Calls(pc') => cur_tcb' = c /\ c \notin asleep'
      BY <1>0, <1>3, <3>1, <3>4
    <3>12. Clearing(context'[c]) => Gone(c)'
      BY <1>3, <2>0, <3>2, <3>3
    <3> QED BY <3>5, <3>6, <3>7, <3>8, <3>10, <3>11, <3>12 DEF CallerInv
  <2> QED BY <2>0, <2>1, <2>2, <2>3 DEF Ends
<1> QED BY <1>7, <1>8, <1>9, <1>10, AllocateCases

\* A task of the first set makes the call.
LEMMA CallerStart ==
  ASSUME PlacesInv, StartInv, NEW c \in TcbPointers, task_create(c), stage = "running"
  PROVE  \E d \in Tcbs \ {IDLE_PRIO} : CallerInv(d)'
<1> USE Sizes, PointsAre
<1>0. TypesOK /\ CallInv
  BY DEF PlacesInv
<1>1. /\ UNCHANGED <<cur_tcb, run_list, asleep, context, num_tasks>> /\ pc' = Testing
      /\ c = cur_tcb /\ c # IDLE_PRIO /\ pc.at = "user"
  BY DEF task_create, InUser, Runs, sched_vars, queue_vars
<1>2. c \in Tcbs \ {IDLE_PRIO}
  <2>1. c # NULL
    BY <1>1 DEF StartInv, Busy
  <2> QED BY <1>1, <2>1 DEF TcbPointers
<1>3. /\ \A t \in Tcbs : ~Busy(context[t]) /\ (t # c => context[t] # Testing)
      /\ c \notin asleep
  <2>1. \A t \in Tcbs : ~Busy(context[t])
    BY <1>0 DEF CallInv, Points
  <2> QED BY <1>1, <2>1 DEF StartInv
<1>4. \A t \in Tcbs : t # c => ~Calls(context[t])'
  BY <1>1, <1>3 DEF Calls
<1>5. ~Busy(pc') /\ ~Busy(context'[c])
  BY <1>1, <1>2, <1>3
<1>6. (Calls(pc) => cur_tcb = c /\ c \notin asleep)'
  BY <1>1, <1>3
<1>7. (Calls(context[c]) => c \notin asleep /\ (cur_tcb = c => Busy(pc) \/ pc = Testing))'
  BY <1>1, <1>3
<1>8. ~Clearing(pc)' /\ ~Clearing(context[c])' /\ ~Out(c, pc)' /\ ~Out(c, context[c])'
  BY <1>5 DEF Clearing, Out
<1>9. CallerInv(c)'
  BY <1>4, <1>6, <1>7, <1>8 DEF CallerInv
<1> QED BY <1>2, <1>9

\* From then on it is the one that makes the call.
LEMMA CallerStep ==
  ASSUME PlacesInv, NEW c \in Tcbs \ {IDLE_PRIO}, CallerInv(c), [Next]_vars,
         stage \in {"replacing", "replaced"}, stage' \in {"replacing", "replaced"}
  PROVE  CallerInv(c)'
<1> USE Sizes, PointsAre
<1>0. TypesOK /\ CallInv /\ TypesOK' /\ asleep \subseteq Tcbs /\ c \in Nat
  BY PlacesStep DEF PlacesInv, TypesOK
<1>a. \A p \in Prios : SlotOK(p, run_list'[p])
  BY <1>0 DEF TypesOK
<1>b. c + 1 \in Prios /\ (c + 1) - 1 = c
  BY <1>0
<1>1. CASE timer_irq
  <2>1. /\ Dispatched /\ UNCHANGED <<num_tasks, stage>> /\ asleep' \subseteq asleep
        /\ \A p \in Prios : run_list'[p] = IF p - 1 \in asleep \ asleep' THEN p - 1 ELSE run_list[p]
    BY <1>0, <1>1, TimerIs
  <2>2. run_list'[c + 1] = c => run_list[c + 1] = c \/ c \in asleep
    BY <1>b, <2>1
  <2> QED BY <1>0, <1>a, <2>1, <2>2, CallerDispatched
<1>2. ASSUME NEW w \in Tcbs, event_wait(w) PROVE CallerInv(c)'
  <2>1. /\ Dispatched /\ UNCHANGED <<num_tasks, stage>> /\ asleep' = asleep \cup {cur_tcb}
        /\ w = cur_tcb /\ w # IDLE_PRIO /\ pc.at = "user"
        /\ group_run_bits' = group_run_bits \ Emptied(run_bits', group_of(w + 1))
        /\ run_bits' = run_bits \ {w + 1}
        /\ \A p \in Prios : run_list'[p] = IF p = w + 1 THEN NULL ELSE run_list[p]
        /\ cur_tcb' = run_list'[highest_prio_of(group_run_bits', run_bits')]
    BY <1>0, <1>2, WaitIs
  <2>2. run_list'[c + 1] = c => run_list[c + 1] = c \/ c \in asleep
    BY <1>0, <1>b, <2>1
  <2>3. ~Calls(pc)
    BY <2>1 DEF Calls, Busy
  <2>4. cur_tcb' # cur_tcb
    <3>1. PICK p \in Prios : p = highest_prio_of(group_run_bits', run_bits')
      <4>1. group_run_bits' \subseteq Groups /\ run_bits' \subseteq Prios
        BY <1>0 DEF TypesOK
      <4> QED BY <4>1, SearchIsSlot
    <3>2. cur_tcb' = run_list'[p] /\ SlotOK(p, run_list'[p])
      BY <1>a, <2>1, <3>1
    <3>3. p = w + 1 => run_list'[p] = NULL
      BY <2>1
    <3> QED BY <1>0, <2>1, <3>2, <3>3 DEF SlotOK
  <2> QED BY <1>0, <1>a, <2>1, <2>2, <2>3, <2>4, CallerDispatched
<1>3. ASSUME NEW d \in TcbPointers, task_create(d) PROVE FALSE
  BY <1>3 DEF task_create
<1>4. CASE refused
  BY <1>4 DEF refused
<1>5. CASE test_step \/ UNCHANGED vars
  <2>1. UNCHANGED <<cur_tcb, run_list, asleep, context, pc, num_tasks, stage>>
    BY <1>5 DEF test_step, vars, sched_vars, queue_vars
  <2>2. Points' = Points
    BY <2>1 DEF Points
  <2>3. Late' <=> Late
    BY <2>1, <2>2 DEF Late, Filling
  <2> QED BY <2>1, <2>3 DEF CallerInv, Calls, Out, Gone, Before, Clearing
<1>6. CASE admitted
  <2>1. /\ UNCHANGED <<cur_tcb, run_list, asleep, context, stage>> /\ phase # "none"
        /\ pc = Testing /\ pc' = Alloc("clear_groups", 0, {})
    BY <1>6 DEF admitted, sched_vars, queue_vars
  <2>2. stage' # "replaced" /\ \A t \in Tcbs : ~Busy(context'[t])
    BY <1>0, <2>1 DEF CallInv, Points
  <2>3. Busy(pc') /\ pc'.op = "clear_groups"
    BY <2>1
  <2>4. cur_tcb = c /\ c \notin asleep /\ \A t \in Tcbs : t # c => ~Calls(context[t])
    BY <2>1 DEF CallerInv, Calls
  <2>5. \A t \in Tcbs : t # c => ~Calls(context[t])'
    BY <2>1, <2>4 DEF Calls
  <2>6. ~Late'
    <3>1. \A x \in Points' : ~Filling(x)
      BY <2>2, <2>3 DEF Points, Filling, Fill, Ends
    <3> QED BY <2>2, <3>1 DEF Late, Filling
  <2>7. ~Out(c, pc)' /\ ~Out(c, context[c])'
    BY <2>2, <2>3 DEF Out, Fill
  <2>8. (Calls(pc) => cur_tcb = c /\ c \notin asleep)'
    BY <2>1, <2>4
  <2>9. (Calls(context[c]) => c \notin asleep /\ (cur_tcb = c => Busy(pc) \/ pc = Testing))'
    BY <2>1, <2>3, <2>4 DEF Busy
  <2> QED BY <2>5, <2>6, <2>7, <2>8, <2>9 DEF CallerInv
<1>7. CASE allocate_tasks
  BY <1>0, <1>7, CallerAlloc
<1> QED BY <1>1, <1>2, <1>3, <1>4, <1>5, <1>6, <1>7 DEF Next

LEMMA StageStep ==
  ASSUME [Next]_vars, stage' \in {"replacing", "replaced"}, stage \notin {"replacing", "replaced"},
         CallInv, TypesOK
  PROVE  stage = "running" /\ \E c \in TcbPointers : task_create(c)
<1>1. ASSUME allocate_tasks PROVE FALSE
  <2>1. Busy(pc) /\ pc \in Points
    BY <1>1, AllocKeeps DEF Points
  <2>2. stage = "first"
    BY <2>1 DEF CallInv, TypesOK
  <2>3. stage' \in {"first", "running"}
    BY <1>1, <2>2 DEF allocate_tasks, runqueue_init, clear_groups, clear_byte, clear_slot,
       runqueue_add, load_group, store_group, load_byte, store_byte, store_slot,
       first_store, last_store, find_task, store_cur, load_context
  <2> QED BY <2>3
<1>2. ASSUME NEW c \in TcbPointers, task_create(c) PROVE stage = "running"
  BY <1>2 DEF task_create
<1> QED BY <1>1, <1>2 DEF Next, vars, timer_irq, event_wait, test_step, refused, admitted

\* Without an interrupt in between, the second set is dispatched with its run queue filled.
FilledInv == stage = "replaced" /\ ~hit => ~Mid(pc)

LEMMA FilledStep ==
  ASSUME PlacesInv, CompleteInv, FilledInv, hit \in BOOLEAN, ~hit => QuietInv, [Next]_vars
  PROVE  FilledInv'
<1> USE Sizes, PointsAre
<1>0. TypesOK /\ CallInv /\ (~hit => \A t \in Tcbs : ~Mid(context[t]))
  BY DEF PlacesInv, QuietInv, Calm
<1>1. ~Mid(Lost)
  BY DEF Mid
<1>2. ASSUME Dispatched, stage' = stage, hit => hit'
      PROVE  FilledInv'
  <2> SUFFICES ASSUME stage' = "replaced", ~hit' PROVE ~Mid(pc')
    BY DEF FilledInv, Mid
  <2>1. ~hit /\ stage = "replaced"
    BY <1>2
  <2>2. \A x \in Points : ~Mid(x)
    BY <1>0, <2>1 DEF FilledInv, Points
  <2>3. pc' \in Points \/ pc' = Lost
    BY <1>0, <1>2, PointsKept DEF Points
  <2> QED BY <1>1, <2>2, <2>3
<1>3. ASSUME UNCHANGED <<pc, stage, hit>> PROVE FilledInv'
  BY <1>3 DEF FilledInv, Mid
<1>4. ASSUME ~Mid(pc') PROVE FilledInv'
  BY <1>4 DEF FilledInv, Mid
<1>5. CASE timer_irq
  <2>1. Dispatched /\ stage' = stage
    BY <1>0, <1>5, TimerIs
  <2>2. hit => hit'
    BY <1>5 DEF timer_irq
  <2> QED BY <1>2, <2>1, <2>2
<1>6. ASSUME NEW c \in Tcbs, event_wait(c) PROVE FilledInv'
  <2>1. Dispatched /\ stage' = stage
    BY <1>0, <1>6, WaitIs
  <2>2. hit' = hit
    BY <1>6 DEF event_wait
  <2> QED BY <1>2, <2>1, <2>2
<1>7. ASSUME NEW c \in TcbPointers, task_create(c) PROVE FilledInv'
  BY <1>4, <1>7 DEF task_create, Mid
<1>8. CASE test_step
  BY <1>3, <1>8 DEF test_step
<1>9. CASE refused
  BY <1>4, <1>9 DEF refused, Mid
<1>10. CASE admitted
  BY <1>4, <1>10 DEF admitted, Mid
<1>11. CASE allocate_tasks
  <2> SUFFICES ASSUME stage' = "replaced", ~hit' PROVE ~Mid(pc')
    BY DEF FilledInv, Mid
  <2>1. Busy(pc) /\ ~hit
    BY <1>11, AllocKeeps
  <2>2. CASE runqueue_init \/ runqueue_add \/ first_store \/ last_store
    <3>1. stage' = stage /\ pc.op \notin Ends
      BY <1>0, <2>2, ClearIs, AddIs, ContextIs DEF Ends, Clears, AddOps
    <3>2. PICK c \in Tcbs : CallerInv(c)
      BY <3>1 DEF CompleteInv
    <3>3. ~Clearing(pc)
      BY <3>1, <3>2 DEF CallerInv, Late
    <3>4. ~Mid(pc)
      BY <2>1, <3>1 DEF FilledInv
    <3>5. pc.op = "clear_groups"
      BY <2>1, <3>1, <3>4 DEF Mid, Ends
    <3> QED BY <2>1, <3>3, <3>5 DEF Clearing, Clears
  <2>3. CASE find_task \/ store_cur \/ load_context
    <3>1. (Busy(pc') /\ pc'.op \in Ends) \/ pc' = Lost \/ \E t \in Tcbs : pc' = context[t]
      BY <1>0, <2>3, EndIs DEF Ends, TypesOK, TcbPointers
    <3> QED BY <1>0, <1>1, <2>1, <3>1 DEF Mid, Ends
  <2> QED BY <1>11, <2>2, <2>3, AllocateCases
<1>12. CASE UNCHANGED vars
  BY <1>3, <1>12 DEF vars
<1> QED BY <1>5, <1>6, <1>7, <1>8, <1>9, <1>10, <1>11, <1>12 DEF Next

\* Whatever the sets and the groups, and wherever the interrupts come, each task of
\* the set that was dispatched last is in its slot or waits for a device, and without
\* an interrupt while the run queue is replaced the idle task is in its slot as well
\* (sched.c:73-97).
THEOREM SetStaysComplete == Spec => []SetIsComplete
<1> DEFINE Inv == /\ PlacesInv /\ StartInv /\ CompleteInv /\ FilledInv
                  /\ hit \in BOOLEAN /\ (~hit => QuietInv)
<1> USE Sizes, PointsAre
<1>1. Init => Inv
  <2>1. Init => QuietInv
    BY InitQuiet
  <2>2. Init => StartInv
    BY DEF Init, StartInv
  <2>3. Init => CompleteInv
    BY DEF Init, CompleteInv, FullInv, FullAt, Points, There
  <2>4. Init => FilledInv
    BY DEF Init, FilledInv
  <2> QED BY <2>1, <2>2, <2>3, <2>4, InitPlaces DEF Init
<1>2. Inv /\ [Next]_vars => Inv'
  <2> SUFFICES ASSUME Inv, [Next]_vars PROVE Inv'
    OBVIOUS
  <2>1. PlacesInv'
    BY PlacesStep
  <2>2. hit' \in BOOLEAN /\ (~hit' => QuietInv')
    BY <2>1, HitStep, QuietStep
  <2>3. FilledInv'
    BY FilledStep
  <2>4. StartInv'
    BY StartStep DEF CompleteInv
  <2>5. FullInv'
    <3>1. stage \in {"replacing", "replaced"} => (Late => ~Clearing(pc))
      BY DEF CompleteInv, CallerInv
    <3> QED BY <3>1, FullStep DEF CompleteInv
  <2>6. ASSUME stage' \in {"replacing", "replaced"}
        PROVE  \E c \in Tcbs \ {IDLE_PRIO} : CallerInv(c)'
    <3>1. CASE stage \in {"replacing", "replaced"}
      <4>1. PICK c \in Tcbs \ {IDLE_PRIO} : CallerInv(c)
        BY <3>1 DEF CompleteInv
      <4> QED BY <2>6, <3>1, <4>1, CallerStep
    <3>2. CASE stage \notin {"replacing", "replaced"}
      <4>1. stage = "running" /\ \E c \in TcbPointers : task_create(c)
        BY <2>6, <3>2, StageStep DEF PlacesInv
      <4> QED BY <4>1, CallerStart
    <3> QED BY <3>1, <3>2
  <2> QED BY <2>1, <2>2, <2>3, <2>4, <2>5, <2>6 DEF CompleteInv
<1>3. Inv => SetIsComplete
  <2> SUFFICES ASSUME Inv, stage \in {"running", "replaced"}
               PROVE  /\ \A t \in Tcbs : t < num_tasks /\ t + 1 # IDLE_PRIO =>
                           run_list[t + 1] = t \/ t \in asleep
                      /\ ~hit => run_list[IDLE_PRIO] = IDLE_PRIO /\ cur_tcb # IDLE_PRIO - 1
    BY DEF SetIsComplete
  <2>0. num_tasks \in Nat /\ CallInv
    BY DEF PlacesInv, TypesOK
  <2>1. ASSUME NEW t \in Tcbs, t < num_tasks, t + 1 # IDLE_PRIO
        PROVE  run_list[t + 1] = t \/ t \in asleep
    <3>1. t \in 0 .. num_tasks - 1 /\ Full(num_tasks)
      BY <2>0, <2>1 DEF CompleteInv, FullInv, There
    <3> QED BY <2>1, <3>1 DEF Full
  <2>2. ASSUME ~hit PROVE run_list[IDLE_PRIO] = IDLE_PRIO /\ cur_tcb # IDLE_PRIO - 1
    <3>1. Calm /\ pc # Lost
      BY <2>2 DEF QuietInv, Calm, Stops
    <3>2. ~Mid(pc)
      <4>1. stage = "running" => ~Busy(pc)
        BY <2>0 DEF CallInv, Points
      <4> QED BY <2>2, <4>1 DEF FilledInv, Mid
    <3>3. cur_tcb # NULL \/ (Busy(pc) /\ pc.op \in Ends)
      <4> SUFFICES ASSUME cur_tcb = NULL PROVE Busy(pc) /\ pc.op \in Ends
        OBVIOUS
      <4>1. Busy(pc)
        BY <3>1 DEF StartInv
      <4>2. stage = "replaced"
        BY <2>0, <4>1 DEF CallInv, Points
      <4>3. ~Clearing(pc)
        BY <4>2 DEF CompleteInv, CallerInv, Late
      <4> QED BY <3>2, <4>1, <4>3 DEF Clearing, Clears, Mid, Ends
    <3>4. Exact
      BY <3>1, <3>2, <3>3 DEF Calm
    <3> QED BY <3>1, <3>4 DEF Exact, Calm
  <2> QED BY <2>1, <2>2
<1> QED BY <1>1, <1>2, <1>3, PTL DEF Spec
==============================================================================
