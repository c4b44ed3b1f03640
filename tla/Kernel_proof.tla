----------------------------- MODULE Kernel_proof -----------------------------
(***************************************************************************)
(* What is proved about Kernel and about UserTasks for every number of     *)
(* tasks, mutexes and devices and every choice of periods.                 *)
(*                                                                         *)
(* The first part is about programs that replace their task set at any     *)
(* time that no interrupt comes (SpecRe): the types, the sleep queues, the *)
(* mutexes and the slots of the run queue.  The second is about programs that create one task    *)
(* set (Spec): mutual exclusion, the priority ceiling, that no task is     *)
(* lost, that only the release of a mutex delays a preemption, and that an *)
(* event wakes exactly the tasks that wait for it.                         *)
(* The third is about the test programs on that kernel (SpecUser).         *)
(*                                                                         *)
(* None of the second part is inductive alone.  That only the running task *)
(* holds mutexes depends on slot 0 being its slot, so that every dispatch  *)
(* returns to it; that slot 0 is given up at the right time depends on     *)
(* holds_lock; and that no task is lost depends on the queues of the       *)
(* devices being disjoint, which the device each task waits for shows.     *)
(*                                                                         *)
(* For mutex_chaser the times matter.  A task begins its job only when all *)
(* tasks before it wait; a waiting task has done one job more than its     *)
(* device has had events; and of two devices that count the same time the  *)
(* one with the shorter period has had as many events or more.  So every   *)
(* task finds the earlier ones ahead of it, at every mutex.                *)
(***************************************************************************)
EXTENDS UserTasks, Numbers_proof, FiniteSetTheorems

------------------------------------------------------------------------------
(* The search of the ready list.                                             *)

\* highest_prio returns the first occupied slot, or IDLE_PRIO.
LEMMA HighestPrio ==
  ASSUME NEW list \in [Prios -> TcbPointers]
  PROVE  /\ highest_prio(list) \in Prios
         /\ Occupied(list) = {} => highest_prio(list) = IDLE_PRIO
         /\ \A p \in Prios : list[p] # NULL =>
              /\ highest_prio(list) <= p
              /\ list[highest_prio(list)] # NULL
<1> USE MaxTasksAssumption
<1>1. CASE Occupied(list) = {}
  BY <1>1 DEF highest_prio, Occupied, Prios, IDLE_PRIO
<1>2. CASE Occupied(list) # {}
  <2>1. Occupied(list) \in SUBSET Nat
    BY DEF Occupied, Prios
  <2>2. \E m \in Occupied(list) : \A k \in Occupied(list) : m <= k
    BY <1>2, <2>1, LeastExists
  <2>3. /\ highest_prio(list) \in Occupied(list)
        /\ \A q \in Occupied(list) : highest_prio(list) <= q
    BY <1>2, <2>2 DEF highest_prio
  <2> QED BY <1>2, <2>3 DEF Occupied
<1> QED BY <1>1, <1>2

\* The dispatcher only ever picks a tcb of the list, or NULL.
LEMMA HighestTcb ==
  ASSUME NEW list \in [Prios -> TcbPointers]
  PROVE  highest_tcb(list) \in TcbPointers
BY HighestPrio DEF highest_tcb

\* A dispatcher that finds p at or above every other task picks its tcb.
LEMMA HighestIs ==
  ASSUME NEW list \in [Prios -> TcbPointers], NEW p \in Prios,
         list[p] # NULL, \A q \in Prios : q < p => list[q] = NULL
  PROVE  highest_prio(list) = p /\ highest_tcb(list) = list[p]
<1>1. /\ highest_prio(list) \in Prios /\ highest_prio(list) <= p
      /\ list[highest_prio(list)] # NULL
  BY HighestPrio
<1>2. ~(highest_prio(list) < p)
  BY <1>1
<1>3. highest_prio(list) = p
  BY <1>1, <1>2, MaxTasksAssumption DEF Prios
<1> QED BY <1>3 DEF highest_tcb

------------------------------------------------------------------------------
(* Sleep queues.                                                             *)

\* The null pointer is no tcb.
LEMMA NullIsNoTcb == NULL \notin Tcbs /\ NULL \in TcbPointers
BY NullAssumption DEF Tcbs, Prios, TcbPointers

Links == [Tcbs -> TcbPointers]

\* S contains the successor of each of its members.
Closed(S, link) == \A u \in S : link[u] # NULL => link[u] \in S

\* A queue is a set of tcbs that has its head and is closed under the link ...
LEMMA ChainClosed ==
  ASSUME NEW link \in Links, NEW h \in TcbPointers
  PROVE  /\ Chain(h, link) \subseteq Tcbs
         /\ h # NULL => h \in Chain(h, link)
         /\ Closed(Chain(h, link), link)
BY NullIsNoTcb DEF Chain, Closed, Links, TcbPointers

\* ... and the least such set.
LEMMA ChainLeast ==
  ASSUME NEW link \in Links, NEW h \in TcbPointers,
         NEW S \in SUBSET Tcbs, h # NULL => h \in S, Closed(S, link)
  PROVE  Chain(h, link) \subseteq S
BY DEF Chain, Closed

\* A queue is its head followed by the queue of its successor.
LEMMA ChainStep ==
  ASSUME NEW link \in Links, NEW h \in Tcbs
  PROVE  Chain(h, link) = {h} \cup Chain(link[h], link)
<1> h \in TcbPointers /\ link[h] \in TcbPointers /\ h # NULL
  BY NullIsNoTcb DEF Links, TcbPointers
<1>1. Chain(h, link) \subseteq {h} \cup Chain(link[h], link)
  <2> DEFINE S == {h} \cup Chain(link[h], link)
  <2>1. S \in SUBSET Tcbs /\ Closed(S, link)
    BY ChainClosed DEF Closed
  <2> QED BY <2>1, ChainLeast
<1>2. Chain(link[h], link) \subseteq Chain(h, link)
  <2>1. link[h] # NULL => link[h] \in Chain(h, link)
    BY ChainClosed DEF Closed
  <2>2. Chain(h, link) \in SUBSET Tcbs /\ Closed(Chain(h, link), link)
    BY ChainClosed
  <2> QED BY <2>1, <2>2, ChainLeast
<1> QED BY <1>1, <1>2, ChainClosed

\* The walk to the end of a queue finds a last tcb.
LEMMA TailFound ==
  ASSUME sleep_queue \in Links, Ends(sleep_queue), NEW h \in Tcbs
  PROVE  /\ LastOf(h) \in Chain(h, sleep_queue)
         /\ sleep_queue[LastOf(h)] = NULL
<1> DEFINE C == Chain(h, sleep_queue)
<1>1. C \in SUBSET Tcbs /\ C # {} /\ Closed(C, sleep_queue)
  BY ChainClosed, NullIsNoTcb DEF TcbPointers
<1>2. PICK t \in C : sleep_queue[t] = NULL
  BY <1>1 DEF Ends, Closed
<1> QED BY <1>2 DEF LastOf

\* The queue from g depends on the links of its members only.
LEMMA ChainSame ==
  ASSUME NEW link \in Links, NEW link2 \in Links, NEW g \in TcbPointers,
         \A u \in Chain(g, link) : link2[u] = link[u]
  PROVE  Chain(g, link2) = Chain(g, link)
<1>1. /\ Chain(g, link) \in SUBSET Tcbs /\ (g # NULL => g \in Chain(g, link))
      /\ Closed(Chain(g, link), link)
  BY ChainClosed
<1>2. Closed(Chain(g, link), link2)
  BY <1>1 DEF Closed
<1>3. Chain(g, link2) \subseteq Chain(g, link)
  BY <1>1, <1>2, ChainLeast
<1>4. /\ Chain(g, link2) \in SUBSET Tcbs /\ (g # NULL => g \in Chain(g, link2))
      /\ Closed(Chain(g, link2), link2)
  BY ChainClosed
<1>5. Closed(Chain(g, link2), link)
  BY <1>3, <1>4 DEF Closed
<1>6. Chain(g, link) \subseteq Chain(g, link2)
  BY <1>4, <1>5, ChainLeast
<1> QED BY <1>3, <1>6

\* A null head is the empty queue.
LEMMA ChainOfNull == ASSUME NEW link PROVE Chain(NULL, link) = {}
BY DEF Chain

------------------------------------------------------------------------------
(* Putting a tcb at the end of a queue.                                      *)

LEMMA AppendedType ==
  ASSUME sleep_queue \in Links, NEW h \in TcbPointers, NEW c \in Tcbs
  PROVE  Appended(h, c) \in Links /\ HeadAfter(h, c) \in TcbPointers
BY DEF Appended, HeadAfter, Links, TcbPointers

\* Where the new links differ from the old ones.
LEMMA AppendedLinks ==
  ASSUME sleep_queue \in Links, Ends(sleep_queue),
         NEW h \in TcbPointers, NEW c \in Tcbs
  PROVE  /\ Appended(h, c)[c] = NULL
         /\ h # NULL /\ LastOf(h) # c => Appended(h, c)[LastOf(h)] = c
         /\ \A u \in Tcbs : u # c /\ (h # NULL => u # LastOf(h)) =>
              Appended(h, c)[u] = sleep_queue[u]
<1>1. CASE h = NULL
  BY <1>1 DEF Appended, Links
<1>2. CASE h # NULL
  <2>1. h \in Tcbs
    BY <1>2 DEF TcbPointers
  <2>2. LastOf(h) \in Tcbs
    BY <2>1, TailFound, ChainClosed DEF TcbPointers
  <2> QED BY <1>2, <2>2 DEF Appended, Links
<1> QED BY <1>1, <1>2

\* The walks still end, even if c was in that queue, or in others, before: a
\* set that has c ends at c, and in one without c the walk to c has left it.
LEMMA AppendedEnds ==
  ASSUME sleep_queue \in Links, Ends(sleep_queue),
         NEW h \in TcbPointers, NEW c \in Tcbs
  PROVE  Ends(Appended(h, c))
<1> SUFFICES ASSUME NEW S \in SUBSET Tcbs, S # {}
             PROVE  \E t \in S : \/ Appended(h, c)[t] = NULL
                                 \/ Appended(h, c)[t] \notin S
  BY DEF Ends
<1>1. CASE c \in S
  BY <1>1, AppendedLinks
<1>2. CASE c \notin S
  <2>1. PICK t \in S : sleep_queue[t] = NULL \/ sleep_queue[t] \notin S
    BY DEF Ends
  <2>2. CASE h # NULL /\ t = LastOf(h)
    BY <1>2, <2>2, AppendedLinks
  <2>3. CASE ~(h # NULL /\ t = LastOf(h))
    BY <1>2, <2>1, <2>3, AppendedLinks
  <2> QED BY <2>2, <2>3
<1> QED BY <1>1, <1>2

\* A queue that c is not in becomes the same queue with c in it.
LEMMA AppendedChain ==
  ASSUME sleep_queue \in Links, Ends(sleep_queue),
         NEW h \in TcbPointers, NEW c \in Tcbs, c \notin Chain(h, sleep_queue)
  PROVE  Chain(HeadAfter(h, c), Appended(h, c)) = Chain(h, sleep_queue) \cup {c}
<1> DEFINE new == Appended(h, c)
           C == Chain(h, sleep_queue)
<1>1. /\ new \in Links /\ HeadAfter(h, c) \in TcbPointers
      /\ C \in SUBSET Tcbs /\ Closed(C, sleep_queue)
  BY AppendedType, ChainClosed
<1>2. CASE h = NULL
  <2>1. C = {} /\ HeadAfter(h, c) = c /\ new[c] = NULL
    BY <1>2, ChainOfNull, AppendedLinks DEF HeadAfter
  <2>2. Chain(c, new) = {c} \cup Chain(new[c], new)
    BY <1>1, ChainStep
  <2> QED BY <2>1, <2>2, ChainOfNull
<1>3. CASE h # NULL
  <2>1. /\ h \in Tcbs /\ HeadAfter(h, c) = h
        /\ h \in C /\ LastOf(h) \in C /\ sleep_queue[LastOf(h)] = NULL
    BY <1>3, TailFound, ChainClosed DEF HeadAfter, TcbPointers
  <2>2. Closed(C \cup {c}, new)
    BY <1>1, <2>1, AppendedLinks DEF Closed
  <2>3. Chain(h, new) \subseteq C \cup {c}
    BY <1>1, <2>1, <2>2, ChainLeast
  <2>4. /\ Chain(h, new) \in SUBSET Tcbs /\ h \in Chain(h, new)
        /\ Closed(Chain(h, new), new)
    BY <1>1, <1>3, ChainClosed
  <2>5. Closed(Chain(h, new) \cap C, sleep_queue)
    BY <1>1, <2>1, <2>4, AppendedLinks DEF Closed
  <2>6. C \subseteq Chain(h, new) \cap C
    <3>1. Chain(h, new) \cap C \in SUBSET Tcbs /\ h \in Chain(h, new) \cap C
      BY <2>1, <2>4
    <3> QED BY <2>5, <3>1, ChainLeast
  <2>7. c \in Chain(h, new)
    <3>1. LastOf(h) \in Chain(h, new) /\ new[LastOf(h)] = c /\ c # NULL
      BY <2>1, <2>6, AppendedLinks, NullIsNoTcb
    <3> QED BY <3>1, <2>4 DEF Closed
  <2> QED BY <2>1, <2>3, <2>6, <2>7
<1> QED BY <1>2, <1>3

\* A queue without c that shares no tcb with that queue stays as it is.
LEMMA AppendedOther ==
  ASSUME sleep_queue \in Links, Ends(sleep_queue),
         NEW h \in TcbPointers, NEW c \in Tcbs, NEW g \in TcbPointers,
         c \notin Chain(g, sleep_queue),
         Chain(g, sleep_queue) \cap Chain(h, sleep_queue) = {}
  PROVE  Chain(g, Appended(h, c)) = Chain(g, sleep_queue)
<1>1. ASSUME NEW u \in Chain(g, sleep_queue)
      PROVE  Appended(h, c)[u] = sleep_queue[u]
  <2>1. u \in Tcbs /\ u # c
    BY ChainClosed
  <2>2. h # NULL => u # LastOf(h)
    BY TailFound DEF TcbPointers
  <2> QED BY <2>1, <2>2, AppendedLinks
<1> QED BY <1>1, ChainSame, AppendedType
------------------------------------------------------------------------------
(* Types, and the end of every walk, whatever the program does.              *)

TypeInv == TypeOK /\ Ends(sleep_queue)

\* dev_update gives a slot to a tcb of a device that fired whenever there is
\* one for that slot: the last one in the last of those queues.
LEMMA LastWokenExists ==
  ASSUME TypeInv, NEW lag, NEW p \in Prios,
         \E d \in Fired(lag) : \E t \in Waiters(d) : cur_prio[t] = p
  PROVE  /\ LastWoken(lag, p) \in Tcbs /\ cur_prio[LastWoken(lag, p)] = p
         /\ \E d \in Fired(lag) : LastWoken(lag, p) \in Waiters(d)
<1> DEFINE D == {d \in Fired(lag) : \E t \in Waiters(d) : cur_prio[t] = p}
<1>1. sleep_queue \in Links /\ dev_queue \in [Devices -> TcbPointers]
  BY DEF TypeInv, TypeOK, Links
<1>2. PICK d \in D : \A e \in D : e <= d
  <2>1. D \in SUBSET (0 .. NUM_DEVICES) /\ D # {} /\ NUM_DEVICES \in Nat
    BY CountsAssumption DEF Fired, Devices
  <2> QED BY <2>1, GreatestExists
<1>3. d \in Fired(lag) /\ d \in Devices /\ dev_queue[d] \in TcbPointers
  BY <1>1, <1>2 DEF Fired
<1>4. /\ Waiters(d) \in SUBSET Tcbs
      /\ Closed(Waiters(d), sleep_queue)
  BY <1>1, <1>3, ChainClosed DEF Waiters
<1> DEFINE S == {u \in Waiters(d) :
                   \E w \in Chain(u, sleep_queue) : cur_prio[w] = p}
<1>5. S \in SUBSET Tcbs /\ S # {}
  <2>1. PICK t \in Waiters(d) : cur_prio[t] = p
    BY <1>2
  <2>2. t \in Chain(t, sleep_queue)
    BY <1>1, <1>4, ChainStep
  <2> QED BY <1>4, <2>1, <2>2
<1>6. PICK t \in S : sleep_queue[t] = NULL \/ sleep_queue[t] \notin S
  BY <1>5 DEF Ends, TypeInv
<1>7. \A u \in Chain(sleep_queue[t], sleep_queue) : cur_prio[u] # p
  BY <1>4, <1>6, ChainOfNull DEF Closed
<1>8. cur_prio[t] = p
  <2>1. Chain(t, sleep_queue) = {t} \cup Chain(sleep_queue[t], sleep_queue)
    BY <1>1, <1>4, <1>6, ChainStep
  <2> QED BY <1>6, <1>7, <2>1
<1>9. \A e \in Fired(lag) : e > d => \A u \in Waiters(e) : cur_prio[u] # p
  <2> SUFFICES ASSUME NEW e \in Fired(lag), e > d, NEW u \in Waiters(e),
                      cur_prio[u] = p
               PROVE  FALSE
    OBVIOUS
  <2>1. e \in D /\ e \in Int /\ d \in Int
    BY CountsAssumption, <1>3 DEF Fired, Devices
  <2> QED BY <2>1, <1>2
<1>10. \E w \in Tcbs : \E e \in Fired(lag) :
         /\ w \in Waiters(e) /\ cur_prio[w] = p
         /\ \A u \in Chain(sleep_queue[w], sleep_queue) : cur_prio[u] # p
         /\ \A f \in Fired(lag) : f > e => \A u \in Waiters(f) : cur_prio[u] # p
  BY <1>3, <1>4, <1>6, <1>7, <1>8, <1>9
<1> QED BY <1>10 DEF LastWoken

\* The run queue after an interrupt is a run queue.
LEMMA ListAfterWakeType ==
  ASSUME TypeInv, NEW lag
  PROVE  ListAfterWake(lag) \in [Prios -> TcbPointers]
<1> SUFFICES ASSUME NEW p \in Prios PROVE ListAfterWake(lag)[p] \in TcbPointers
  BY DEF ListAfterWake
<1> QED BY LastWokenExists DEF ListAfterWake, TypeInv, TypeOK, TcbPointers

\* Dispatching keeps the types of what it changes.
LEMMA DispatchType ==
  ASSUME NEW list \in [Prios -> TcbPointers],
         NEW ev \in [Tcbs -> Devices \cup {NULL}], dispatch(list, ev)
  PROVE  cur_tcb' \in TcbPointers /\ event' \in [Tcbs -> Devices \cup {NULL}]
BY HighestTcb DEF dispatch

\* No device is ever due in the past.
LEMMA DueType ==
  ASSUME TypeInv, NEW lag \in 1 .. MaxTickLag
  PROVE  DueAfter(lag) \in [Devices -> Nat]
<1> SUFFICES ASSUME NEW d \in Devices PROVE DueAfter(lag)[d] \in Nat
  BY DEF DueAfter
<1>1. /\ due[d] \in Nat /\ dev_freq[d] \in Nat /\ dev_freq[d] > MaxTickLag
      /\ lag \in Nat /\ lag <= MaxTickLag /\ MaxTickLag \in Nat
  BY PeriodsAssumption DEF TypeInv, TypeOK
<1> QED BY <1>1 DEF DueAfter, Fired

LEMMA TypeInvInit == Init => TypeInv
<1> SUFFICES ASSUME Init PROVE TypeInv
  OBVIOUS
<1>1. TypeOK
  BY MaxTasksAssumption DEF Init, TypeOK, TcbPointers, EmptyList, Prios, Tcbs
<1>2. Ends(sleep_queue)
  BY DEF Init, Ends
<1> QED BY <1>1, <1>2 DEF TypeInv

\* A task set of any size that the tcbs allow keeps the types.
LEMMA TypeInvCreate ==
  ASSUME TypeInv, NEW n \in 1 .. OS_MAX_TASKS - 1, task_create(n)
  PROVE  TypeInv'
<1> USE DEF TypeInv
<1>1. FreshList(n) \in [Prios -> TcbPointers]
  BY MaxTasksAssumption DEF FreshList, Prios, TcbPointers, Tcbs, IDLE_PRIO
<1>2. /\ FreshPrio(native_prio, n) \in [Tcbs -> Prios]
      /\ FreshPrio(cur_prio, n) \in [Tcbs -> Prios]
  <2>1. ASSUME NEW prio \in [Tcbs -> Prios]
        PROVE  FreshPrio(prio, n) \in [Tcbs -> Prios]
    BY MaxTasksAssumption DEF FreshPrio, Prios, Tcbs, IDLE_PRIO
  <2> QED BY <2>1 DEF TypeOK
<1>3. cur_tcb' \in TcbPointers /\ event' \in [Tcbs -> Devices \cup {NULL}]
  <2>1. [t \in Tcbs |-> IF t < n THEN NULL ELSE event[t]]
          \in [Tcbs -> Devices \cup {NULL}]
    BY DEF TypeOK
  <2> QED BY <1>1, <2>1, DispatchType DEF task_create
<1>4. num_tasks' \in 0 .. OS_MAX_TASKS - 1 /\ due' \in [Devices -> Nat]
  BY PeriodsAssumption, MaxTasksAssumption DEF task_create
<1> QED BY <1>1, <1>2, <1>3, <1>4 DEF task_create, TypeOK, Ends, mutex_vars

\* Every step of every program keeps the types and the end of the walks.
LEMMA TypeInvStep == TypeInv /\ [NextRe]_vars => TypeInv'
<1> SUFFICES ASSUME TypeInv, [NextRe]_vars PROVE TypeInv'
  OBVIOUS
<1> USE DEF TypeInv
<1>0. sleep_queue \in Links
  BY DEF TypeOK, Links
<1>1. ASSUME NEW n \in TaskSetSizes, task_create(n) PROVE TypeInv'
  BY <1>1, SizesAssumption, TypeInvCreate
<1>2. CASE mutex_create
  BY <1>2 DEF mutex_create, TypeOK, Ends, tcb_vars, dev_vars
<1>3. ASSUME NEW c \in Tcbs, NEW m \in Mutexes, mutex_lock_free(c, m)
      PROVE  TypeInv'
  <2>1. 0 \in Prios /\ c \in TcbPointers
    BY MaxTasksAssumption DEF Prios, TcbPointers
  <2> QED BY <1>3, <2>1 DEF mutex_lock_free, TypeOK, Ends, dev_vars
<1>4. ASSUME NEW c \in Tcbs, NEW m \in Mutexes, mutex_lock_contended(c, m)
      PROVE  TypeInv'
  <2>1. pSleep_queue[m] \in TcbPointers /\ NULL \in TcbPointers
    BY NullIsNoTcb DEF TypeOK
  <2>2. /\ Appended(pSleep_queue[m], c) \in Links
        /\ HeadAfter(pSleep_queue[m], c) \in TcbPointers
        /\ Ends(Appended(pSleep_queue[m], c))
    BY <1>0, <2>1, AppendedType, AppendedEnds
  <2> QED BY <1>4, <2>1, <2>2
      DEF mutex_lock_contended, TypeOK, Ends, Links, dev_vars
<1>5. ASSUME NEW c \in Tcbs, NEW m \in Mutexes, Running(c)
      PROVE  /\ LockFlagAfterRelease(c, m) \in [Tcbs -> {0, 1}]
             /\ ListAfterRelease(c, m) \in [Prios -> TcbPointers]
             /\ PrioAfterRelease(c, m) \in [Tcbs -> Prios]
  BY NullIsNoTcb
  DEF LockFlagAfterRelease, ListAfterRelease, PrioAfterRelease, TypeOK,
      TcbPointers
<1>6. ASSUME NEW c \in Tcbs, NEW m \in Mutexes, mutex_unlock_free(c, m)
      PROVE  TypeInv'
  <2>1. Running(c) /\ NULL \in TcbPointers
    BY <1>6, NullIsNoTcb DEF mutex_unlock_free
  <2> QED BY <1>5, <1>6, <2>1 DEF mutex_unlock_free, TypeOK, Ends, dev_vars
<1>7. ASSUME NEW c \in Tcbs, NEW m \in Mutexes, mutex_unlock_handoff(c, m)
      PROVE  TypeInv'
  <2>1. Running(c) /\ 0 \in Prios
    BY <1>7, MaxTasksAssumption DEF mutex_unlock_handoff, Prios
  <2>2. pSleep_queue[m] \in TcbPointers /\ sleep_queue[pSleep_queue[m]] \in TcbPointers
    BY <1>0, <1>7 DEF TypeOK, Links, TcbPointers, mutex_unlock_handoff
  <2> QED BY <1>5, <1>7, <2>1, <2>2
      DEF mutex_unlock_handoff, TypeOK, Ends, dev_vars
<1>8. ASSUME NEW c \in Tcbs, NEW d \in Devices, event_wait(c, d)
      PROVE  TypeInv'
  <2> DEFINE list == [run_list EXCEPT ![cur_prio[c]] = NULL]
  <2>1. dev_queue[d] \in TcbPointers /\ list \in [Prios -> TcbPointers]
    BY NullIsNoTcb DEF TypeOK
  <2>2. /\ Appended(dev_queue[d], c) \in Links
        /\ HeadAfter(dev_queue[d], c) \in TcbPointers
        /\ Ends(Appended(dev_queue[d], c))
    BY <1>0, <2>1, AppendedType, AppendedEnds
  <2>3. cur_tcb' \in TcbPointers /\ event' \in [Tcbs -> Devices \cup {NULL}]
    <3>1. [event EXCEPT ![c] = d] \in [Tcbs -> Devices \cup {NULL}]
      BY DEF TypeOK
    <3> QED BY <1>8, <2>1, <3>1, DispatchType DEF event_wait
  <2> QED BY <1>8, <2>1, <2>2, <2>3
      DEF event_wait, TypeOK, Ends, Links, mutex_vars
<1>9. ASSUME NEW lag \in 1 .. MaxTickLag, timer_irq(lag) PROVE TypeInv'
  <2>1. ListAfterWake(lag) \in [Prios -> TcbPointers]
    BY ListAfterWakeType
  <2>2. NativeAfterWake(lag) \in [Tcbs -> Prios]
    BY DEF NativeAfterWake, TypeOK
  <2>3. cur_tcb' \in TcbPointers /\ event' \in [Tcbs -> Devices \cup {NULL}]
    BY <1>9, <2>1, DispatchType DEF timer_irq, TypeOK
  <2>4. DueAfter(lag) \in [Devices -> Nat]
    BY DueType
  <2>5. dev_queue' \in [Devices -> TcbPointers]
    BY <1>9, NullIsNoTcb DEF timer_irq, TypeOK
  <2> QED BY <1>9, <2>1, <2>2, <2>3, <2>4, <2>5
      DEF timer_irq, TypeOK, Ends, mutex_vars
<1>10. CASE UNCHANGED vars
  BY <1>10 DEF vars, tcb_vars, dev_vars, mutex_vars, TypeOK, Ends
<1> QED BY <1>1, <1>2, <1>3, <1>4, <1>6, <1>7, <1>8, <1>9, <1>10
    DEF NextRe, Next, Boot, Recreate, SystemCall, Tick

\* The variables keep their types in every program, also in one that replaces
\* its task set while mutexes are locked and tasks wait.
THEOREM TypeCorrect == SpecRe => []TypeOK
<1>1. Init => TypeInv
  BY TypeInvInit
<1>2. TypeInv /\ [NextRe]_vars => TypeInv'
  BY TypeInvStep
<1>3. TypeInv => TypeOK
  BY DEF TypeInv
<1> QED BY <1>1, <1>2, <1>3, PTL DEF SpecRe

\* In every program every walk along a sleep queue ends, so that dev_wait,
\* mutex_lock and dev_update, which walk with IRQs masked, return.
THEOREM SleepQueuesEnd == SpecRe => []ChainsEnd
<1>1. Init => TypeInv
  BY TypeInvInit
<1>2. TypeInv /\ [NextRe]_vars => TypeInv'
  BY TypeInvStep
<1>3. TypeInv => ChainsEnd
  BY DEF TypeInv, ChainsEnd
<1> QED BY <1>1, <1>2, <1>3, PTL DEF SpecRe
------------------------------------------------------------------------------
(* What replacing task sets leaves intact, for task sets as small as         *)
(* allocate_tasks assumes (sched.c:62).                                      *)

SmallSets == TaskSetSizes \subseteq 1 .. OS_MAX_TASKS - 2

\* The idle tcb is in no sleep queue and holds no mutex.
IdleNeverWaits ==
  /\ \A t \in Tcbs : sleep_queue[t] # IDLE_PRIO
  /\ \A d \in Devices : dev_queue[d] # IDLE_PRIO
  /\ \A m \in Mutexes : pHolding_Tcb[m] # IDLE_PRIO /\ pSleep_queue[m] # IDLE_PRIO

\* A tcb is at the priority of its index or at priority 0, and the one that
\* would collide with the idle task is never given to a task.
PrioByIndex ==
  \A t \in Tcbs \ {IDLE_PRIO} :
    /\ native_prio[t] \in {0, t + 1} /\ cur_prio[t] \in {0, t + 1}
    /\ t = IDLE_PRIO - 1 => native_prio[t] = 0 /\ cur_prio[t] = 0

\* Nothing is enqueued over the idle task or removes it.
IdleTaskReady ==
  cur_tcb # NULL => run_list[IDLE_PRIO] = IDLE_PRIO

ReplaceInv ==
  /\ TypeInv
  /\ IdleTaskReady
  /\ SlotsKeepTheirTask
  /\ MutexesConsistent
  /\ IdleNeverWaits
  /\ PrioByIndex
  /\ run_list[0] # IDLE_PRIO

\* The idle tcb is not among the waiters of a device.
LEMMA IdleNotWaiting ==
  ASSUME TypeInv, IdleNeverWaits, NEW d \in Devices
  PROVE  Waiters(d) \subseteq Tcbs \ {IDLE_PRIO}
<1>1. sleep_queue \in Links /\ dev_queue[d] \in TcbPointers
  BY DEF TypeInv, TypeOK, Links
<1>2. /\ Tcbs \ {IDLE_PRIO} \in SUBSET Tcbs
      /\ dev_queue[d] # NULL => dev_queue[d] \in Tcbs \ {IDLE_PRIO}
      /\ Closed(Tcbs \ {IDLE_PRIO}, sleep_queue)
  BY <1>1 DEF IdleNeverWaits, Closed, Links, TcbPointers
<1> QED BY <1>1, <1>2, ChainLeast DEF Waiters

\* The links and the head of a queue after the running task is appended.
LEMMA AppendedIdle ==
  ASSUME TypeInv, IdleNeverWaits, NEW h \in TcbPointers, h # IDLE_PRIO,
         NEW c \in Tcbs, c # IDLE_PRIO
  PROVE  /\ HeadAfter(h, c) # IDLE_PRIO
         /\ \A t \in Tcbs : Appended(h, c)[t] # IDLE_PRIO
<1>1. IDLE_PRIO # NULL /\ sleep_queue \in Links
  BY NullAssumption, MaxTasksAssumption
  DEF IDLE_PRIO, Prios, TypeInv, TypeOK, Links
<1> QED BY <1>1 DEF HeadAfter, Appended, IdleNeverWaits, Links

LEMMA ReplaceInvInit == Init => ReplaceInv
<1> SUFFICES ASSUME Init PROVE ReplaceInv
  OBVIOUS
<1>1. TypeInv
  BY TypeInvInit
<1>2. IDLE_PRIO # NULL /\ 0 \in Prios
  BY NullAssumption, MaxTasksAssumption DEF IDLE_PRIO, Prios
<1>3. IdleTaskReady /\ SlotsKeepTheirTask /\ run_list[0] # IDLE_PRIO
  BY <1>2 DEF Init, IdleTaskReady, SlotsKeepTheirTask, EmptyList
<1>4. MutexesConsistent /\ IdleNeverWaits
  BY <1>2 DEF Init, MutexesConsistent, IdleNeverWaits
<1>5. PrioByIndex
  BY DEF Init, PrioByIndex
<1> QED BY <1>1, <1>3, <1>4, <1>5 DEF ReplaceInv

\* Every step keeps it.
LEMMA ReplaceInvStep ==
  ASSUME SmallSets, ReplaceInv, [NextRe]_vars
  PROVE  ReplaceInv'
<1> USE DEF ReplaceInv
<1>0. /\ TypeInv' /\ TypeOK
      /\ IDLE_PRIO \in Tcbs /\ IDLE_PRIO \in Prios /\ IDLE_PRIO # NULL
      /\ IDLE_PRIO \in Int /\ IDLE_PRIO >= 2 /\ 0 \in Prios
      /\ Tcbs = 0 .. IDLE_PRIO /\ Prios = 0 .. IDLE_PRIO
  BY TypeInvStep, NullAssumption, MaxTasksAssumption
  DEF TypeInv, IDLE_PRIO, Prios, Tcbs
<1>1. ASSUME NEW n \in TaskSetSizes, task_create(n) PROVE ReplaceInv'
  <2>1. n \in 1 .. IDLE_PRIO - 1
    BY <1>0, MaxTasksAssumption DEF SmallSets, IDLE_PRIO
  <2>2. /\ IdleTaskReady' /\ SlotsKeepTheirTask' /\ run_list'[0] # IDLE_PRIO
    BY <1>0, <1>1, <2>1
    DEF task_create, FreshList, IdleTaskReady, SlotsKeepTheirTask
  <2>3. MutexesConsistent' /\ IdleNeverWaits'
    BY <1>1 DEF task_create, MutexesConsistent, IdleNeverWaits, mutex_vars
  <2>4. PrioByIndex'
    BY <1>0, <1>1, <2>1 DEF task_create, PrioByIndex, FreshPrio
  <2> QED BY <1>0, <2>2, <2>3, <2>4
<1>2. CASE mutex_create
  <2>1. IdleTaskReady' /\ SlotsKeepTheirTask' /\ run_list'[0] # IDLE_PRIO
    BY <1>2 DEF mutex_create, IdleTaskReady, SlotsKeepTheirTask
  <2>2. MutexesConsistent' /\ IdleNeverWaits'
    BY <1>0, <1>2
    DEF mutex_create, MutexesConsistent, IdleNeverWaits, TypeOK, tcb_vars,
        dev_vars
  <2>3. PrioByIndex'
    BY <1>2 DEF mutex_create, PrioByIndex, tcb_vars
  <2> QED BY <1>0, <2>1, <2>2, <2>3
<1>3. ASSUME NEW c \in Tcbs, NEW m \in Mutexes, mutex_lock_free(c, m)
      PROVE  ReplaceInv'
  <2>1. c # NULL /\ c # IDLE_PRIO
    BY <1>3 DEF mutex_lock_free, Running
  <2>2. IdleTaskReady' /\ SlotsKeepTheirTask' /\ run_list'[0] # IDLE_PRIO
    BY <1>0, <1>3, <2>1
    DEF mutex_lock_free, IdleTaskReady, SlotsKeepTheirTask, TypeOK
  <2>3. MutexesConsistent' /\ IdleNeverWaits'
    BY <1>0, <1>3, <2>1
    DEF mutex_lock_free, MutexesConsistent, IdleNeverWaits, TypeOK, dev_vars
  <2>4. PrioByIndex'
    BY <1>0, <1>3 DEF mutex_lock_free, PrioByIndex, TypeOK
  <2> QED BY <1>0, <2>2, <2>3, <2>4
<1>4. ASSUME NEW c \in Tcbs, NEW m \in Mutexes, mutex_lock_contended(c, m)
      PROVE  ReplaceInv'
  <2>1. c # NULL /\ c # IDLE_PRIO /\ cur_prio[c] \in 0 .. IDLE_PRIO - 1
    BY <1>0, <1>4 DEF mutex_lock_contended, Running, PrioByIndex
  <2>2. IdleTaskReady' /\ SlotsKeepTheirTask' /\ run_list'[0] # IDLE_PRIO
    <3>1. \A p \in Prios :
            run_list'[p] = IF p = cur_prio[c] THEN NULL ELSE run_list[p]
      BY <1>0, <1>4 DEF mutex_lock_contended, TypeOK
    <3>2. run_list'[IDLE_PRIO] = IDLE_PRIO
      BY <1>0, <1>4, <2>1, <3>1 DEF mutex_lock_contended, Running, IdleTaskReady
    <3> QED BY <1>0, <3>1, <3>2 DEF IdleTaskReady, SlotsKeepTheirTask
  <2>3. MutexesConsistent'
    BY <1>0, <1>4
    DEF mutex_lock_contended, MutexesConsistent, TypeOK
  <2>4. IdleNeverWaits'
    <3>1. pSleep_queue[m] \in TcbPointers /\ pSleep_queue[m] # IDLE_PRIO
      BY <1>0 DEF TypeOK, IdleNeverWaits
    <3>2. /\ HeadAfter(pSleep_queue[m], c) # IDLE_PRIO
          /\ \A t \in Tcbs : sleep_queue'[t] # IDLE_PRIO
      BY <1>4, <2>1, <3>1, AppendedIdle DEF mutex_lock_contended
    <3> QED BY <1>0, <1>4, <3>2
        DEF mutex_lock_contended, IdleNeverWaits, TypeOK, dev_vars
  <2>5. PrioByIndex'
    BY <1>4 DEF mutex_lock_contended, PrioByIndex
  <2> QED BY <1>0, <2>2, <2>3, <2>4, <2>5
<1>5. ASSUME NEW c \in Tcbs, NEW m \in Mutexes, Running(c), IdleTaskReady
      PROVE  LET list == ListAfterRelease(c, m)
                 prio == PrioAfterRelease(c, m)
             IN  /\ list[IDLE_PRIO] = IDLE_PRIO /\ list[0] # IDLE_PRIO
                 /\ list \in [Prios -> TcbPointers]
                 /\ \A p \in Prios \ {0, IDLE_PRIO} : list[p] \in {p - 1, NULL}
                 /\ prio \in [Tcbs -> Prios]
                 /\ \A t \in Tcbs \ {IDLE_PRIO} :
                      /\ prio[t] \in {0, t + 1}
                      /\ t = IDLE_PRIO - 1 => prio[t] = 0
  <2> DEFINE n == native_prio[c]
  <2>1. c # NULL /\ c # IDLE_PRIO /\ run_list[IDLE_PRIO] = IDLE_PRIO
    BY <1>5 DEF Running, IdleTaskReady
  <2>2. /\ n \in {0, c + 1} /\ n \in Prios /\ n # IDLE_PRIO
        /\ c = IDLE_PRIO - 1 => n = 0
    <3>1. c \in Tcbs \ {IDLE_PRIO} /\ n \in Prios /\ c \in 0 .. IDLE_PRIO
      BY <1>0, <2>1 DEF TypeOK
    <3>2. n \in {0, c + 1} /\ (c = IDLE_PRIO - 1 => n = 0)
      BY <3>1 DEF PrioByIndex
    <3>3. n # IDLE_PRIO
      BY <1>0, <3>1, <3>2
    <3> QED BY <3>1, <3>2, <3>3
  <2>3. NULL \in TcbPointers /\ c \in TcbPointers
    BY NullIsNoTcb DEF TcbPointers
  <2>4. ListAfterRelease(c, m) \in [Prios -> TcbPointers]
    BY <1>0, <2>3 DEF ListAfterRelease, TypeOK
  <2>5. \A p \in Prios :
          \/ ListAfterRelease(c, m)[p] = run_list[p]
          \/ p = 0 /\ ListAfterRelease(c, m)[p] = NULL
          \/ p = n /\ ListAfterRelease(c, m)[p] = c
    BY <1>0, <2>2 DEF ListAfterRelease, TypeOK
  <2>6. \A p \in Prios \ {0, IDLE_PRIO} :
          ListAfterRelease(c, m)[p] \in {p - 1, NULL}
    BY <1>0, <2>2, <2>5 DEF SlotsKeepTheirTask
  <2>7. /\ ListAfterRelease(c, m)[IDLE_PRIO] = IDLE_PRIO
        /\ ListAfterRelease(c, m)[0] # IDLE_PRIO
    BY <1>0, <2>1, <2>2, <2>5
  <2>8. /\ PrioAfterRelease(c, m) \in [Tcbs -> Prios]
        /\ \A t \in Tcbs : PrioAfterRelease(c, m)[t] \in {cur_prio[t], native_prio[t]}
    BY <1>0, <2>2 DEF PrioAfterRelease, TypeOK
  <2>9. \A t \in Tcbs \ {IDLE_PRIO} :
          /\ PrioAfterRelease(c, m)[t] \in {0, t + 1}
          /\ t = IDLE_PRIO - 1 => PrioAfterRelease(c, m)[t] = 0
    BY <2>8 DEF PrioByIndex
  <2> QED BY <2>4, <2>6, <2>7, <2>8, <2>9
<1>6. ASSUME NEW c \in Tcbs, NEW m \in Mutexes, mutex_unlock_free(c, m)
      PROVE  ReplaceInv'
  <2>1. Running(c)
    BY <1>6 DEF mutex_unlock_free
  <2>2. IdleTaskReady' /\ SlotsKeepTheirTask' /\ run_list'[0] # IDLE_PRIO
    BY <1>5, <1>6, <2>1
    DEF mutex_unlock_free, IdleTaskReady, SlotsKeepTheirTask
  <2>3. MutexesConsistent'
    BY <1>0, <1>6 DEF mutex_unlock_free, MutexesConsistent, TypeOK
  <2>4. IdleNeverWaits'
    BY <1>0, <1>6 DEF mutex_unlock_free, IdleNeverWaits, TypeOK, dev_vars
  <2>5. PrioByIndex'
    BY <1>5, <1>6, <2>1 DEF mutex_unlock_free, PrioByIndex
  <2> QED BY <1>0, <2>2, <2>3, <2>4, <2>5
<1>7. ASSUME NEW c \in Tcbs, NEW m \in Mutexes, mutex_unlock_handoff(c, m)
      PROVE  ReplaceInv'
  <2> DEFINE h == pSleep_queue[m]
  <2>1. Running(c) /\ h \in Tcbs /\ h # NULL /\ h # IDLE_PRIO
    BY <1>0, <1>7, NullIsNoTcb
    DEF mutex_unlock_handoff, TypeOK, TcbPointers, IdleNeverWaits
  <2>2. IdleTaskReady' /\ SlotsKeepTheirTask' /\ run_list'[0] # IDLE_PRIO
    BY <1>0, <1>5, <1>7, <2>1
    DEF mutex_unlock_handoff, IdleTaskReady, SlotsKeepTheirTask
  <2>3. MutexesConsistent' /\ IdleNeverWaits'
    BY <1>0, <1>7, <2>1
    DEF mutex_unlock_handoff, MutexesConsistent, IdleNeverWaits, TypeOK,
        dev_vars
  <2>4. PrioByIndex'
    BY <1>5, <1>7, <2>1 DEF mutex_unlock_handoff, PrioByIndex
  <2> QED BY <1>0, <2>2, <2>3, <2>4
<1>8. ASSUME NEW c \in Tcbs, NEW d \in Devices, event_wait(c, d)
      PROVE  ReplaceInv'
  <2>1. c # NULL /\ c # IDLE_PRIO /\ cur_prio[c] \in 0 .. IDLE_PRIO - 1
    BY <1>0, <1>8 DEF event_wait, Running, PrioByIndex
  <2>2. IdleTaskReady' /\ SlotsKeepTheirTask' /\ run_list'[0] # IDLE_PRIO
    <3>1. \A p \in Prios :
            run_list'[p] = IF p = cur_prio[c] THEN NULL ELSE run_list[p]
      BY <1>0, <1>8 DEF event_wait, TypeOK
    <3>2. run_list'[IDLE_PRIO] = IDLE_PRIO
      BY <1>0, <1>8, <2>1, <3>1 DEF event_wait, Running, IdleTaskReady
    <3> QED BY <1>0, <3>1, <3>2 DEF IdleTaskReady, SlotsKeepTheirTask
  <2>3. MutexesConsistent'
    BY <1>8 DEF event_wait, MutexesConsistent, mutex_vars
  <2>4. IdleNeverWaits'
    <3>1. dev_queue[d] \in TcbPointers /\ dev_queue[d] # IDLE_PRIO
      BY <1>0 DEF TypeOK, IdleNeverWaits
    <3>2. /\ HeadAfter(dev_queue[d], c) # IDLE_PRIO
          /\ \A t \in Tcbs : sleep_queue'[t] # IDLE_PRIO
      BY <1>8, <2>1, <3>1, AppendedIdle DEF event_wait
    <3> QED BY <1>0, <1>8, <3>2
        DEF event_wait, IdleNeverWaits, TypeOK, mutex_vars
  <2>5. PrioByIndex'
    BY <1>8 DEF event_wait, PrioByIndex
  <2> QED BY <1>0, <2>2, <2>3, <2>4, <2>5
<1>9. ASSUME NEW lag \in 1 .. MaxTickLag, timer_irq(lag) PROVE ReplaceInv'
  <2>1. ASSUME NEW p \in Prios, ListAfterWake(lag)[p] # run_list[p]
        PROVE  /\ p # IDLE_PRIO
               /\ ListAfterWake(lag)[p] # IDLE_PRIO
               /\ p # 0 => ListAfterWake(lag)[p] = p - 1
    <3> DEFINE w == ListAfterWake(lag)[p]
    <3>1. /\ w \in Tcbs /\ cur_prio[w] = p
          /\ \E d \in Fired(lag) : w \in Waiters(d)
      BY <2>1, LastWokenExists DEF ListAfterWake
    <3>2. w # IDLE_PRIO
      BY <3>1, IdleNotWaiting DEF Fired
    <3> QED BY <1>0, <3>1, <3>2 DEF PrioByIndex
  <2>2. IdleTaskReady' /\ SlotsKeepTheirTask' /\ run_list'[0] # IDLE_PRIO
    BY <1>0, <1>9, <2>1 DEF timer_irq, IdleTaskReady, SlotsKeepTheirTask
  <2>3. MutexesConsistent'
    BY <1>9 DEF timer_irq, MutexesConsistent, mutex_vars
  <2>4. IdleNeverWaits'
    BY <1>0, <1>9 DEF timer_irq, IdleNeverWaits, mutex_vars
  <2>5. PrioByIndex'
    BY <1>9 DEF timer_irq, PrioByIndex, NativeAfterWake
  <2> QED BY <1>0, <2>2, <2>3, <2>4, <2>5
<1>10. CASE UNCHANGED vars
  BY <1>0, <1>10
  DEF vars, tcb_vars, dev_vars, mutex_vars, IdleTaskReady, SlotsKeepTheirTask,
      MutexesConsistent, IdleNeverWaits, PrioByIndex
<1> QED BY <1>1, <1>2, <1>3, <1>4, <1>6, <1>7, <1>8, <1>9, <1>10
    DEF NextRe, Next, Boot, Recreate, SystemCall, Tick

\* In every program with task sets of that size, each slot but 0 and the idle task's only ever holds the tcb that it
\* belongs to, whatever runqueue_add stores over it (run_queue.c:74, 85).
THEOREM SlotsKept ==
  ASSUME SmallSets
  PROVE  SpecRe => []SlotsKeepTheirTask
<1>1. Init => ReplaceInv
  BY ReplaceInvInit
<1>2. ReplaceInv /\ [NextRe]_vars => ReplaceInv'
  BY ReplaceInvStep
<1>3. ReplaceInv => SlotsKeepTheirTask
  BY DEF ReplaceInv
<1> QED BY <1>1, <1>2, <1>3, PTL DEF SpecRe

\* In the same programs a mutex has a holder exactly when it is locked, and
\* tasks queue for locked mutexes only.
THEOREM MutexStateConsistent ==
  ASSUME SmallSets
  PROVE  SpecRe => []MutexesConsistent
<1>1. Init => ReplaceInv
  BY ReplaceInvInit
<1>2. ReplaceInv /\ [NextRe]_vars => ReplaceInv'
  BY ReplaceInvStep
<1>3. ReplaceInv => MutexesConsistent
  BY DEF ReplaceInv
<1> QED BY <1>1, <1>2, <1>3, PTL DEF SpecRe

------------------------------------------------------------------------------
(* Programs that create one task set.                                        *)

\* t is a task of the set.
Task(t) == t \in Tcbs /\ t < num_tasks

\* Before the first task_create there is nothing to run.
BeforeBoot ==
  cur_tcb = NULL =>
    /\ num_tasks = 0
    /\ \A d \in Devices : dev_queue[d] = NULL
    /\ \A m \in Mutexes : pHolding_Tcb[m] = NULL

\* A mutex is free or the running task has it; nobody waits for one.
MutexesOfRunning ==
  \A m \in Mutexes :
    /\ bLock[m] = 1 <=> pHolding_Tcb[m] # NULL
    /\ pHolding_Tcb[m] \in {NULL, cur_tcb} /\ pHolding_Tcb[m] # IDLE_PRIO
    /\ pSleep_queue[m] = NULL

\* holds_lock is ownership.
FlagIsOwnership ==
  \A t \in Tcbs : holds_lock[t] = 1 <=> \E m \in Mutexes : pHolding_Tcb[m] = t

\* Slot 0 is the running task's while it owns a mutex, and empty otherwise.
SlotZeroOfOwner ==
  /\ run_list[0] \in {NULL, cur_tcb}
  /\ run_list[0] # NULL <=> \E m \in Mutexes : pHolding_Tcb[m] # NULL

PriosOfTasks ==
  \A t \in Tcbs : t < num_tasks =>
    /\ native_prio[t] = t + 1
    /\ cur_prio[t] = IF holds_lock[t] = 1 THEN 0 ELSE t + 1

NativeSlots ==
  /\ cur_tcb # NULL => run_list[IDLE_PRIO] = IDLE_PRIO
  /\ \A p \in Prios \ {0, IDLE_PRIO} :
       cur_tcb # NULL /\ run_list[p] # NULL =>
         run_list[p] = p - 1 /\ p <= num_tasks

\* The running task is in its native slot.
RunningIsReady ==
  cur_tcb # NULL =>
    /\ num_tasks \in 1 .. IDLE_PRIO - 1
    /\ cur_tcb # IDLE_PRIO => cur_tcb < num_tasks /\ run_list[cur_tcb + 1] = cur_tcb

\* The waiters of a device are the tasks that are not ready and wait for it.
WaitersNotReady ==
  \A d \in Devices : \A t \in Waiters(d) :
    t < num_tasks /\ event[t] = d /\ run_list[t + 1] = NULL

NotReadyWaits ==
  \A t \in Tcbs : t < num_tasks /\ run_list[t + 1] = NULL =>
    \E d \in Devices : t \in Waiters(d)

OneSetInv ==
  /\ TypeInv
  /\ BeforeBoot
  /\ MutexesOfRunning
  /\ FlagIsOwnership
  /\ SlotZeroOfOwner
  /\ PriosOfTasks
  /\ NativeSlots
  /\ RunningIsReady
  /\ WaitersNotReady
  /\ NotReadyWaits
------------------------------------------------------------------------------

\* Numbers that every step uses.
LEMMA Numbers ==
  /\ IDLE_PRIO \in Int /\ IDLE_PRIO >= 2 /\ 0 \in Prios
  /\ Tcbs = 0 .. IDLE_PRIO /\ Prios = 0 .. IDLE_PRIO
  /\ NULL \notin Tcbs /\ IDLE_PRIO # NULL
  /\ TcbPointers = Tcbs \cup {NULL}
BY NullAssumption, MaxTasksAssumption
DEF IDLE_PRIO, Prios, Tcbs, TcbPointers

\* A dispatch goes to the owner of slot 0 if there is one, and otherwise to
\* the idle task or to a task in its native slot.
LEMMA DispatchPicks ==
  ASSUME NEW list \in [Prios -> TcbPointers], NEW ev, dispatch(list, ev),
         list[IDLE_PRIO] = IDLE_PRIO,
         \A p \in Prios \ {0, IDLE_PRIO} : list[p] # NULL => list[p] = p - 1
  PROVE  /\ list[0] # NULL => cur_tcb' = list[0]
         /\ list[0] = NULL =>
              \/ cur_tcb' = IDLE_PRIO
              \/ /\ cur_tcb' \in Tcbs /\ cur_tcb' + 1 \in Prios \ {0, IDLE_PRIO}
                 /\ list[cur_tcb' + 1] = cur_tcb'
<1> DEFINE h == highest_prio(list)
<1>1. /\ h \in Prios /\ list[h] # NULL /\ cur_tcb' = list[h]
      /\ list[0] # NULL => h <= 0
  BY Numbers, HighestPrio DEF dispatch, highest_tcb
<1>2. CASE list[0] # NULL
  BY <1>1, <1>2, Numbers
<1>3. CASE list[0] = NULL
  <2>1. h # 0
    BY <1>1, <1>3
  <2>2. CASE h = IDLE_PRIO
    BY <1>1, <1>3, <2>2
  <2>3. CASE h # IDLE_PRIO
    <3>1. list[h] = h - 1 /\ h \in Prios \ {0, IDLE_PRIO}
      BY <1>1, <2>1, <2>3
    <3>2. cur_tcb' = h - 1 /\ cur_tcb' + 1 = h /\ cur_tcb' \in Tcbs
      BY <1>1, <3>1, Numbers
    <3> QED BY <1>1, <1>3, <3>1, <3>2
  <2> QED BY <2>2, <2>3
<1> QED BY <1>2, <1>3

\* Before the first task set every queue is empty.
LEMMA NoWaitersBeforeBoot ==
  ASSUME BeforeBoot, cur_tcb = NULL, NEW d \in Devices
  PROVE  Waiters(d) = {}
BY ChainOfNull DEF BeforeBoot, Waiters

LEMMA OneSetInvInit == Init => OneSetInv
<1> SUFFICES ASSUME Init PROVE OneSetInv
  OBVIOUS
<1>1. TypeInv
  BY TypeInvInit
<1>2. BeforeBoot /\ cur_tcb = NULL
  BY DEF Init, BeforeBoot
<1>3. WaitersNotReady /\ NotReadyWaits
  BY <1>2, NoWaitersBeforeBoot, Numbers
  DEF Init, WaitersNotReady, NotReadyWaits
<1>4. MutexesOfRunning /\ FlagIsOwnership /\ SlotZeroOfOwner
  BY Numbers
  DEF Init, MutexesOfRunning, FlagIsOwnership, SlotZeroOfOwner, EmptyList
<1>5. PriosOfTasks /\ NativeSlots /\ RunningIsReady
  BY Numbers DEF Init, PriosOfTasks, NativeSlots, RunningIsReady
<1> QED BY <1>1, <1>2, <1>3, <1>4, <1>5 DEF OneSetInv

\* The first task of a new set runs; nobody waits or holds a mutex.
LEMMA FreshSetStep ==
  ASSUME OneSetInv, TypeInv', NEW n \in 1 .. IDLE_PRIO - 1, task_create(n),
         \A d \in Devices : dev_queue[d] = NULL,
         \A m \in Mutexes : pHolding_Tcb[m] = NULL
  PROVE  OneSetInv' /\ cur_tcb' = 0
<1> USE DEF OneSetInv
<1>1. n \in 1 .. IDLE_PRIO - 1
  OBVIOUS
<1>2. /\ FreshList(n) \in [Prios -> TcbPointers]
      /\ FreshList(n)[0] = NULL /\ FreshList(n)[IDLE_PRIO] = IDLE_PRIO
      /\ \A p \in Prios \ {0, IDLE_PRIO} :
           FreshList(n)[p] = IF p <= n THEN p - 1 ELSE NULL
  <2>1. \A p \in Prios : FreshList(n)[p] =
          IF p = IDLE_PRIO THEN IDLE_PRIO
          ELSE IF p \in 1 .. n THEN p - 1 ELSE NULL
    BY DEF FreshList
  <2>2. \A p \in Prios \ {0, IDLE_PRIO} : p \in 1 .. n <=> p <= n
    BY <1>1, Numbers
  <2>3. FreshList(n) \in [Prios -> TcbPointers]
    <3>1. \A p \in 1 .. n : p - 1 \in TcbPointers
      BY <1>1, Numbers
    <3>2. NULL \in TcbPointers /\ IDLE_PRIO \in TcbPointers
      BY Numbers
    <3> QED BY <3>1, <3>2 DEF FreshList
  <2>4. 0 # IDLE_PRIO /\ 0 \notin 1 .. n /\ IDLE_PRIO \in Prios
    BY <1>1, Numbers
  <2> QED BY <2>1, <2>2, <2>3, <2>4, Numbers
<1>3. cur_tcb' = 0
  <2>1. /\ 1 \in Prios \ {0, IDLE_PRIO} /\ FreshList(n)[1] = 0
        /\ \A q \in Prios : q < 1 => FreshList(n)[q] = NULL
    <3>1. 1 \in Prios /\ 1 # 0 /\ 1 # IDLE_PRIO /\ 1 <= n /\ 1 - 1 = 0
      BY <1>1, Numbers
    <3>2. \A q \in Prios : q < 1 => q = 0
      BY Numbers
    <3> QED BY <1>2, <3>1, <3>2
  <2>2. 0 # NULL
    BY Numbers
  <2>3. highest_tcb(FreshList(n)) = 0
    BY <1>2, <2>1, <2>2, HighestIs
  <2> QED BY <2>3 DEF task_create, dispatch
<1>4. run_list' = FreshList(n) /\ num_tasks' = n
  BY DEF task_create
<1>5. ASSUME NEW d \in Devices PROVE Waiters(d)' = {}
  BY ChainOfNull DEF Waiters, task_create
<1>6. BeforeBoot'
  BY <1>3, Numbers DEF BeforeBoot
<1>7. \A m \in Mutexes : /\ bLock'[m] = bLock[m] /\ pHolding_Tcb'[m] = NULL
                         /\ bLock[m] # 1 /\ pSleep_queue'[m] = NULL
  BY DEF MutexesOfRunning, task_create, mutex_vars
<1>8. MutexesOfRunning'
  BY <1>7, Numbers DEF MutexesOfRunning
<1>9. FlagIsOwnership' /\ \A t \in Tcbs : holds_lock'[t] # 1
  BY <1>7, Numbers DEF FlagIsOwnership, task_create
<1>10. SlotZeroOfOwner'
  BY <1>2, <1>4, <1>7 DEF SlotZeroOfOwner
<1>11. PriosOfTasks'
  BY <1>1, <1>4, <1>9, Numbers DEF PriosOfTasks, FreshPrio, task_create
<1>12. NativeSlots'
  BY <1>1, <1>2, <1>4, Numbers DEF NativeSlots
<1>13. RunningIsReady'
  <2>1. 0 + 1 \in Prios \ {0, IDLE_PRIO} /\ 0 + 1 <= n /\ 0 < n
    BY <1>1, Numbers
  <2> QED BY <1>1, <1>2, <1>3, <1>4, <2>1, Numbers DEF RunningIsReady
<1>14. WaitersNotReady'
  BY <1>5 DEF WaitersNotReady
<1>15. NotReadyWaits'
  <2>1. ASSUME NEW t \in Tcbs, t < n PROVE FreshList(n)[t + 1] # NULL
    <3>1. t + 1 \in Prios \ {0, IDLE_PRIO} /\ t + 1 <= n /\ (t + 1) - 1 = t
      BY <1>1, <2>1, Numbers
    <3> QED BY <1>2, <3>1, Numbers
  <2> QED BY <1>4, <2>1 DEF NotReadyWaits
<1> QED BY <1>3, <1>6, <1>8, <1>9, <1>10, <1>11, <1>12, <1>13, <1>14, <1>15

\* The first task set of a program.
LEMMA BootStep ==
  ASSUME SmallSets, OneSetInv, TypeInv',
         cur_tcb = NULL, NEW n \in TaskSetSizes, task_create(n)
  PROVE  OneSetInv'
<1>1. n \in 1 .. IDLE_PRIO - 1
  BY MaxTasksAssumption DEF SmallSets, IDLE_PRIO
<1>2. /\ \A d \in Devices : dev_queue[d] = NULL
      /\ \A m \in Mutexes : pHolding_Tcb[m] = NULL
  BY DEF OneSetInv, BeforeBoot
<1> QED BY <1>1, <1>2, FreshSetStep

\* The running task takes a free mutex.
LEMMA LockStep ==
  ASSUME OneSetInv, TypeInv',
         NEW c \in Tcbs, NEW m \in Mutexes, mutex_lock_free(c, m)
  PROVE  OneSetInv'
<1> USE DEF OneSetInv, mutex_lock_free
<1>1. /\ c = cur_tcb /\ c # NULL /\ c # IDLE_PRIO /\ cur_tcb' = cur_tcb
      /\ TypeOK /\ c < num_tasks
  BY DEF Running, TypeInv, RunningIsReady
<1>2. /\ run_list'[0] = c
      /\ \A p \in Prios \ {0} : run_list'[p] = run_list[p]
  BY <1>1, Numbers DEF TypeOK
<1>3. \A d \in Devices : Waiters(d)' = Waiters(d)
  BY DEF Waiters, dev_vars
<1>4. \A k \in Mutexes : pHolding_Tcb'[k] = IF k = m THEN c ELSE pHolding_Tcb[k]
  BY <1>1 DEF TypeOK
<1>5. BeforeBoot'
  BY <1>1 DEF BeforeBoot
<1>6. MutexesOfRunning'
  BY <1>1, <1>4 DEF MutexesOfRunning, TypeOK
<1>7. FlagIsOwnership'
  <2>1. ASSUME NEW t \in Tcbs
        PROVE  holds_lock'[t] = 1 <=> \E k \in Mutexes : pHolding_Tcb'[k] = t
    <3>1. CASE t = c
      BY <1>1, <1>4, <3>1 DEF TypeOK
    <3>2. CASE t # c
      <4>1. pHolding_Tcb[m] # t
        BY <1>1, <3>2, Numbers DEF MutexesOfRunning
      <4> QED BY <1>1, <1>4, <3>2, <4>1 DEF FlagIsOwnership, TypeOK
    <3> QED BY <3>1, <3>2
  <2> QED BY <2>1 DEF FlagIsOwnership
<1>8. SlotZeroOfOwner'
  BY <1>1, <1>2, <1>4 DEF SlotZeroOfOwner
<1>9. PriosOfTasks'
  BY <1>1 DEF PriosOfTasks, TypeOK
<1>10. NativeSlots'
  BY <1>1, <1>2, Numbers DEF NativeSlots
<1>11. /\ \A t \in Tcbs : t < num_tasks => t + 1 \in Prios \ {0}
       /\ num_tasks' = num_tasks
  BY <1>1, Numbers DEF RunningIsReady
<1>12. RunningIsReady'
  BY <1>1, <1>2, <1>11 DEF RunningIsReady
<1>13. WaitersNotReady'
  <2>1. \A d \in Devices : Waiters(d) \subseteq Tcbs
    BY ChainClosed DEF Waiters, TypeInv, TypeOK, Links
  <2> QED BY <1>2, <1>3, <1>11, <2>1 DEF WaitersNotReady
<1>14. NotReadyWaits'
  BY <1>2, <1>3, <1>11 DEF NotReadyWaits
<1> QED BY <1>5, <1>6, <1>7, <1>8, <1>9, <1>10, <1>12, <1>13, <1>14
\* The running task releases a mutex; with its last one it leaves slot 0.
LEMMA UnlockStep ==
  ASSUME OneSetInv, TypeInv',
         NEW c \in Tcbs, NEW m \in Mutexes, mutex_unlock_free(c, m)
  PROVE  OneSetInv'
<1> USE DEF OneSetInv, mutex_unlock_free
<1> DEFINE other == holds_other_lock(c, m)
<1>1. /\ c = cur_tcb /\ c # NULL /\ c # IDLE_PRIO /\ cur_tcb' = cur_tcb
      /\ TypeOK /\ c < num_tasks /\ num_tasks' = num_tasks
      /\ num_tasks \in 1 .. IDLE_PRIO - 1 /\ run_list[c + 1] = c
  BY DEF Running, TypeInv, RunningIsReady
<1>2. /\ c + 1 \in Prios \ {0, IDLE_PRIO} /\ native_prio[c] = c + 1
      /\ \A t \in Tcbs : t < num_tasks => t + 1 \in Prios \ {0}
  BY <1>1, Numbers DEF PriosOfTasks
<1>3. \A k \in Mutexes : pHolding_Tcb'[k] = IF k = m THEN NULL ELSE pHolding_Tcb[k]
  BY <1>1 DEF TypeOK
<1>4. other <=> \E k \in Mutexes : pHolding_Tcb'[k] # NULL
  BY <1>1, <1>3 DEF holds_other_lock, MutexesOfRunning
<1>5. \A p \in Prios : run_list'[p] = IF p = 0 /\ ~other THEN NULL ELSE run_list[p]
  BY <1>1, <1>2, Numbers DEF ListAfterRelease, TypeOK
<1>6. \A d \in Devices : Waiters(d)' = Waiters(d)
  BY DEF Waiters, dev_vars
<1>7. BeforeBoot'
  BY <1>1 DEF BeforeBoot
<1>8. MutexesOfRunning'
  BY <1>1, <1>3, Numbers DEF MutexesOfRunning, TypeOK
<1>9. \A t \in Tcbs :
        holds_lock'[t] = IF t = c THEN IF other THEN 1 ELSE 0 ELSE holds_lock[t]
  BY <1>1 DEF LockFlagAfterRelease, TypeOK
<1>10. FlagIsOwnership'
  <2>1. ASSUME NEW t \in Tcbs
        PROVE  holds_lock'[t] = 1 <=> \E k \in Mutexes : pHolding_Tcb'[k] = t
    <3>1. CASE t = c
      BY <1>1, <1>3, <1>9, <3>1 DEF holds_other_lock
    <3>2. CASE t # c
      BY <1>1, <1>3, <1>9, <3>2, Numbers DEF FlagIsOwnership
    <3> QED BY <3>1, <3>2
  <2> QED BY <2>1 DEF FlagIsOwnership
<1>11. SlotZeroOfOwner'
  <2>1. run_list[0] = c
    BY <1>1 DEF SlotZeroOfOwner
  <2> QED BY <1>1, <1>4, <1>5, <2>1, Numbers DEF SlotZeroOfOwner
<1>12. PriosOfTasks'
  <2>1. holds_lock[c] = 1
    BY <1>1 DEF FlagIsOwnership
  <2>2. \A t \in Tcbs :
          cur_prio'[t] = IF t = c /\ ~other THEN c + 1 ELSE cur_prio[t]
    BY <1>1, <1>2 DEF PrioAfterRelease, TypeOK
  <2> QED BY <1>1, <1>2, <1>9, <2>1, <2>2 DEF PriosOfTasks
<1>13. NativeSlots'
  BY <1>1, <1>5, Numbers DEF NativeSlots
<1>14. RunningIsReady'
  BY <1>1, <1>2, <1>5 DEF RunningIsReady
<1>15. WaitersNotReady'
  <2>1. \A d \in Devices : Waiters(d) \subseteq Tcbs
    BY <1>1, ChainClosed DEF Waiters, TypeOK, Links
  <2> QED BY <1>1, <1>2, <1>5, <1>6, <2>1 DEF WaitersNotReady
<1>16. NotReadyWaits'
  BY <1>1, <1>2, <1>5, <1>6 DEF NotReadyWaits
<1> QED BY <1>7, <1>8, <1>10, <1>11, <1>12, <1>13, <1>14, <1>15, <1>16

\* The tcbs that wait for a device are tasks of the set in their native
\* priority, none of them is running, and each waits for one device.
LEMMA Waiting ==
  ASSUME OneSetInv, NEW d \in Devices, NEW t \in Waiters(d)
  PROVE  /\ t \in Tcbs /\ t < num_tasks /\ t # cur_tcb /\ t # IDLE_PRIO
         /\ t + 1 \in Prios \ {0, IDLE_PRIO}
         /\ run_list[t + 1] = NULL /\ event[t] = d
         /\ cur_prio[t] = t + 1 /\ native_prio[t] = t + 1
         /\ \A e \in Devices : t \in Waiters(e) => e = d
<1> USE DEF OneSetInv
<1>1. t \in Tcbs /\ t < num_tasks /\ run_list[t + 1] = NULL /\ event[t] = d
  BY ChainClosed DEF Waiters, TypeInv, TypeOK, Links, WaitersNotReady
<1>2. cur_tcb # NULL
  BY NoWaitersBeforeBoot
<1>3. num_tasks \in 1 .. IDLE_PRIO - 1 /\ t # cur_tcb
  BY <1>1, <1>2, Numbers DEF RunningIsReady
<1>4. t # IDLE_PRIO /\ t + 1 \in Prios \ {0, IDLE_PRIO}
  BY <1>1, <1>3, Numbers
<1>5. holds_lock[t] # 1
  BY <1>1, <1>3, Numbers DEF FlagIsOwnership, MutexesOfRunning
<1>6. cur_prio[t] = t + 1 /\ native_prio[t] = t + 1
  BY <1>1, <1>5 DEF PriosOfTasks
<1>7. \A e \in Devices : t \in Waiters(e) => e = d
  BY <1>1 DEF WaitersNotReady
<1> QED BY <1>1, <1>3, <1>4, <1>6, <1>7

\* A caller of event_wait joins the queue of its device and leaves the others
\* as they are.
LEMMA QueuesAfterWait ==
  ASSUME OneSetInv, NEW c \in Tcbs, NEW d \in Devices, event_wait(c, d)
  PROVE  \A e \in Devices :
           Waiters(e)' = IF e = d THEN Waiters(d) \cup {c} ELSE Waiters(e)
<1>1. /\ sleep_queue \in Links /\ dev_queue \in [Devices -> TcbPointers]
      /\ Ends(sleep_queue)
      /\ \A e \in Devices : dev_queue'[e] =
           IF e = d THEN HeadAfter(dev_queue[d], c) ELSE dev_queue[e]
      /\ sleep_queue' = Appended(dev_queue[d], c)
  BY DEF event_wait, OneSetInv, TypeInv, TypeOK, Links
<1>2. \A e \in Devices : c \notin Waiters(e)
  BY Waiting DEF event_wait, Running
<1>3. Waiters(d)' = Waiters(d) \cup {c}
  <2>1. c \notin Chain(dev_queue[d], sleep_queue)
    BY <1>2 DEF Waiters
  <2>2. Chain(HeadAfter(dev_queue[d], c), Appended(dev_queue[d], c))
          = Chain(dev_queue[d], sleep_queue) \cup {c}
    BY <1>1, <2>1, AppendedChain
  <2> QED BY <1>1, <2>2 DEF Waiters
<1>4. ASSUME NEW e \in Devices, e # d PROVE Waiters(e)' = Waiters(e)
  <2>1. c \notin Chain(dev_queue[e], sleep_queue)
    BY <1>2 DEF Waiters
  <2>2. Waiters(e) \cap Waiters(d) = {}
    BY <1>4, Waiting
  <2>3. Chain(dev_queue[e], Appended(dev_queue[d], c))
          = Chain(dev_queue[e], sleep_queue)
    BY <1>1, <2>1, <2>2, AppendedOther DEF Waiters
  <2> QED BY <1>1, <1>4, <2>3 DEF Waiters
<1> QED BY <1>3, <1>4

\* The running task, which holds no mutex, waits for a device.
LEMMA WaitStep ==
  ASSUME OneSetInv, TypeInv',
         NEW c \in Tcbs, NEW d \in Devices, event_wait(c, d)
  PROVE  OneSetInv'
<1> USE DEF OneSetInv, event_wait
<1> DEFINE list == [run_list EXCEPT ![cur_prio[c]] = NULL]
<1>1. /\ c = cur_tcb /\ c # NULL /\ c # IDLE_PRIO /\ holds_lock[c] = 0
      /\ TypeOK /\ Ends(sleep_queue)
      /\ c < num_tasks /\ num_tasks' = num_tasks
      /\ num_tasks \in 1 .. IDLE_PRIO - 1 /\ run_list[c + 1] = c
  BY DEF Running, TypeInv, RunningIsReady
<1>2. /\ c + 1 \in Prios \ {0, IDLE_PRIO} /\ cur_prio[c] = c + 1
      /\ \A t \in Tcbs : t < num_tasks => t + 1 \in Prios \ {0}
  BY <1>1, Numbers DEF PriosOfTasks
<1>3. \A m \in Mutexes : pHolding_Tcb[m] = NULL /\ pHolding_Tcb'[m] = NULL
  BY <1>1 DEF FlagIsOwnership, MutexesOfRunning, mutex_vars
<1>4. /\ list \in [Prios -> TcbPointers] /\ run_list' = list
      /\ \A p \in Prios : list[p] = IF p = c + 1 THEN NULL ELSE run_list[p]
  BY <1>1, <1>2, Numbers DEF TypeOK
<1>5. /\ list[0] = NULL /\ list[IDLE_PRIO] = IDLE_PRIO
      /\ \A p \in Prios \ {0, IDLE_PRIO} : list[p] # NULL => list[p] = p - 1
  BY <1>1, <1>2, <1>3, <1>4, Numbers DEF SlotZeroOfOwner, NativeSlots
<1>6. \/ cur_tcb' = IDLE_PRIO
      \/ /\ cur_tcb' \in Tcbs /\ cur_tcb' + 1 \in Prios \ {0, IDLE_PRIO}
         /\ list[cur_tcb' + 1] = cur_tcb'
  BY <1>4, <1>5, DispatchPicks
<1>7. cur_tcb' # c /\ cur_tcb' # NULL
  BY <1>1, <1>2, <1>4, <1>6, Numbers
<1>8. \A e \in Devices : c \notin Waiters(e) /\ cur_tcb' \notin Waiters(e)
  BY <1>1, <1>4, <1>6, <1>7, Waiting, Numbers
<1>9. \A e \in Devices :
        Waiters(e)' = IF e = d THEN Waiters(d) \cup {c} ELSE Waiters(e)
  BY QueuesAfterWait
<1>10. \A t \in Tcbs : t # cur_tcb' =>
         event'[t] = IF t = c THEN d ELSE event[t]
  BY <1>1 DEF dispatch, TypeOK
<1>11. BeforeBoot'
  BY <1>7 DEF BeforeBoot
<1>12. MutexesOfRunning'
  BY <1>3, Numbers DEF MutexesOfRunning, mutex_vars
<1>13. FlagIsOwnership'
  BY <1>3 DEF FlagIsOwnership, mutex_vars
<1>14. SlotZeroOfOwner'
  BY <1>3, <1>4, <1>5 DEF SlotZeroOfOwner
<1>15. PriosOfTasks'
  BY <1>1 DEF PriosOfTasks
<1>16. NativeSlots'
  BY <1>1, <1>4, <1>5 DEF NativeSlots
<1>17. RunningIsReady'
  <2>1. ASSUME cur_tcb' # IDLE_PRIO
        PROVE  cur_tcb' < num_tasks /\ list[cur_tcb' + 1] = cur_tcb'
    <3>1. /\ cur_tcb' \in Tcbs /\ cur_tcb' + 1 \in Prios \ {0, IDLE_PRIO}
          /\ list[cur_tcb' + 1] = cur_tcb'
      BY <1>6, <2>1
    <3>2. run_list[cur_tcb' + 1] # NULL
      BY <1>4, <1>7, <3>1
    <3>3. cur_tcb' + 1 <= num_tasks
      BY <1>1, <3>1, <3>2 DEF NativeSlots
    <3>4. cur_tcb' \in Int /\ num_tasks \in Int
      BY <1>1, <3>1, Numbers
    <3>5. cur_tcb' < num_tasks
      BY <3>3, <3>4
    <3> QED BY <3>1, <3>5
  <2> QED BY <1>1, <1>4, <2>1 DEF RunningIsReady
<1>18. WaitersNotReady'
  <2>1. ASSUME NEW e \in Devices, NEW t \in Waiters(e)'
        PROVE  t < num_tasks /\ event'[t] = e /\ list[t + 1] = NULL
    <3>1. CASE t = c
      <4>1. e = d
        BY <1>8, <1>9, <3>1
      <4> QED BY <1>1, <1>2, <1>4, <1>7, <1>10, <3>1, <4>1
    <3>2. CASE t # c
      <4>1. t \in Waiters(e)
        BY <1>9, <3>2
      <4>2. /\ t \in Tcbs /\ t < num_tasks /\ t + 1 \in Prios
            /\ run_list[t + 1] = NULL /\ event[t] = e
        BY <4>1, Waiting
      <4> QED BY <1>4, <1>8, <1>10, <3>2, <4>1, <4>2
    <3> QED BY <3>1, <3>2
  <2> QED BY <1>1, <1>4, <2>1 DEF WaitersNotReady
<1>19. NotReadyWaits'
  <2>1. ASSUME NEW t \in Tcbs, t < num_tasks, list[t + 1] = NULL
        PROVE  \E e \in Devices : t \in Waiters(e)'
    <3>1. CASE t = c
      BY <1>9, <3>1
    <3>2. CASE t # c
      <4>1. t + 1 \in Prios /\ t + 1 # c + 1
        BY <1>2, <2>1, <3>2, Numbers
      <4>2. PICK e \in Devices : t \in Waiters(e)
        BY <1>4, <2>1, <4>1 DEF NotReadyWaits
      <4> QED BY <1>9, <4>2
    <3> QED BY <3>1, <3>2
  <2> QED BY <1>1, <1>4, <2>1 DEF NotReadyWaits
<1> QED BY <1>11, <1>12, <1>13, <1>14, <1>15, <1>16, <1>17, <1>18, <1>19

\* What an interrupt does to the run queue: the waiters of the devices that
\* fired are back in their native slots and nothing else changes.
LEMMA WakeList ==
  ASSUME OneSetInv, NEW lag
  PROVE  LET list == ListAfterWake(lag)
         IN  /\ list \in [Prios -> TcbPointers]
             /\ \A p \in Prios : list[p] # run_list[p] =>
                  /\ p \in Prios \ {0, IDLE_PRIO} /\ p <= num_tasks
                  /\ list[p] = p - 1
                  /\ \E d \in Fired(lag) : p - 1 \in Waiters(d)
             /\ \A d \in Fired(lag) : \A t \in Waiters(d) : list[t + 1] = t
<1> USE DEF OneSetInv
<1> DEFINE list == ListAfterWake(lag)
<1>1. list \in [Prios -> TcbPointers]
  BY ListAfterWakeType
<1>2. ASSUME NEW p \in Prios,
             \E d \in Fired(lag) : \E t \in Waiters(d) : cur_prio[t] = p
      PROVE  /\ p \in Prios \ {0, IDLE_PRIO} /\ p <= num_tasks
             /\ list[p] = p - 1
             /\ \E d \in Fired(lag) : p - 1 \in Waiters(d)
  <2>1. list[p] = LastWoken(lag, p)
    BY <1>2 DEF ListAfterWake
  <2>2. PICK d \in Fired(lag) :
          LastWoken(lag, p) \in Waiters(d) /\ cur_prio[LastWoken(lag, p)] = p
    BY <1>2, LastWokenExists
  <2>3. d \in Devices
    BY DEF Fired
  <2>4. /\ list[p] \in Tcbs /\ list[p] < num_tasks /\ p = list[p] + 1
        /\ list[p] + 1 \in Prios \ {0, IDLE_PRIO}
    BY <2>1, <2>2, <2>3, Waiting
  <2>5. num_tasks \in Int /\ list[p] \in Int
    <3>1. num_tasks \in 0 .. OS_MAX_TASKS - 1
      BY DEF TypeInv, TypeOK
    <3> QED BY <2>4, <3>1, Numbers, MaxTasksAssumption
  <2>6. list[p] = p - 1 /\ p <= num_tasks
    BY <2>4, <2>5
  <2> QED BY <2>1, <2>2, <2>4, <2>6
<1>3. ASSUME NEW p \in Prios, list[p] # run_list[p]
      PROVE  \E d \in Fired(lag) : \E t \in Waiters(d) : cur_prio[t] = p
  BY <1>3 DEF ListAfterWake
<1>4. ASSUME NEW d \in Fired(lag), NEW t \in Waiters(d)
      PROVE  list[t + 1] = t
  <2>1. t \in Tcbs /\ t + 1 \in Prios /\ cur_prio[t] = t + 1
    BY Waiting DEF Fired
  <2>2. list[t + 1] = (t + 1) - 1
    BY <1>2, <2>1
  <2> QED BY <2>1, <2>2, Numbers
<1> QED BY <1>1, <1>2, <1>3, <1>4

\* The queues of the devices that fired are empty afterwards.
LEMMA QueuesAfterTick ==
  ASSUME NEW lag, timer_irq(lag)
  PROVE  \A d \in Devices :
           Waiters(d)' = IF d \in Fired(lag) THEN {} ELSE Waiters(d)
<1>1. /\ sleep_queue' = sleep_queue
      /\ \A d \in Devices :
           dev_queue'[d] = IF d \in Fired(lag) THEN NULL ELSE dev_queue[d]
  BY DEF timer_irq
<1> QED BY <1>1, ChainOfNull DEF Waiters

\* An interrupt leaves slot 0 alone, and the task that has it keeps the cpu.
LEMMA OwnerRunsOn ==
  ASSUME OneSetInv, NEW lag, timer_irq(lag)
  PROVE  /\ run_list'[0] = run_list[0]
         /\ run_list[0] # NULL => cur_tcb' = cur_tcb
<1> DEFINE list == ListAfterWake(lag)
<1>1. cur_tcb # NULL /\ run_list' = list /\ dispatch(list, event)
  BY DEF timer_irq
<1>2. /\ list \in [Prios -> TcbPointers]
      /\ \A p \in Prios : list[p] # run_list[p] =>
           p \in Prios \ {0, IDLE_PRIO} /\ list[p] = p - 1
  BY WakeList
<1>3. list[0] = run_list[0] /\ list[IDLE_PRIO] = IDLE_PRIO
  BY <1>1, <1>2, Numbers DEF OneSetInv, NativeSlots
<1>4. \A p \in Prios \ {0, IDLE_PRIO} : list[p] # NULL => list[p] = p - 1
  BY <1>1, <1>2 DEF OneSetInv, NativeSlots
<1>5. run_list[0] # NULL => cur_tcb' = cur_tcb
  BY <1>1, <1>2, <1>3, <1>4, DispatchPicks DEF OneSetInv, SlotZeroOfOwner
<1> QED BY <1>1, <1>3, <1>5

\* The timer interrupt.
LEMMA TickStep ==
  ASSUME OneSetInv, TypeInv', NEW lag \in 1 .. MaxTickLag, timer_irq(lag)
  PROVE  OneSetInv'
<1> USE DEF OneSetInv, timer_irq
<1> DEFINE list == ListAfterWake(lag)
<1>1. /\ TypeOK /\ cur_tcb # NULL /\ num_tasks' = num_tasks
      /\ num_tasks \in 1 .. IDLE_PRIO - 1 /\ run_list' = list
      /\ cur_tcb # IDLE_PRIO => cur_tcb < num_tasks /\ run_list[cur_tcb + 1] = cur_tcb
  BY DEF TypeInv, RunningIsReady
<1>2. /\ list \in [Prios -> TcbPointers]
      /\ \A p \in Prios : list[p] # run_list[p] =>
           /\ p \in Prios \ {0, IDLE_PRIO} /\ p <= num_tasks
           /\ list[p] = p - 1
           /\ \E d \in Fired(lag) : p - 1 \in Waiters(d)
      /\ \A d \in Fired(lag) : \A t \in Waiters(d) : list[t + 1] = t
  BY WakeList
<1>3. list[0] = run_list[0] /\ list[IDLE_PRIO] = IDLE_PRIO
  BY <1>1, <1>2, Numbers DEF NativeSlots
<1>4. \A p \in Prios \ {0, IDLE_PRIO} :
        list[p] # NULL => list[p] = p - 1 /\ p <= num_tasks
  BY <1>1, <1>2 DEF NativeSlots
<1>5. \/ cur_tcb' = IDLE_PRIO
      \/ /\ cur_tcb' \in Tcbs /\ cur_tcb' + 1 \in Prios \ {0, IDLE_PRIO}
         /\ list[cur_tcb' + 1] = cur_tcb'
  <2>1. CASE run_list[0] # NULL
    <3>1. cur_tcb' = cur_tcb
      BY <1>2, <1>3, <1>4, <2>1, DispatchPicks DEF SlotZeroOfOwner
    <3>2. cur_tcb # IDLE_PRIO
      BY <2>1 DEF SlotZeroOfOwner, MutexesOfRunning
    <3>3. cur_tcb \in Tcbs /\ cur_tcb + 1 \in Prios \ {0, IDLE_PRIO}
      <4>1. cur_tcb \in Tcbs
        BY <1>1, Numbers DEF TypeOK
      <4> QED BY <1>1, <3>2, <4>1, Numbers
    <3>4. list[cur_tcb + 1] = cur_tcb
      <4>1. CASE list[cur_tcb + 1] = run_list[cur_tcb + 1]
        BY <1>1, <3>2, <4>1
      <4>2. CASE list[cur_tcb + 1] # run_list[cur_tcb + 1]
        <5>1. list[cur_tcb + 1] = (cur_tcb + 1) - 1 /\ cur_tcb \in Int
          BY <1>2, <3>3, <4>2, Numbers
        <5> QED BY <5>1
      <4> QED BY <4>1, <4>2
    <3> QED BY <3>1, <3>3, <3>4
  <2>2. CASE run_list[0] = NULL
    BY <1>2, <1>3, <1>4, <2>2, DispatchPicks
  <2> QED BY <2>1, <2>2
<1>6. run_list[0] # NULL => cur_tcb' = cur_tcb
  BY OwnerRunsOn
<1>7. cur_tcb' # NULL
  BY <1>5, Numbers
<1>8. \A d \in Devices :
        Waiters(d)' = IF d \in Fired(lag) THEN {} ELSE Waiters(d)
  BY QueuesAfterTick
<1>9. BeforeBoot'
  BY <1>7 DEF BeforeBoot
<1>10. MutexesOfRunning'
  BY <1>6 DEF MutexesOfRunning, SlotZeroOfOwner, mutex_vars
<1>11. FlagIsOwnership'
  BY DEF FlagIsOwnership, mutex_vars
<1>12. SlotZeroOfOwner'
  BY <1>1, <1>3, <1>6 DEF SlotZeroOfOwner, mutex_vars
<1>13. PriosOfTasks'
  <2>1. \A t \in Tcbs : t < num_tasks => native_prio'[t] = t + 1
    BY Waiting DEF NativeAfterWake, Fired, PriosOfTasks
  <2> QED BY <1>1, <2>1 DEF PriosOfTasks
<1>14. NativeSlots'
  BY <1>1, <1>3, <1>4 DEF NativeSlots
<1>15. RunningIsReady'
  <2>1. ASSUME cur_tcb' # IDLE_PRIO
        PROVE  cur_tcb' < num_tasks /\ list[cur_tcb' + 1] = cur_tcb'
    <3>1. /\ cur_tcb' \in Tcbs /\ cur_tcb' + 1 \in Prios \ {0, IDLE_PRIO}
          /\ list[cur_tcb' + 1] = cur_tcb'
      BY <1>5, <2>1
    <3>2. cur_tcb' + 1 <= num_tasks
      BY <1>4, <1>7, <3>1
    <3>3. cur_tcb' \in Int /\ num_tasks \in Int
      BY <1>1, <3>1, Numbers
    <3>4. \A x, y \in Int : x + 1 <= y => x < y
      OBVIOUS
    <3>5. cur_tcb' < num_tasks
      BY <3>2, <3>3, <3>4
    <3> QED BY <3>1, <3>5
  <2> QED BY <1>1, <2>1 DEF RunningIsReady
<1>16. WaitersNotReady'
  <2>1. ASSUME NEW d \in Devices, NEW t \in Waiters(d)'
        PROVE  t < num_tasks /\ event'[t] = d /\ list[t + 1] = NULL
    <3>1. d \notin Fired(lag) /\ t \in Waiters(d)
      BY <1>8
    <3>2. /\ t \in Tcbs /\ t < num_tasks /\ t # IDLE_PRIO /\ t + 1 \in Prios
          /\ run_list[t + 1] = NULL /\ event[t] = d
          /\ \A e \in Devices : t \in Waiters(e) => e = d
      BY <3>1, Waiting
    <3>3. list[t + 1] = NULL
      <4>1. SUFFICES ASSUME list[t + 1] # run_list[t + 1] PROVE FALSE
        BY <3>2
      <4>2. PICK e \in Fired(lag) : (t + 1) - 1 \in Waiters(e)
        BY <1>2, <3>2, <4>1
      <4>3. (t + 1) - 1 = t /\ e \in Devices
        BY <3>2, Numbers DEF Fired
      <4> QED BY <3>1, <3>2, <4>2, <4>3
    <3>4. t # cur_tcb'
      BY <1>5, <3>2, <3>3, Numbers
    <3>5. event'[t] = d
      BY <1>1, <3>2, <3>4 DEF dispatch, TypeOK
    <3> QED BY <3>2, <3>3, <3>5
  <2> QED BY <1>1, <2>1 DEF WaitersNotReady
<1>17. NotReadyWaits'
  <2>1. ASSUME NEW t \in Tcbs, t < num_tasks, list[t + 1] = NULL
        PROVE  \E d \in Devices : t \in Waiters(d)'
    <3>1. t + 1 \in Prios /\ (t + 1) - 1 = t /\ t # NULL
      BY <1>1, <2>1, Numbers
    <3>2. run_list[t + 1] = NULL
      BY <1>2, <2>1, <3>1
    <3>3. PICK d \in Devices : t \in Waiters(d)
      BY <2>1, <3>2 DEF NotReadyWaits
    <3>4. d \notin Fired(lag)
      BY <1>2, <2>1, <3>1, <3>3
    <3> QED BY <1>8, <3>3, <3>4
  <2> QED BY <1>1, <2>1 DEF NotReadyWaits
<1> QED BY <1>9, <1>10, <1>11, <1>12, <1>13, <1>14, <1>15, <1>16, <1>17

\* Every step of a program that has its task set keeps the invariant.  The two
\* actions on a mutex that somebody waits for never happen.
LEMMA CallOrTickStep ==
  ASSUME OneSetInv, SystemCall \/ Tick \/ UNCHANGED vars
  PROVE  OneSetInv'
<1>1. TypeInv'
  BY TypeInvStep DEF NextRe, Next, OneSetInv
<1>3. CASE mutex_create
  <2>1. \A d \in Devices : Waiters(d)' = Waiters(d)
    BY <1>3 DEF Waiters, mutex_create, dev_vars, tcb_vars
  <2> QED BY <1>1, <1>3, <2>1
      DEF mutex_create, OneSetInv, BeforeBoot, MutexesOfRunning,
          FlagIsOwnership, SlotZeroOfOwner, PriosOfTasks, NativeSlots,
          RunningIsReady, WaitersNotReady, NotReadyWaits, tcb_vars, dev_vars
<1>4. ASSUME NEW c \in Tcbs, NEW m \in Mutexes, mutex_lock_free(c, m)
      PROVE  OneSetInv'
  BY <1>1, <1>4, LockStep
<1>5. ASSUME NEW c \in Tcbs, NEW m \in Mutexes, mutex_lock_contended(c, m)
      PROVE  FALSE
  BY <1>5 DEF mutex_lock_contended, Running, OneSetInv, MutexesOfRunning
<1>6. ASSUME NEW c \in Tcbs, NEW m \in Mutexes, mutex_unlock_free(c, m)
      PROVE  OneSetInv'
  BY <1>1, <1>6, UnlockStep
<1>7. ASSUME NEW c \in Tcbs, NEW m \in Mutexes, mutex_unlock_handoff(c, m)
      PROVE  FALSE
  BY <1>7 DEF mutex_unlock_handoff, OneSetInv, MutexesOfRunning
<1>8. ASSUME NEW c \in Tcbs, NEW d \in Devices, event_wait(c, d)
      PROVE  OneSetInv'
  BY <1>1, <1>8, WaitStep
<1>9. ASSUME NEW lag \in 1 .. MaxTickLag, timer_irq(lag) PROVE OneSetInv'
  BY <1>1, <1>9, TickStep
<1>10. CASE UNCHANGED vars
  <2>1. \A d \in Devices : Waiters(d)' = Waiters(d)
    BY <1>10 DEF Waiters, vars, dev_vars, tcb_vars
  <2> QED BY <1>1, <1>10, <2>1
      DEF vars, tcb_vars, dev_vars, mutex_vars, OneSetInv, BeforeBoot,
          MutexesOfRunning, FlagIsOwnership, SlotZeroOfOwner, PriosOfTasks,
          NativeSlots, RunningIsReady, WaitersNotReady, NotReadyWaits
<1> QED BY <1>3, <1>4, <1>5, <1>6, <1>7, <1>8, <1>9, <1>10
    DEF SystemCall, Tick

LEMMA OneSetInvStep ==
  ASSUME SmallSets, OneSetInv, [Next]_vars
  PROVE  OneSetInv'
<1>1. CASE Boot
  <2>1. TypeInv'
    BY TypeInvStep DEF NextRe, OneSetInv
  <2> QED BY <1>1, <2>1, BootStep DEF Boot
<1>2. CASE SystemCall \/ Tick \/ UNCHANGED vars
  BY <1>2, CallOrTickStep
<1> QED BY <1>1, <1>2 DEF Next

------------------------------------------------------------------------------
(* The theorems.                                                             *)

\* Mutual exclusion and the priority ceiling (mutex.c:119-126, 163-168): the
\* holder of a mutex is the running task, at every step.
THEOREM MutualExclusion ==
  ASSUME SmallSets
  PROVE  Spec => []HolderIsRunning
<1>1. Init => OneSetInv
  BY OneSetInvInit
<1>2. OneSetInv /\ [Next]_vars => OneSetInv'
  BY OneSetInvStep
<1>3. OneSetInv => HolderIsRunning
  BY DEF OneSetInv, MutexesOfRunning, HolderIsRunning
<1> QED BY <1>1, <1>2, <1>3, PTL DEF Spec

\* What the invariant says of the owners of mutexes.
LEMMA CeilingOfOneSet ==
  ASSUME OneSetInv
  PROVE  RaisedExactlyWhileHolding
<1>1. ASSUME NEW t \in Tcbs, t < num_tasks
      PROVE  (\E m \in Mutexes : pHolding_Tcb[m] = t) <=> run_list[0] = t
  BY <1>1, Numbers DEF OneSetInv, SlotZeroOfOwner, MutexesOfRunning
<1> QED BY <1>1
    DEF OneSetInv, FlagIsOwnership, PriosOfTasks, RaisedExactlyWhileHolding

\* A task is at priority 0, in slot 0 and marked as a holder exactly while it
\* owns a mutex.
THEOREM CeilingExact ==
  ASSUME SmallSets
  PROVE  Spec => []RaisedExactlyWhileHolding
<1>1. Init => OneSetInv
  BY OneSetInvInit
<1>2. OneSetInv /\ [Next]_vars => OneSetInv'
  BY OneSetInvStep
<1>3. OneSetInv => RaisedExactlyWhileHolding
  BY CeilingOfOneSet
<1> QED BY <1>1, <1>2, <1>3, PTL DEF Spec

\* Each task of the set is ready or waits for one device.
LEMMA TasksOfOneSet ==
  ASSUME OneSetInv
  PROVE  NoTaskLost
<1> SUFFICES ASSUME NEW t \in Tcbs, t < num_tasks
             PROVE  /\ run_list[t + 1] \in {t, NULL}
                    /\ run_list[t + 1] = t =>
                         \A d \in Devices : t \notin Waiters(d)
                    /\ run_list[t + 1] = NULL =>
                         \E d \in Devices :
                           /\ t \in Waiters(d) /\ event[t] = d
                           /\ \A e \in Devices \ {d} : t \notin Waiters(e)
  BY DEF NoTaskLost
<1>1. cur_tcb # NULL
  BY Numbers DEF OneSetInv, BeforeBoot
<1>2. t + 1 \in Prios \ {0, IDLE_PRIO} /\ (t + 1) - 1 = t /\ t # NULL
  BY <1>1, Numbers DEF OneSetInv, RunningIsReady
<1>3. run_list[t + 1] \in {t, NULL}
  BY <1>1, <1>2 DEF OneSetInv, NativeSlots
<1>4. \A d \in Devices : t \in Waiters(d) =>
        /\ run_list[t + 1] = NULL /\ event[t] = d
        /\ \A e \in Devices : t \in Waiters(e) => e = d
  BY Waiting
<1>5. run_list[t + 1] = NULL => \E d \in Devices : t \in Waiters(d)
  BY DEF OneSetInv, NotReadyWaits
<1> QED BY <1>2, <1>3, <1>4, <1>5

\* No task is ever lost or in two places: ready in its own slot or waiting for
\* exactly one device (device.c:68-114).
THEOREM TasksConserved ==
  ASSUME SmallSets
  PROVE  Spec => []NoTaskLost
<1>1. Init => OneSetInv
  BY OneSetInvInit
<1>2. OneSetInv /\ [Next]_vars => OneSetInv'
  BY OneSetInvStep
<1>3. OneSetInv => NoTaskLost
  BY TasksOfOneSet
<1> QED BY <1>1, <1>2, <1>3, PTL DEF Spec

------------------------------------------------------------------------------
(* What a step may do.                                                       *)

\* Every step that dispatches leaves the first of the run queue running, and so
\* does none of the others but the release of a mutex.
LEMMA StepKeepsOrder ==
  ASSUME OneSetInv, [Next]_vars
  PROVE  /\ RateMonotonic /\ ~RateMonotonic' =>
              \E m \in Mutexes : bLock[m] = 1 /\ bLock'[m] = 0
         /\ ~RateMonotonic /\ due' # due => RateMonotonic'
<1> DEFINE Released == \E m \in Mutexes : bLock[m] = 1 /\ bLock'[m] = 0
           Ordered == /\ RateMonotonic /\ ~RateMonotonic' => Released
                      /\ ~RateMonotonic /\ due' # due => RateMonotonic'
<1>1. ASSUME NEW ev, dispatch(run_list', ev) PROVE RateMonotonic'
  BY <1>1 DEF dispatch, RateMonotonic
<1>2. ASSUME Boot PROVE Ordered
  <2>1. PICK n \in TaskSetSizes : task_create(n)
    BY <1>2 DEF Boot
  <2>2. dispatch(run_list', [t \in Tcbs |-> IF t < n THEN NULL ELSE event[t]])
    BY <2>1 DEF task_create
  <2> QED BY <1>1, <2>2
<1>3. ASSUME mutex_create \/ UNCHANGED vars PROVE Ordered
  <2>1. /\ cur_tcb' = cur_tcb /\ run_list' = run_list
        /\ holds_lock' = holds_lock /\ due' = due
    BY <1>3 DEF mutex_create, vars, tcb_vars, dev_vars
  <2> QED BY <2>1 DEF RateMonotonic
<1>4. ASSUME NEW c \in Tcbs, NEW m \in Mutexes, mutex_lock_free(c, m)
      PROVE  Ordered
  <2>1. cur_tcb' = c /\ holds_lock'[c] = 1 /\ due' = due
    BY <1>4 DEF mutex_lock_free, Running, dev_vars, OneSetInv, TypeInv, TypeOK
  <2> QED BY <2>1 DEF RateMonotonic
<1>5. ASSUME NEW c \in Tcbs, NEW m \in Mutexes, mutex_unlock_free(c, m)
      PROVE  Ordered
  <2>1. bLock[m] = 1 /\ bLock'[m] = 0 /\ due' = due
    BY <1>5 DEF mutex_unlock_free, Running, dev_vars, OneSetInv, TypeInv, TypeOK,
                MutexesOfRunning
  <2> QED BY <2>1
<1>6. ASSUME NEW c \in Tcbs, NEW m \in Mutexes,
             mutex_lock_contended(c, m) \/ mutex_unlock_handoff(c, m)
      PROVE  FALSE
  BY <1>6 DEF mutex_lock_contended, mutex_unlock_handoff, Running, OneSetInv,
              MutexesOfRunning
<1>7. ASSUME NEW c \in Tcbs, NEW d \in Devices, event_wait(c, d)
      PROVE  Ordered
  <2>1. dispatch(run_list', [event EXCEPT ![c] = d])
    BY <1>7 DEF event_wait
  <2> QED BY <1>1, <2>1
<1>8. ASSUME NEW lag \in 1 .. MaxTickLag, timer_irq(lag) PROVE Ordered
  <2>1. dispatch(run_list', event)
    BY <1>8 DEF timer_irq
  <2> QED BY <1>1, <2>1
<1>9. Ordered
  BY <1>2, <1>3, <1>4, <1>5, <1>6, <1>7, <1>8 DEF Next, SystemCall, Tick
<1> QED BY <1>9

\* Only the release of a mutex lets a task run on while one of higher priority
\* is ready, until the next interrupt (mutex.c:178, c_irq.c:51).
THEOREM PreemptionDelayed ==
  ASSUME SmallSets
  PROVE  Spec => OnlyUnlockDelaysPreemption
<1>1. Init => OneSetInv
  BY OneSetInvInit
<1>2. OneSetInv /\ [Next]_vars => OneSetInv'
  BY OneSetInvStep
<1>3. OneSetInv /\ [Next]_vars =>
        [/\ RateMonotonic /\ ~RateMonotonic' =>
              \E m \in Mutexes : bLock[m] = 1 /\ bLock'[m] = 0
         /\ ~RateMonotonic /\ due' # due => RateMonotonic']_vars
  BY StepKeepsOrder
<1> QED BY <1>1, <1>2, <1>3, PTL DEF Spec, OnlyUnlockDelaysPreemption

\* The null pointer, for which any value that is no tcb will do, is no device
\* either.
NullIsNoDevice == NULL \notin Devices

\* Only tasks of the set are inside event_wait.
EventsOfTasks == \A t \in Tcbs : event[t] # NULL => t < num_tasks

LEMMA EventsOfTasksStep ==
  ASSUME OneSetInv, EventsOfTasks, [Next]_vars
  PROVE  EventsOfTasks'
<1> USE DEF OneSetInv, EventsOfTasks
<1>1. TypeOK
  BY DEF TypeInv
<1>2. ASSUME NEW ev \in [Tcbs -> Devices \cup {NULL}], dispatch(run_list', ev),
             \A t \in Tcbs : ev[t] # NULL => t < num_tasks'
      PROVE  EventsOfTasks'
  BY <1>2 DEF dispatch
<1>3. CASE Boot
  <2>1. PICK n \in TaskSetSizes : task_create(n)
    BY <1>3 DEF Boot
  <2>2. \A t \in Tcbs : event[t] = NULL
    BY <1>1, <1>3, Numbers DEF Boot, BeforeBoot
  <2> DEFINE ev == [t \in Tcbs |-> IF t < n THEN NULL ELSE event[t]]
  <2>3. ev \in [Tcbs -> Devices \cup {NULL}] /\ \A t \in Tcbs : ev[t] = NULL
    BY <1>1, <2>2 DEF TypeOK
  <2>4. dispatch(run_list', ev)
    BY <2>1 DEF task_create
  <2> QED BY <1>2, <2>3, <2>4
<1>4. ASSUME NEW c \in Tcbs, NEW d \in Devices, event_wait(c, d)
      PROVE  EventsOfTasks'
  <2> DEFINE ev == [event EXCEPT ![c] = d]
  <2>1. dispatch(run_list', ev) /\ num_tasks' = num_tasks
    BY <1>4 DEF event_wait
  <2>2. c < num_tasks
    BY <1>4 DEF event_wait, Running, RunningIsReady
  <2>3. ev \in [Tcbs -> Devices \cup {NULL}]
    BY <1>1 DEF TypeOK
  <2>4. \A t \in Tcbs : ev[t] # NULL => t < num_tasks
    BY <1>1, <2>2 DEF TypeOK
  <2> QED BY <1>2, <2>1, <2>3, <2>4
<1>5. ASSUME NEW lag \in 1 .. MaxTickLag, timer_irq(lag) PROVE EventsOfTasks'
  BY <1>1, <1>2, <1>5 DEF timer_irq, TypeOK
<1>6. CASE event' = event /\ num_tasks' = num_tasks
  BY <1>6
<1> QED BY <1>3, <1>4, <1>5, <1>6
    DEF Next, SystemCall, Tick, mutex_create, mutex_lock_free,
        mutex_lock_contended, mutex_unlock_free, mutex_unlock_handoff, vars,
        tcb_vars

\* A task that is inside event_wait and not ready is a waiter of its device.
LEMMA EventIsQueue ==
  ASSUME OneSetInv, EventsOfTasks, NullIsNoDevice,
         NEW t \in Tcbs, NEW d \in Devices, event[t] = d, ~IsReady(t)
  PROVE  t \in Waiters(d) /\ cur_tcb # NULL /\ t # cur_tcb
<1> USE DEF OneSetInv
<1>1. d # NULL
  BY DEF NullIsNoDevice
<1>2. t < num_tasks /\ cur_tcb # NULL
  BY <1>1, Numbers DEF EventsOfTasks, BeforeBoot
<1>3. t + 1 \in Prios \ {0, IDLE_PRIO} /\ (t + 1) - 1 = t
  BY <1>2, Numbers DEF RunningIsReady
<1>4. run_list[t + 1] = NULL
  BY <1>2, <1>3 DEF NativeSlots, IsReady
<1>5. PICK e \in Devices : t \in Waiters(e)
  BY <1>2, <1>4 DEF NotReadyWaits
<1>6. e = d
  BY <1>5, Waiting
<1> QED BY <1>2, <1>5, <1>6, Waiting

\* A task that waits is ready after a step exactly if the step is an interrupt
\* at which its device fires.
LEMMA StepWakes ==
  ASSUME OneSetInv, EventsOfTasks, NullIsNoDevice, [Next]_vars,
         NEW t \in Tcbs, NEW d \in Devices, event[t] = d, ~IsReady(t)
  PROVE  IsReady(t)' <=> due'[d] > due[d]
<1> USE DEF OneSetInv
<1>1. t \in Waiters(d) /\ cur_tcb # NULL /\ t # cur_tcb /\ t # NULL
  BY EventIsQueue, Numbers
<1>2. /\ \A p \in Prios : run_list[p] # t
      /\ due[d] \in Nat /\ TypeOK
  BY DEF IsReady, TypeInv, TypeOK
<1>3. ASSUME due' = due, \A p \in Prios : run_list'[p] # t
      PROVE  IsReady(t)' <=> due'[d] > due[d]
  BY <1>2, <1>3 DEF IsReady
<1>4. CASE mutex_create \/ UNCHANGED vars
  <2>1. run_list' = run_list /\ due' = due
    BY <1>4 DEF mutex_create, vars, dev_vars
  <2> QED BY <1>2, <1>3, <2>1
<1>5. ASSUME NEW c \in Tcbs, NEW m \in Mutexes, mutex_lock_free(c, m)
      PROVE  IsReady(t)' <=> due'[d] > due[d]
  <2>1. c # t /\ run_list' = [run_list EXCEPT ![0] = c] /\ due' = due
    BY <1>1, <1>5 DEF mutex_lock_free, Running, dev_vars
  <2> QED BY <1>2, <1>3, <2>1 DEF TypeOK
<1>6. ASSUME NEW c \in Tcbs, NEW m \in Mutexes, mutex_unlock_free(c, m)
      PROVE  IsReady(t)' <=> due'[d] > due[d]
  <2>1. c # t /\ run_list' = ListAfterRelease(c, m) /\ due' = due
    BY <1>1, <1>6 DEF mutex_unlock_free, Running, dev_vars
  <2>2. \A p \in Prios : run_list'[p] # t
    BY <1>1, <1>2, <2>1 DEF ListAfterRelease, TypeOK
  <2> QED BY <1>3, <2>1, <2>2
<1>7. ASSUME NEW c \in Tcbs, NEW e \in Devices, event_wait(c, e)
      PROVE  IsReady(t)' <=> due'[d] > due[d]
  <2>1. run_list' = [run_list EXCEPT ![cur_prio[c]] = NULL] /\ due' = due
    BY <1>7 DEF event_wait
  <2>2. \A p \in Prios : run_list'[p] # t
    BY <1>1, <1>2, <2>1 DEF TypeOK
  <2> QED BY <1>3, <2>1, <2>2
<1>8. ASSUME NEW lag \in 1 .. MaxTickLag, timer_irq(lag)
      PROVE  IsReady(t)' <=> due'[d] > due[d]
  <2> DEFINE list == ListAfterWake(lag)
  <2>1. run_list' = list /\ due' = DueAfter(lag)
    BY <1>8 DEF timer_irq
  <2>2. due'[d] > due[d] <=> d \in Fired(lag)
    BY <1>2, <2>1, PeriodsAssumption DEF DueAfter
  <2>3. /\ \A p \in Prios : list[p] # run_list[p] =>
             /\ list[p] = p - 1
             /\ \E e \in Fired(lag) : p - 1 \in Waiters(e)
        /\ \A e \in Fired(lag) : \A u \in Waiters(e) : list[u + 1] = u
    BY WakeList
  <2>4. ASSUME d \in Fired(lag) PROVE IsReady(t)'
    <3>1. t + 1 \in Prios
      BY <1>1, Waiting
    <3>2. list[t + 1] = t
      BY <1>1, <2>3, <2>4
    <3> QED BY <2>1, <3>1, <3>2 DEF IsReady
  <2>5. ASSUME d \notin Fired(lag), NEW p \in Prios, list[p] = t PROVE FALSE
    <3>1. list[p] # run_list[p]
      BY <1>2, <2>5
    <3>2. PICK e \in Fired(lag) : t \in Waiters(e)
      BY <2>3, <2>5, <3>1
    <3>3. e \in Devices /\ e = d
      BY <1>1, <3>2, Waiting DEF Fired
    <3> QED BY <2>5, <3>3
  <2> QED BY <2>1, <2>2, <2>4, <2>5 DEF IsReady
<1>9. ASSUME NEW c \in Tcbs, NEW m \in Mutexes,
             mutex_lock_contended(c, m) \/ mutex_unlock_handoff(c, m)
      PROVE  FALSE
  BY <1>9 DEF mutex_lock_contended, mutex_unlock_handoff, Running, MutexesOfRunning
<1> QED BY <1>1, <1>4, <1>5, <1>6, <1>7, <1>8, <1>9
    DEF Next, Boot, SystemCall, Tick

\* A waiting task is woken by its own device, at the event and with all others
\* that wait for it, and by nothing else (device.c:102-113).
THEOREM EventsWakeWaiters ==
  ASSUME SmallSets, NullIsNoDevice
  PROVE  Spec => WokenByOwnDevice
<1> DEFINE Inv == OneSetInv /\ EventsOfTasks
<1>1. Init => Inv
  BY OneSetInvInit DEF Init, EventsOfTasks
<1>2. Inv /\ [Next]_vars => Inv'
  BY OneSetInvStep, EventsOfTasksStep
<1>3. Inv /\ [Next]_vars =>
        [\A t \in Tcbs, d \in Devices :
           event[t] = d /\ ~IsReady(t) =>
             (IsReady(t)' <=> due'[d] > due[d])]_vars
  BY StepWakes
<1> QED BY <1>1, <1>2, <1>3, PTL DEF Spec, WokenByOwnDevice
------------------------------------------------------------------------------
(* The abstract scheduler.                                                   *)

\* What the tasks of the set are in the run queue, for use after a step.
LEMMA TasksInSlots ==
  ASSUME OneSetInv, cur_tcb # NULL
  PROVE  /\ num_tasks \in 1 .. IDLE_PRIO - 1
         /\ ReadyTasks \in SUBSET Nat
         /\ \A p \in Prios \ {0, IDLE_PRIO} :
              run_list[p] # NULL => run_list[p] = p - 1 /\ p - 1 \in ReadyTasks
         /\ \A t \in ReadyTasks : t + 1 \in Prios \ {0, IDLE_PRIO}
<1> USE DEF OneSetInv
<1>1. num_tasks \in 1 .. IDLE_PRIO - 1
  BY DEF RunningIsReady
<1>2. ReadyTasks \in SUBSET Nat
  BY Numbers DEF ReadyTasks
<1>3. ASSUME NEW p \in Prios \ {0, IDLE_PRIO}, run_list[p] # NULL
      PROVE  run_list[p] = p - 1 /\ p - 1 \in ReadyTasks
  <2>1. run_list[p] = p - 1 /\ p <= num_tasks
    BY <1>3 DEF NativeSlots
  <2>2. p - 1 \in Tcbs /\ p - 1 < num_tasks /\ (p - 1) + 1 = p
    BY <1>1, <2>1, Numbers
  <2> QED BY <2>1, <2>2 DEF ReadyTasks
<1>4. ASSUME NEW t \in ReadyTasks PROVE t + 1 \in Prios \ {0, IDLE_PRIO}
  <2>1. t \in Tcbs /\ t < num_tasks
    BY DEF ReadyTasks
  <2> QED BY <1>1, <2>1, Numbers
<1> QED BY <1>1, <1>2, <1>3, <1>4

\* While nobody has slot 0, the highest tcb of the run queue is the first ready
\* task, or the idle task.
LEMMA HighestIsFirst ==
  ASSUME OneSetInv, cur_tcb # NULL, run_list[0] = NULL
  PROVE  highest_tcb(run_list) = Sched!First(ReadyTasks)
<1> USE DEF OneSetInv
<1>1. run_list \in [Prios -> TcbPointers] /\ run_list[IDLE_PRIO] = IDLE_PRIO
  BY DEF TypeInv, TypeOK, NativeSlots
<1>2. CASE ReadyTasks = {}
  <2>1. \A q \in Prios : q < IDLE_PRIO => run_list[q] = NULL
    BY <1>2, TasksInSlots, Numbers
  <2>2. highest_tcb(run_list) = IDLE_PRIO
    BY <1>1, <2>1, HighestIs, Numbers
  <2> QED BY <1>2, <2>2 DEF Sched!First
<1>3. CASE ReadyTasks # {}
  <2> DEFINE t == Sched!First(ReadyTasks)
  <2>1. \E m \in ReadyTasks : \A k \in ReadyTasks : m <= k
    BY <1>3, TasksInSlots, LeastExists
  <2>2. t \in ReadyTasks /\ \A k \in ReadyTasks : t <= k
    BY <1>3, <2>1 DEF Sched!First
  <2>3. t + 1 \in Prios \ {0, IDLE_PRIO} /\ t \in Nat
    BY <2>2, TasksInSlots
  <2>4. run_list[t + 1] = t /\ t # NULL
    BY <2>2, Numbers DEF ReadyTasks
  <2>5. ASSUME NEW q \in Prios, q < t + 1 PROVE run_list[q] = NULL
    <3>1. SUFFICES ASSUME run_list[q] # NULL PROVE FALSE
      OBVIOUS
    <3>2. q \in Prios \ {0, IDLE_PRIO}
      BY <2>3, <2>5, <3>1, Numbers
    <3>3. t <= q - 1
      BY <2>2, <3>1, <3>2, TasksInSlots
    <3> QED BY <2>3, <2>5, <3>3, Numbers
  <2> HIDE DEF t
  <2>6. highest_tcb(run_list) = run_list[t + 1]
    BY <1>1, <2>3, <2>4, <2>5, HighestIs
  <2> QED BY <2>4, <2>6 DEF t
<1> QED BY <1>2, <1>3

\* The same after a step, and so for a step that dispatches.
LEMMA HighestIsFirstAfter ==
  (OneSetInv /\ cur_tcb # NULL /\ run_list[0] = NULL
     => highest_tcb(run_list) = Sched!First(ReadyTasks))'
<1>1. OneSetInv /\ cur_tcb # NULL /\ run_list[0] = NULL
        => highest_tcb(run_list) = Sched!First(ReadyTasks)
  BY HighestIsFirst
<1> QED BY <1>1, PTL

LEMMA DispatchIsFirst ==
  ASSUME OneSetInv', NEW ev, dispatch(run_list', ev), run_list'[0] = NULL,
         cur_tcb' # NULL
  PROVE  cur_tcb' = Sched!First(ReadyTasks')
<1>1. highest_tcb(run_list') = Sched!First(ReadyTasks')
  BY HighestIsFirstAfter
<1> QED BY <1>1 DEF dispatch
\* task_create makes all tasks of the set ready and runs the first.
LEMMA BootIsCreate ==
  ASSUME SmallSets, OneSetInv, OneSetInv',
         cur_tcb = NULL, NEW n \in TaskSetSizes, task_create(n)
  PROVE  Sched!Create(n)
<1>1. n \in 1 .. IDLE_PRIO - 1
  BY MaxTasksAssumption DEF SmallSets, IDLE_PRIO
<1>2. /\ run_list' = FreshList(n) /\ num_tasks' = n
      /\ pHolding_Tcb' = pHolding_Tcb
      /\ dispatch(run_list', [t \in Tcbs |-> IF t < n THEN NULL ELSE event[t]])
  BY DEF task_create, mutex_vars
<1>3. ReadyTasks' = 0 .. n - 1
  <2>1. ASSUME NEW t \in 0 .. n - 1 PROVE t \in Tcbs /\ FreshList(n)[t + 1] = t
    <3>1. /\ t \in Tcbs /\ t + 1 \in Prios /\ t + 1 # IDLE_PRIO
          /\ t + 1 \in 1 .. n /\ (t + 1) - 1 = t
      BY <1>1, <2>1, Numbers
    <3> QED BY <3>1 DEF FreshList
  <2>2. \A t \in Tcbs : t < n <=> t \in 0 .. n - 1
    BY <1>1, Numbers
  <2> QED BY <1>2, <2>1, <2>2 DEF ReadyTasks
<1>4. \A d \in Devices : Waiters(d)' = Waiters(d)
  BY DEF task_create, Waiters
<1>5. cur_tcb' = Sched!First(ReadyTasks')
  <2>1. run_list'[0] = NULL
    <3>1. 0 \in Prios /\ 0 # IDLE_PRIO /\ 0 \notin 1 .. n
      BY Numbers
    <3> QED BY <1>2, <3>1 DEF FreshList
  <2>2. cur_tcb' # NULL
    BY <1>1, <1>2, Numbers DEF OneSetInv, BeforeBoot
  <2> QED BY <1>2, <2>1, <2>2, DispatchIsFirst
<1> QED BY <1>2, <1>3, <1>4, <1>5 DEF Sched!Create

\* What a caller of the kernel is to the scheduler.
LEMMA CallerIsReady ==
  ASSUME OneSetInv, NEW c \in Tcbs, Running(c)
  PROVE  /\ c = cur_tcb /\ c \in ReadyTasks
         /\ c + 1 \in Prios \ {0, IDLE_PRIO} /\ run_list[c + 1] = c
         /\ Sched!Owns(c) <=> holds_lock[c] = 1
<1>1. /\ c = cur_tcb /\ c # NULL /\ c # IDLE_PRIO
      /\ c < num_tasks /\ run_list[c + 1] = c
  BY DEF Running, OneSetInv, RunningIsReady
<1>2. c \in ReadyTasks
  BY <1>1 DEF ReadyTasks
<1>3. Sched!Owns(c) <=> holds_lock[c] = 1
  BY DEF Sched!Owns, OneSetInv, FlagIsOwnership
<1> QED BY <1>1, <1>2, <1>3, TasksInSlots

\* Only slot 0 changes when a mutex is taken or released.
LEMMA LockIsAcquire ==
  ASSUME OneSetInv, NEW c \in Tcbs, NEW m \in Mutexes, mutex_lock_free(c, m)
  PROVE  Sched!Acquire(m)
<1>1. Running(c) /\ c = cur_tcb /\ cur_tcb' = cur_tcb /\ num_tasks' = num_tasks
  BY DEF mutex_lock_free, Running
<1>2. pHolding_Tcb[m] = NULL /\ pHolding_Tcb' = [pHolding_Tcb EXCEPT ![m] = c]
  BY DEF mutex_lock_free, OneSetInv, MutexesOfRunning
<1>3. ReadyTasks' = ReadyTasks
  <2>1. \A p \in Prios \ {0} : run_list'[p] = run_list[p]
    BY DEF mutex_lock_free, OneSetInv, TypeInv, TypeOK
  <2>2. \A t \in Tcbs : t < num_tasks => t + 1 \in Prios \ {0}
    BY <1>1, TasksInSlots, Numbers DEF Running
  <2> QED BY <1>1, <2>1, <2>2 DEF ReadyTasks
<1>4. \A d \in Devices : Waiters(d)' = Waiters(d)
  BY DEF mutex_lock_free, Waiters, dev_vars
<1> QED BY <1>1, <1>2, <1>3, <1>4, CallerIsReady DEF Sched!Acquire

LEMMA UnlockIsRelease ==
  ASSUME OneSetInv, NEW c \in Tcbs, NEW m \in Mutexes, mutex_unlock_free(c, m)
  PROVE  Sched!Release(m)
<1>1. Running(c) /\ c = cur_tcb /\ cur_tcb' = cur_tcb /\ num_tasks' = num_tasks
  BY DEF mutex_unlock_free, Running
<1>2. pHolding_Tcb[m] = c /\ pHolding_Tcb' = [pHolding_Tcb EXCEPT ![m] = NULL]
  BY DEF mutex_unlock_free
<1>3. ReadyTasks' = ReadyTasks
  <2>1. c + 1 \in Prios \ {0, IDLE_PRIO} /\ run_list[c + 1] = c /\ c < num_tasks
    BY <1>1, CallerIsReady DEF ReadyTasks
  <2>2. native_prio[c] = c + 1
    BY <2>1 DEF OneSetInv, PriosOfTasks
  <2>3. \A p \in Prios \ {0} : run_list'[p] = run_list[p]
    BY <2>1, <2>2
    DEF mutex_unlock_free, ListAfterRelease, OneSetInv, TypeInv, TypeOK
  <2>4. \A t \in Tcbs : t < num_tasks => t + 1 \in Prios \ {0}
    BY <1>1, TasksInSlots, Numbers DEF Running
  <2> QED BY <1>1, <2>3, <2>4 DEF ReadyTasks
<1>4. \A d \in Devices : Waiters(d)' = Waiters(d)
  BY DEF mutex_unlock_free, Waiters, dev_vars
<1> QED BY <1>1, <1>2, <1>3, <1>4, CallerIsReady DEF Sched!Release

\* The caller of event_wait leaves its native slot for the queue of its device.
LEMMA EventWaitIsWait ==
  ASSUME OneSetInv, OneSetInv',
         NEW c \in Tcbs, NEW d \in Devices, event_wait(c, d)
  PROVE  Sched!Wait(d)
<1>1. /\ Running(c) /\ c = cur_tcb /\ holds_lock[c] = 0
      /\ cur_tcb # NULL /\ num_tasks' = num_tasks
      /\ run_list' = [run_list EXCEPT ![cur_prio[c]] = NULL]
      /\ pHolding_Tcb' = pHolding_Tcb
      /\ dispatch(run_list', [event EXCEPT ![c] = d])
  BY DEF event_wait, Running, mutex_vars
<1>2. /\ c \in ReadyTasks /\ ~Sched!Owns(c)
      /\ c + 1 \in Prios \ {0, IDLE_PRIO} /\ c < num_tasks
  BY <1>1, CallerIsReady DEF ReadyTasks
<1>3. cur_prio[c] = c + 1
  BY <1>1, <1>2 DEF OneSetInv, PriosOfTasks
<1>4. \A p \in Prios : run_list'[p] = IF p = c + 1 THEN NULL ELSE run_list[p]
  BY <1>1, <1>3 DEF OneSetInv, TypeInv, TypeOK
<1>5. ReadyTasks' = ReadyTasks \ {c}
  <2>1. \A t \in Tcbs : t < num_tasks => t + 1 \in Prios /\ t # NULL
    BY <1>1, TasksInSlots, Numbers
  <2>2. \A t \in Tcbs : t + 1 = c + 1 <=> t = c
    BY Numbers
  <2> QED BY <1>1, <1>4, <2>1, <2>2 DEF ReadyTasks
<1>6. cur_tcb' = Sched!First(ReadyTasks')
  <2>1. \A m \in Mutexes : pHolding_Tcb[m] = NULL
    BY <1>1, <1>2 DEF Sched!Owns, OneSetInv, MutexesOfRunning
  <2>2. run_list'[0] = NULL
    BY <1>1, <2>1 DEF OneSetInv, SlotZeroOfOwner
  <2>3. cur_tcb' # NULL
    BY <1>1, <1>2, Numbers DEF OneSetInv, BeforeBoot
  <2> QED BY <1>1, <2>2, <2>3, DispatchIsFirst
<1>7. \A e \in Devices :
        Waiters(e)' = IF e = d THEN Waiters(d) \cup {c} ELSE Waiters(e)
  BY QueuesAfterWait
<1>8. [e \in Devices |-> Waiters(e)]'
        = [[e \in Devices |-> Waiters(e)] EXCEPT ![d] = @ \cup {c}]
  BY <1>7
<1> QED BY <1>1, <1>2, <1>5, <1>6, <1>8 DEF Sched!Wait

\* An interrupt makes the waiters of the devices that fired ready.
LEMMA TickIsInterrupt ==
  ASSUME OneSetInv, OneSetInv', NEW lag \in 1 .. MaxTickLag, timer_irq(lag)
  PROVE  Sched!Interrupt(Fired(lag))
<1> DEFINE list == ListAfterWake(lag)
           D == Fired(lag)
<1>1. /\ cur_tcb # NULL /\ num_tasks' = num_tasks /\ run_list' = list
      /\ pHolding_Tcb' = pHolding_Tcb /\ dispatch(run_list', event)
  BY DEF timer_irq, mutex_vars
<1>2. /\ \A p \in Prios : list[p] # run_list[p] =>
           list[p] = p - 1 /\ \E d \in D : p - 1 \in Waiters(d)
      /\ \A d \in D : \A t \in Waiters(d) : list[t + 1] = t
  BY WakeList
<1>3. /\ D \subseteq Devices
      /\ \A d \in D : \A t \in Waiters(d) : t \in Tcbs /\ t < num_tasks
  BY Waiting DEF Fired
<1>4. \A t \in Tcbs : t < num_tasks => t + 1 \in Prios /\ (t + 1) - 1 = t
  BY <1>1, TasksInSlots, Numbers
<1>5. ReadyTasks' = ReadyTasks \cup UNION {Waiters(d) : d \in D}
  <2>1. ASSUME NEW t \in Tcbs, t < num_tasks
        PROVE  list[t + 1] = t <=>
                 \/ run_list[t + 1] = t
                 \/ \E d \in D : t \in Waiters(d)
    BY <1>2, <1>4, <2>1
  <2> QED BY <1>1, <1>3, <2>1 DEF ReadyTasks
<1>6. ReadyTasks'
        = ReadyTasks \cup UNION {[e \in Devices |-> Waiters(e)][d] : d \in D}
  BY <1>3, <1>5
<1>7. [e \in Devices |-> Waiters(e)]'
        = [d \in Devices |->
             IF d \in D THEN {} ELSE [e \in Devices |-> Waiters(e)][d]]
  BY QueuesAfterTick
<1>8. Sched!Owns(cur_tcb) <=> run_list[0] # NULL
  BY <1>1, Numbers
  DEF Sched!Owns, OneSetInv, SlotZeroOfOwner, MutexesOfRunning
<1>9. cur_tcb' = IF Sched!Owns(cur_tcb) THEN cur_tcb ELSE Sched!First(ReadyTasks')
  <2>1. CASE run_list[0] # NULL
    BY <1>8, <2>1, OwnerRunsOn
  <2>2. CASE run_list[0] = NULL
    <3>1. run_list'[0] = NULL
      BY <2>2, OwnerRunsOn
    <3>2. cur_tcb' # NULL
      BY <1>1, TasksInSlots, Numbers DEF OneSetInv, BeforeBoot
    <3> QED BY <1>1, <1>8, <2>2, <3>1, <3>2, DispatchIsFirst
  <2> QED BY <2>1, <2>2
<1> QED BY <1>1, <1>6, <1>7, <1>9 DEF Sched!Interrupt

\* Nothing has been created in either.
LEMMA SchedulerInit ==
  ASSUME Init
  PROVE  Sched!Init
<1>1. ReadyTasks = {}
  BY Numbers DEF Init, ReadyTasks
<1>2. \A d \in Devices : Waiters(d) = {}
  BY OneSetInvInit, NoWaitersBeforeBoot DEF Init, OneSetInv
<1> QED BY <1>1, <1>2 DEF Init, Sched!Init

\* A step of the kernel is a step of the scheduler.
LEMMA SchedulerStep ==
  ASSUME SmallSets, OneSetInv, OneSetInv', [Next]_vars
  PROVE  [Sched!Next]_Sched!vars
<1>1. CASE Boot
  BY <1>1, BootIsCreate DEF Boot, Sched!Next
<1>2. CASE mutex_create \/ UNCHANGED vars
  <2>1. /\ cur_tcb' = cur_tcb /\ pHolding_Tcb' = pHolding_Tcb
        /\ ReadyTasks' = ReadyTasks
        /\ \A d \in Devices : Waiters(d)' = Waiters(d)
    BY <1>2
    DEF mutex_create, vars, tcb_vars, dev_vars, mutex_vars, ReadyTasks, Waiters
  <2> QED BY <2>1 DEF Sched!vars
<1>3. ASSUME NEW c \in Tcbs, NEW m \in Mutexes, mutex_lock_free(c, m)
      PROVE  Sched!Next
  BY <1>3, LockIsAcquire DEF Sched!Next
<1>4. ASSUME NEW c \in Tcbs, NEW m \in Mutexes, mutex_unlock_free(c, m)
      PROVE  Sched!Next
  BY <1>4, UnlockIsRelease DEF Sched!Next
<1>5. ASSUME NEW c \in Tcbs, NEW d \in Devices, event_wait(c, d)
      PROVE  Sched!Next
  BY <1>5, EventWaitIsWait DEF Sched!Next
<1>6. ASSUME NEW lag \in 1 .. MaxTickLag, timer_irq(lag) PROVE Sched!Next
  BY <1>6, TickIsInterrupt DEF Sched!Next, Fired
<1>7. ASSUME NEW c \in Tcbs, NEW m \in Mutexes,
             mutex_lock_contended(c, m) \/ mutex_unlock_handoff(c, m)
      PROVE  FALSE
  BY <1>7 DEF mutex_lock_contended, mutex_unlock_handoff, Running, OneSetInv,
              MutexesOfRunning
<1> QED BY <1>1, <1>2, <1>3, <1>4, <1>5, <1>6, <1>7
    DEF Next, SystemCall, Tick

\* The run queue, the sleep queues, the priorities and the flags together are
\* the scheduler of the specification: every system call and every interrupt of
\* a program with one task set is one of its steps, or changes nothing in it.
THEOREM SchedulerImplemented ==
  ASSUME SmallSets
  PROVE  Spec => ImplementsScheduler
<1>1. Init => OneSetInv
  BY OneSetInvInit
<1>2. OneSetInv /\ [Next]_vars => OneSetInv'
  BY OneSetInvStep
<1>3. Init => Sched!Init
  BY SchedulerInit
<1>4. OneSetInv /\ OneSetInv' /\ [Next]_vars => [Sched!Next]_Sched!vars
  BY SchedulerStep
<1> QED BY <1>1, <1>2, <1>3, <1>4, PTL DEF Spec, ImplementsScheduler, Sched!Spec

------------------------------------------------------------------------------
(* The test programs: what a step of a program is to the kernel.             *)

\* Numbers of the programs.
LEMMA UserNumbers ==
  /\ OS_MAX_TASKS \in Nat /\ OS_MAX_TASKS >= 8 /\ IDLE_PRIO >= 7
  /\ NUM_TASK \in 6 .. IDLE_PRIO - 1
  /\ Devices = 0 .. 3 /\ NUM_DEVICES = 4
  /\ {0, 1, 2} \subseteq Mutexes /\ OS_NUM_MUTEX \in Nat /\ OS_NUM_MUTEX >= 3
BY MaxTasksAssumption, CountsAssumption, UserAssumption
DEF IDLE_PRIO, Devices, Mutexes

\* The next mutex that mutex_create would hand out.
LEMMA CreatedIs ==
  /\ Created \in Mutexes \cup {OS_NUM_MUTEX}
  /\ \A m \in Mutexes : bAvailable[m] = 1 => Created \in Mutexes /\ Created <= m
  /\ Created \in Mutexes => bAvailable[Created] = 1
<1> DEFINE S == {m \in Mutexes : bAvailable[m] = 1} \cup {OS_NUM_MUTEX}
<1>1. S \in SUBSET Nat /\ S # {} /\ OS_NUM_MUTEX \notin Mutexes
  BY CountsAssumption DEF Mutexes
<1>2. \E x \in S : \A y \in S : x <= y
  BY <1>1, LeastExists
<1>3. Created \in S /\ \A y \in S : Created <= y
  BY <1>2 DEF Created, Min
<1> QED BY <1>1, <1>3, CountsAssumption DEF Mutexes

------------------------------------------------------------------------------
(* What the steps of the kernel do to the tasks, for use after a step.       *)

\* A dispatch while nobody has slot 0 goes to a task at or above every task
\* that is ready.
LEMMA DispatchAbove ==
  ASSUME OneSetInv', cur_tcb' # NULL, run_list'[0] = NULL,
         NEW ev, dispatch(run_list', ev),
         NEW t \in Tcbs, t < num_tasks', run_list'[t + 1] = t
  PROVE  cur_tcb' \in 0 .. t
<1>1. cur_tcb' = Sched!First(ReadyTasks')
  BY DispatchIsFirst
<1>2. t \in ReadyTasks'
  BY DEF ReadyTasks
<1>3. ReadyTasks' \in SUBSET Nat
  BY DEF ReadyTasks, Tcbs
<1>4. \E m \in ReadyTasks' : \A k \in ReadyTasks' : m <= k
  BY <1>2, <1>3, LeastExists
<1>5. cur_tcb' \in ReadyTasks' /\ cur_tcb' <= t
  BY <1>1, <1>2, <1>4 DEF Sched!First
<1> QED BY <1>3, <1>5

\* The task that is running has its slot, and all tasks have one.
LEMMA TaskSlots ==
  ASSUME OneSetInv, cur_tcb # NULL
  PROVE  /\ num_tasks \in 1 .. IDLE_PRIO - 1 /\ cur_tcb \in Tcbs
         /\ \A t \in Tcbs : t < num_tasks =>
              /\ t + 1 \in Prios \ {0, IDLE_PRIO} /\ t # IDLE_PRIO
              /\ run_list[t + 1] \in {t, NULL} /\ t # NULL
              /\ native_prio[t] = t + 1
         /\ cur_tcb # IDLE_PRIO => cur_tcb < num_tasks /\ run_list[cur_tcb + 1] = cur_tcb
<1> USE DEF OneSetInv
<1>1. num_tasks \in 1 .. IDLE_PRIO - 1 /\ cur_tcb \in Tcbs
  BY Numbers DEF RunningIsReady, TypeInv, TypeOK
<1>2. ASSUME NEW t \in Tcbs, t < num_tasks
      PROVE  /\ t + 1 \in Prios \ {0, IDLE_PRIO} /\ t # IDLE_PRIO
             /\ run_list[t + 1] \in {t, NULL} /\ t # NULL
             /\ native_prio[t] = t + 1
  <2>1. t + 1 \in Prios \ {0, IDLE_PRIO} /\ t # IDLE_PRIO /\ t # NULL /\ (t + 1) - 1 = t
    BY <1>1, <1>2, Numbers
  <2> QED BY <1>2, <2>1 DEF NativeSlots, PriosOfTasks
<1> QED BY <1>1, <1>2 DEF RunningIsReady

\* A caller of event_wait leaves its slot, nobody else does, and a task at or
\* above every ready task runs.
LEMMA WaitSwitches ==
  ASSUME OneSetInv, OneSetInv', NEW c \in Tcbs, NEW d \in Devices, event_wait(c, d)
  PROVE  /\ cur_tcb' \in Tcbs /\ num_tasks' = num_tasks
         /\ \A t \in Tcbs : t < num_tasks =>
              /\ run_list'[t + 1] = IF t = c THEN NULL ELSE run_list[t + 1]
              /\ run_list'[t + 1] = t => cur_tcb' \in 0 .. t
<1>1. /\ c = cur_tcb /\ c # NULL /\ c # IDLE_PRIO /\ holds_lock[c] = 0
      /\ run_list' = [run_list EXCEPT ![cur_prio[c]] = NULL]
      /\ dispatch(run_list', [event EXCEPT ![c] = d])
      /\ num_tasks' = num_tasks
      /\ pHolding_Tcb' = pHolding_Tcb
  BY DEF event_wait, Running, mutex_vars
<1>2. c < num_tasks /\ cur_prio[c] = c + 1 /\ num_tasks \in 1 .. IDLE_PRIO - 1
  BY <1>1 DEF OneSetInv, RunningIsReady, PriosOfTasks
<1>3. cur_tcb' # NULL
  BY <1>1, <1>2 DEF OneSetInv, BeforeBoot
<1>4. \A m \in Mutexes : pHolding_Tcb'[m] = NULL
  BY <1>1 DEF OneSetInv, FlagIsOwnership, MutexesOfRunning
<1>5. run_list'[0] = NULL
  BY <1>4 DEF OneSetInv, SlotZeroOfOwner
<1>6. run_list \in [Prios -> TcbPointers]
  BY DEF OneSetInv, TypeInv, TypeOK
<1>7. ASSUME NEW t \in Tcbs, t < num_tasks
      PROVE  run_list'[t + 1] = IF t = c THEN NULL ELSE run_list[t + 1]
  <2>1. t + 1 \in Prios /\ (t + 1 = c + 1 <=> t = c)
    BY <1>2, <1>7, Numbers
  <2> QED BY <1>1, <1>2, <1>6, <2>1
<1>8. ASSUME NEW t \in Tcbs, t < num_tasks, run_list'[t + 1] = t
      PROVE  cur_tcb' \in 0 .. t
  BY <1>1, <1>3, <1>5, <1>8, DispatchAbove
<1>9. cur_tcb' \in Tcbs
  BY <1>3, Numbers DEF OneSetInv, TypeInv, TypeOK
<1> QED BY <1>1, <1>7, <1>8, <1>9

\* An interrupt gives their slots to the waiters of the devices that fire; a
\* task with a mutex runs on, and otherwise one at or above every ready task.
LEMMA TickSwitches ==
  ASSUME OneSetInv, OneSetInv', NEW lag, timer_irq(lag)
  PROVE  /\ cur_tcb \in Tcbs /\ cur_tcb' \in Tcbs /\ num_tasks' = num_tasks
         /\ run_list[0] # NULL => cur_tcb' = cur_tcb
         /\ \A t \in Tcbs : t < num_tasks =>
              /\ run_list'[t + 1] = IF \E d \in Fired(lag) : t \in Waiters(d)
                                    THEN t ELSE run_list[t + 1]
              /\ run_list[0] = NULL /\ run_list'[t + 1] = t => cur_tcb' \in 0 .. t
<1>1. /\ cur_tcb # NULL /\ run_list' = ListAfterWake(lag)
      /\ dispatch(run_list', event) /\ num_tasks' = num_tasks
  BY DEF timer_irq
<1>2. num_tasks \in 1 .. IDLE_PRIO - 1
  BY <1>1 DEF OneSetInv, RunningIsReady
<1>3. cur_tcb' # NULL
  BY <1>1, <1>2 DEF OneSetInv, BeforeBoot
<1>4. /\ run_list'[0] = run_list[0]
      /\ run_list[0] # NULL => cur_tcb' = cur_tcb
  BY OwnerRunsOn
<1>5. ASSUME NEW t \in Tcbs, t < num_tasks
      PROVE  run_list'[t + 1] = IF \E d \in Fired(lag) : t \in Waiters(d)
                                THEN t ELSE run_list[t + 1]
  <2>1. t + 1 \in Prios /\ (t + 1) - 1 = t
    BY <1>2, <1>5, Numbers
  <2> QED BY <1>1, <2>1, WakeList
<1>6. ASSUME NEW t \in Tcbs, t < num_tasks, run_list[0] = NULL, run_list'[t + 1] = t
      PROVE  cur_tcb' \in 0 .. t
  BY <1>1, <1>3, <1>4, <1>6, DispatchAbove
<1>7. cur_tcb \in Tcbs /\ cur_tcb' \in Tcbs
  BY <1>1, <1>3, Numbers DEF OneSetInv, TypeInv, TypeOK
<1> QED BY <1>1, <1>4, <1>5, <1>6, <1>7

\* Taking and releasing mutexes changes nobody's own slot.
LEMMA MutexCallKeepsSlots ==
  ASSUME OneSetInv, NEW c \in Tcbs, NEW m \in Mutexes,
         mutex_lock_free(c, m) \/ mutex_unlock_free(c, m)
  PROVE  /\ cur_tcb' = cur_tcb /\ num_tasks' = num_tasks
         /\ \A t \in Tcbs : t < num_tasks => run_list'[t + 1] = run_list[t + 1]
<1>1. /\ c = cur_tcb /\ c # NULL /\ c # IDLE_PRIO
      /\ cur_tcb' = cur_tcb /\ num_tasks' = num_tasks
  BY DEF mutex_lock_free, mutex_unlock_free, Running
<1>2. run_list \in [Prios -> TcbPointers]
  BY DEF OneSetInv, TypeInv, TypeOK
<1>3. /\ c < num_tasks /\ run_list[c + 1] = c /\ native_prio[c] = c + 1
      /\ \A t \in Tcbs : t < num_tasks => t + 1 \in Prios \ {0, IDLE_PRIO}
  BY <1>1, TaskSlots
<1>4. \A p \in Prios \ {0} : run_list'[p] = run_list[p]
  BY <1>2, <1>3 DEF mutex_lock_free, mutex_unlock_free, ListAfterRelease
<1> QED BY <1>1, <1>3, <1>4

\* A system call of the running task: nobody else loses or gets a slot, and
\* the cpu goes to a task at or above every ready task if it goes at all.
LEMMA CallSwitches ==
  ASSUME OneSetInv, OneSetInv', SystemCall \/ UNCHANGED vars
  PROVE  /\ num_tasks' = num_tasks
         /\ cur_tcb = NULL => cur_tcb' = NULL
         /\ cur_tcb # NULL => cur_tcb' \in Tcbs
         /\ \A t \in Tcbs : t < num_tasks =>
              /\ t # cur_tcb => run_list'[t + 1] = run_list[t + 1]
              /\ cur_tcb' = cur_tcb \/ (run_list'[t + 1] = t => cur_tcb' \in 0 .. t)
<1>0. cur_tcb # NULL => cur_tcb \in Tcbs
  BY TaskSlots
<1>1. CASE UNCHANGED <<cur_tcb, num_tasks, run_list>>
  BY <1>0, <1>1
<1>2. ASSUME NEW c \in Tcbs, NEW m \in Mutexes,
             mutex_lock_free(c, m) \/ mutex_unlock_free(c, m)
      PROVE  /\ cur_tcb' = cur_tcb /\ num_tasks' = num_tasks
             /\ \A t \in Tcbs : t < num_tasks => run_list'[t + 1] = run_list[t + 1]
  BY <1>2, MutexCallKeepsSlots
<1>3. ASSUME NEW c \in Tcbs, NEW m \in Mutexes,
             mutex_lock_contended(c, m) \/ mutex_unlock_handoff(c, m)
      PROVE  FALSE
  BY <1>3 DEF mutex_lock_contended, mutex_unlock_handoff, Running, OneSetInv,
              MutexesOfRunning
<1>4. ASSUME NEW c \in Tcbs, NEW d \in Devices, event_wait(c, d)
      PROVE  /\ cur_tcb = c /\ c # NULL /\ cur_tcb' \in Tcbs /\ num_tasks' = num_tasks
             /\ \A t \in Tcbs : t < num_tasks =>
                  /\ run_list'[t + 1] = IF t = c THEN NULL ELSE run_list[t + 1]
                  /\ run_list'[t + 1] = t => cur_tcb' \in 0 .. t
  BY <1>4, WaitSwitches DEF event_wait, Running
<1>5. CASE \E c \in Tcbs : \E d \in Devices : event_wait(c, d)
  BY <1>4, <1>5
<1>6. CASE \E c \in Tcbs : \E m \in Mutexes :
             mutex_lock_free(c, m) \/ mutex_unlock_free(c, m)
  BY <1>0, <1>2, <1>6
<1>7. CASE mutex_create \/ UNCHANGED vars
  BY <1>1, <1>7 DEF mutex_create, vars
<1> QED BY <1>3, <1>5, <1>6, <1>7 DEF SystemCall

------------------------------------------------------------------------------
(* What the steps of the programs are to the kernel.                         *)

\* c is main or a task that does not spin, and it has the cpu ...
Caller(c) == cur_tcb = c /\ c # IDLE_PRIO /\ pc[c] # "spin"

\* ... and makes a call other than task_create, or computes; only a call that
\* fails lets it spin.
Steps(c) ==
  /\ Caller(c)
  /\ \E label : /\ pc' = [pc EXCEPT ![c] = label]
                /\ label = "spin" => UNCHANGED vars
  /\ program' = program
  /\ SystemCall \/ UNCHANGED vars

LEMMA ComputeSteps ==
  ASSUME NEW c, NEW label, Caller(c), Compute(c, label)
  PROVE  Steps(c)
BY DEF Compute, Goto, Steps, kernel_vars

LEMMA FailSteps ==
  ASSUME NEW c, NEW label, NEW e, Caller(c), Fail(c, label, e)
  PROVE  Steps(c)
BY DEF Fail, Goto, Steps, kernel_vars

LEMMA LockSteps ==
  ASSUME NEW c \in Tcbs, NEW m, NEW ok, NEW err, ok # "spin",
         Caller(c), mutex_lock(c, m, ok, err)
  PROVE  Steps(c)
<1>1. CASE lock_error(c, m) = SUCCESS
  <2>1. m \in Mutexes
    BY <1>1 DEF lock_error, SUCCESS, EINVAL
  <2> QED BY <1>1, <2>1 DEF mutex_lock, Succeed, Goto, Steps, SystemCall
<1> QED BY <1>1, FailSteps DEF mutex_lock

LEMMA UnlockSteps ==
  ASSUME NEW c \in Tcbs, NEW m, NEW ok, NEW err, ok # "spin",
         Caller(c), mutex_unlock(c, m, ok, err)
  PROVE  Steps(c)
<1>1. CASE unlock_error(c, m) = SUCCESS
  <2>1. m \in Mutexes
    BY <1>1 DEF unlock_error, SUCCESS, EINVAL
  <2> QED BY <1>1, <2>1 DEF mutex_unlock, Succeed, Goto, Steps, SystemCall
<1> QED BY <1>1, FailSteps DEF mutex_unlock

LEMMA WaitSteps ==
  ASSUME NEW c \in Tcbs, NEW d, NEW ok, NEW err, ok # "spin" \/ d \notin Devices,
         Caller(c), wait(c, d, ok, err)
  PROVE  Steps(c)
<1>1. CASE wait_error(c, d) = SUCCESS
  <2>1. d \in Devices
    BY <1>1 DEF wait_error, SUCCESS, EINVAL
  <2> QED BY <1>1, <2>1 DEF wait, Succeed, Goto, Steps, SystemCall
<1> QED BY <1>1, FailSteps DEF wait

LEMMA CreateSteps ==
  ASSUME NEW c, NEW ok, NEW err, ok # "spin",
         Caller(c), create(c, ok, err)
  PROVE  Steps(c)
<1>1. CASE Created \in Mutexes
  BY <1>1 DEF create, Succeed, Goto, Steps, SystemCall
<1> QED BY <1>1, FailSteps DEF create

\* The number of tasks that each program creates.
SetSize ==
  [mutex_chaser |-> 4, simple_mutex |-> 3, sys_err |-> 1, stress |-> NUM_TASK,
   butterknife |-> 2, cyclone |-> 1, dagger |-> 2, sched_check |-> 3, hello |-> 0]

\* main, or the task of cyclone, creates the task set of the program.
Launches ==
  /\ launch(SetSize[program])
  /\ cur_tcb = NULL \/ (Is("cyclone") /\ cur_tcb = 0 /\ pc[0] # "spin")
  /\ ~Is("hello")

\* A step of a task of one of the programs that have several.
LEMMA TaskSteps ==
  ASSUME \/ chaser_fun1 \/ chaser_fun2 \/ chaser_fun3 \/ chaser_fun4
         \/ simple_fun1 \/ simple_fun2 \/ simple_fun3
         \/ sys_err_fun1
         \/ \E c \in 0 .. NUM_TASK - 2 : stress_fun1(c)
         \/ butterknife_fun1 \/ butterknife_fun2
         \/ dagger_fun1 \/ dagger_fun2
         \/ sched_check_fun1 \/ sched_check_fun2
  PROVE  \E c \in Tcbs : Steps(c)
<1>0. {0, 1, 2, 3} \subseteq Tcbs /\ 0 .. NUM_TASK - 2 \subseteq Tcbs
  BY UserNumbers, Numbers
<1>1. ASSUME NEW c, NEW label, label # "spin", At(c, label) PROVE Caller(c)
  BY <1>1 DEF At, Caller
<1>2. ASSUME NEW c \in Tcbs, NEW d, NEW result, chaser_task(c, d, result)
      PROVE  Steps(c)
  <2>1. Caller(c)
    BY <1>1, <1>2 DEF chaser_task
  <2> QED BY <1>2, <2>1, LockSteps, UnlockSteps, WaitSteps, ComputeSteps
      DEF chaser_task
<1>3. CASE chaser_fun1 \/ chaser_fun2 \/ chaser_fun3 \/ chaser_fun4
  <2>1. ASSUME At(3, "start"), Compute(3, "start") PROVE Steps(3)
    BY <1>1, <2>1, ComputeSteps
  <2> QED BY <1>0, <1>2, <1>3, <2>1
      DEF chaser_fun1, chaser_fun2, chaser_fun3, chaser_fun4
<1>4. ASSUME simple_fun1 PROVE Steps(0)
  <2>1. Caller(0)
    BY <1>1, <1>4 DEF simple_fun1
  <2> QED BY <1>0, <1>4, <2>1, CreateSteps, LockSteps, UnlockSteps, WaitSteps,
             ComputeSteps
      DEF simple_fun1
<1>5. ASSUME simple_fun2 PROVE Steps(1)
  <2>1. Caller(1)
    BY <1>1, <1>5 DEF simple_fun2
  <2> QED BY <1>0, <1>5, <2>1, LockSteps, WaitSteps, ComputeSteps DEF simple_fun2
<1>6. ASSUME simple_fun3 PROVE Steps(2)
  <2>1. Caller(2)
    BY <1>1, <1>6 DEF simple_fun3
  <2> QED BY <1>0, <1>6, <2>1, LockSteps, UnlockSteps, WaitSteps, ComputeSteps
      DEF simple_fun3
<1>7. ASSUME sys_err_fun1 PROVE Steps(0)
  <2>1. Caller(0)
    BY <1>1, <1>7 DEF sys_err_fun1
  <2>2. NUM_DEVICES + 1 \notin Devices
    BY UserNumbers
  <2> QED BY <1>0, <1>7, <2>1, <2>2, CreateSteps, LockSteps, UnlockSteps, WaitSteps
      DEF sys_err_fun1
<1>8. ASSUME NEW c \in 0 .. NUM_TASK - 2, stress_fun1(c) PROVE Steps(c)
  <2>1. Caller(c)
    BY <1>1, <1>8 DEF stress_fun1
  <2> QED BY <1>0, <1>8, <2>1, WaitSteps, ComputeSteps DEF stress_fun1
<1>9. ASSUME NEW c \in Tcbs, NEW d, butterknife_task(c, d) PROVE Steps(c)
  <2>1. Caller(c)
    BY <1>1, <1>9 DEF butterknife_task
  <2> QED BY <1>9, <2>1, LockSteps, UnlockSteps, WaitSteps, ComputeSteps
      DEF butterknife_task
<1>10. ASSUME NEW c \in Tcbs, NEW d, NEW p, putter(p, c, d) PROVE Steps(c)
  <2>1. Caller(c)
    BY <1>1, <1>10 DEF putter
  <2> QED BY <1>10, <2>1, WaitSteps, ComputeSteps DEF putter
<1>11. CASE butterknife_fun1 \/ butterknife_fun2
  BY <1>0, <1>9, <1>11 DEF butterknife_fun1, butterknife_fun2
<1>12. CASE dagger_fun1 \/ dagger_fun2 \/ sched_check_fun1 \/ sched_check_fun2
  BY <1>0, <1>10, <1>12
  DEF dagger_fun1, dagger_fun2, sched_check_fun1, sched_check_fun2
<1> QED BY <1>0, <1>3, <1>4, <1>5, <1>6, <1>7, <1>8, <1>11, <1>12

\* A step of main, or of the one task of cyclone.
LEMMA MainSteps ==
  ASSUME \/ chaser_main \/ simple_main \/ sys_err_main \/ stress_main
         \/ butterknife_main \/ cyclone_main \/ cyclone_fun1 \/ dagger_main
         \/ sched_check_main \/ hello_main
  PROVE  (\E c \in TcbPointers : Steps(c)) \/ Launches
<1>0. NULL \in TcbPointers /\ 0 \in TcbPointers /\ NULL # IDLE_PRIO
  BY Numbers
<1>1. ASSUME NEW c, NEW label, label # "spin", At(c, label)
      PROVE  Caller(c)
  BY <1>1 DEF At, Caller
<1>2. ASSUME NEW c \in TcbPointers, NEW n, Caller(c), launch_or_refuse(c, n)
      PROVE  Steps(c) \/ launch(n)
  BY <1>2, FailSteps DEF launch_or_refuse
<1>3. ASSUME NEW n, n = SetSize[program], launch(n), ~Is("hello"),
             Caller(NULL) \/ (Is("cyclone") /\ Caller(0))
      PROVE  Launches
  BY <1>3 DEF Launches, Caller
<1>4. CASE chaser_main
  <2>1. Caller(NULL) /\ program = "mutex_chaser" /\ SetSize[program] = 4
    BY <1>1, <1>4 DEF chaser_main, Is, SetSize
  <2> QED BY <1>0, <1>2, <1>3, <1>4, <2>1, CreateSteps DEF chaser_main, Is
<1>5. CASE simple_main
  <2>1. Caller(NULL) /\ program = "simple_mutex" /\ SetSize[program] = 3
    BY <1>1, <1>5 DEF simple_main, Is, SetSize
  <2> QED BY <1>0, <1>2, <1>3, <1>5, <2>1 DEF simple_main, Is
<1>6. CASE sys_err_main
  <2>1. Caller(NULL) /\ program = "sys_err" /\ SetSize[program] = 1
    BY <1>1, <1>6 DEF sys_err_main, Is, SetSize
  <2> QED BY <1>0, <1>2, <1>3, <1>6, <2>1, FailSteps DEF sys_err_main, Is
<1>7. CASE stress_main
  <2>1. Caller(NULL) /\ program = "stress" /\ SetSize[program] = NUM_TASK
    BY <1>1, <1>7 DEF stress_main, Is, SetSize
  <2> QED BY <1>0, <1>2, <1>3, <1>7, <2>1 DEF stress_main, Is
<1>8. CASE butterknife_main
  <2>1. Caller(NULL) /\ program = "butterknife" /\ SetSize[program] = 2
    BY <1>1, <1>8 DEF butterknife_main, Is, SetSize
  <2> QED BY <1>0, <1>2, <1>3, <1>8, <2>1, CreateSteps DEF butterknife_main, Is
<1>9. CASE cyclone_main
  <2>1. Caller(NULL) /\ program = "cyclone" /\ SetSize[program] = 1
    BY <1>1, <1>9 DEF cyclone_main, Is, SetSize
  <2> QED BY <1>0, <1>2, <1>3, <1>9, <2>1 DEF cyclone_main, Is
<1>10. CASE cyclone_fun1
  <2>1. Caller(0) /\ program = "cyclone" /\ SetSize[program] = 1
    BY <1>1, <1>10 DEF cyclone_fun1, Is, SetSize
  <2> QED BY <1>0, <1>2, <1>3, <1>10, <2>1, ComputeSteps DEF cyclone_fun1, Is
<1>11. CASE dagger_main
  <2>1. Caller(NULL) /\ program = "dagger" /\ SetSize[program] = 2
    BY <1>1, <1>11 DEF dagger_main, Is, SetSize
  <2> QED BY <1>0, <1>2, <1>3, <1>11, <2>1 DEF dagger_main, Is
<1>12. CASE sched_check_main
  <2>1. Caller(NULL) /\ program = "sched_check" /\ SetSize[program] = 3
    BY <1>1, <1>12 DEF sched_check_main, Is, SetSize
  <2> QED BY <1>0, <1>3, <1>12, <2>1 DEF sched_check_main, Is
<1>13. CASE hello_main
  <2>1. Caller(NULL)
    BY <1>1, <1>13 DEF hello_main
  <2> QED BY <1>0, <1>13, <2>1, ComputeSteps DEF hello_main
<1> QED BY <1>4, <1>5, <1>6, <1>7, <1>8, <1>9, <1>10, <1>11, <1>12, <1>13

LEMMA UserStepForms ==
  ASSUME UserStep
  PROVE  (\E c \in TcbPointers : Steps(c)) \/ Launches
<1>1. Tcbs \subseteq TcbPointers
  BY DEF TcbPointers
<1>2. CASE \/ chaser_fun1 \/ chaser_fun2 \/ chaser_fun3 \/ chaser_fun4
           \/ simple_fun1 \/ simple_fun2 \/ simple_fun3
           \/ sys_err_fun1
           \/ \E c \in 0 .. NUM_TASK - 2 : stress_fun1(c)
           \/ butterknife_fun1 \/ butterknife_fun2
           \/ dagger_fun1 \/ dagger_fun2
           \/ sched_check_fun1 \/ sched_check_fun2
  BY <1>1, <1>2, TaskSteps
<1>3. CASE \/ chaser_main \/ simple_main \/ sys_err_main \/ stress_main
           \/ butterknife_main \/ cyclone_main \/ cyclone_fun1 \/ dagger_main
           \/ sched_check_main \/ hello_main
  BY <1>3, MainSteps
<1> QED BY <1>2, <1>3 DEF UserStep

------------------------------------------------------------------------------
(* What all programs have in common.                                         *)

\* Each action belongs to one program.
LEMMA StepsOfProgram ==
  ASSUME UserStep
  PROVE  /\ Is("mutex_chaser") =>
              chaser_main \/ chaser_fun1 \/ chaser_fun2 \/ chaser_fun3 \/ chaser_fun4
         /\ Is("simple_mutex") =>
              simple_main \/ simple_fun1 \/ simple_fun2 \/ simple_fun3
         /\ Is("sys_err") => sys_err_main \/ sys_err_fun1
         /\ Is("stress") => stress_main \/ \E c \in 0 .. NUM_TASK - 2 : stress_fun1(c)
         /\ Is("butterknife") =>
              butterknife_main \/ butterknife_fun1 \/ butterknife_fun2
         /\ Is("cyclone") => cyclone_main \/ cyclone_fun1
         /\ Is("dagger") => dagger_main \/ dagger_fun1 \/ dagger_fun2
         /\ Is("sched_check") => sched_check_main \/ sched_check_fun1 \/ sched_check_fun2
         /\ Is("hello") => hello_main
<1>1. /\ chaser_main => Is("mutex_chaser")
      /\ \A c, d, r : chaser_task(c, d, r) => Is("mutex_chaser")
  BY DEF chaser_main, chaser_task
<1>2. chaser_fun1 \/ chaser_fun2 \/ chaser_fun3 \/ chaser_fun4 => Is("mutex_chaser")
  BY <1>1 DEF chaser_fun1, chaser_fun2, chaser_fun3, chaser_fun4
<1>3. simple_main \/ simple_fun1 \/ simple_fun2 \/ simple_fun3 => Is("simple_mutex")
  BY DEF simple_main, simple_fun1, simple_fun2, simple_fun3
<1>4. sys_err_main \/ sys_err_fun1 => Is("sys_err")
  BY DEF sys_err_main, sys_err_fun1
<1>5. /\ stress_main => Is("stress")
      /\ \A c : stress_fun1(c) => Is("stress")
  BY DEF stress_main, stress_fun1
<1>6. butterknife_main \/ butterknife_fun1 \/ butterknife_fun2 => Is("butterknife")
  BY DEF butterknife_main, butterknife_fun1, butterknife_fun2, butterknife_task
<1>7. cyclone_main \/ cyclone_fun1 => Is("cyclone")
  BY DEF cyclone_main, cyclone_fun1
<1>8. dagger_main \/ dagger_fun1 \/ dagger_fun2 => Is("dagger")
  BY DEF dagger_main, dagger_fun1, dagger_fun2, putter
<1>9. sched_check_main \/ sched_check_fun1 \/ sched_check_fun2 => Is("sched_check")
  BY DEF sched_check_main, sched_check_fun1, sched_check_fun2, putter
<1>10. hello_main => Is("hello")
  BY DEF hello_main
<1>11. \A p, q : Is(p) /\ Is(q) => p = q
  BY DEF Is
<1> QED BY <1>1, <1>2, <1>3, <1>4, <1>5, <1>6, <1>7, <1>8, <1>9, <1>10, <1>11
    DEF UserStep

Places ==
  /\ program \in DOMAIN InitialData
  /\ pc = [c \in TcbPointers |-> pc[c]]
  /\ cur_tcb = NULL => \A c \in Tcbs : pc[c] = "start"
  /\ cur_tcb # NULL => num_tasks = SetSize[program]

\* Who spins stays in the run queue and leaves the cpu to nobody below it.
SpinsStay ==
  \A c \in Tcbs : Spins(c) => cur_tcb \in 0 .. c /\ c < num_tasks /\ run_list[c + 1] = c

NoHolders == \A m \in Mutexes : pHolding_Tcb[m] = NULL
NoPanic == \A c \in Tcbs : ~Spins(c)

\* The task of cyclone uses neither mutexes nor devices.
CycloneInv ==
  Is("cyclone") =>
    /\ NoHolders
    /\ \A d \in Devices : dev_queue[d] = NULL
    /\ cur_tcb # NULL => cur_tcb = 0

CommonInv == OneSetInv /\ Places /\ SpinsStay /\ CycloneInv

\* Sizes fit the kernel.
LEMMA SetSizes ==
  ASSUME Places
  PROVE  /\ SetSize[program] \in 0 .. IDLE_PRIO - 1
         /\ ~Is("hello") => SetSize[program] \in 1 .. IDLE_PRIO - 1
<1>1. program \in {"mutex_chaser", "simple_mutex", "sys_err", "stress", "butterknife",
                    "cyclone", "sched_check", "dagger", "hello"}
  BY DEF Places, InitialData
<1>2. /\ SetSize["mutex_chaser"] = 4 /\ SetSize["simple_mutex"] = 3
      /\ SetSize["sys_err"] = 1 /\ SetSize["stress"] = NUM_TASK
      /\ SetSize["butterknife"] = 2 /\ SetSize["cyclone"] = 1 /\ SetSize["dagger"] = 2
      /\ SetSize["sched_check"] = 3 /\ SetSize["hello"] = 0
  BY DEF SetSize
<1>3. {1, 2, 3, 4, NUM_TASK} \subseteq 1 .. IDLE_PRIO - 1 /\ 0 \in 0 .. IDLE_PRIO - 1
  BY UserNumbers, Numbers
<1>4. 1 .. IDLE_PRIO - 1 \subseteq 0 .. IDLE_PRIO - 1
  OBVIOUS
<1> QED BY <1>1, <1>2, <1>3, <1>4 DEF Is

LEMMA CommonInit == InitUser => CommonInv
<1> SUFFICES ASSUME InitUser PROVE CommonInv
  OBVIOUS
<1>1. OneSetInv /\ cur_tcb = NULL
  BY OneSetInvInit DEF InitUser, Init
<1>2. Places
  BY <1>1, Numbers DEF InitUser, Places
<1>3. SpinsStay
  BY Numbers DEF InitUser, SpinsStay, Spins
<1>4. CycloneInv
  BY <1>1 DEF InitUser, Init, CycloneInv, NoHolders
<1> QED BY <1>1, <1>2, <1>3, <1>4 DEF CommonInv

\* A step of a task or of main that creates no task set.
LEMMA CommonCall ==
  ASSUME OneSetInv, Places, SpinsStay, NEW c \in TcbPointers, Steps(c)
  PROVE  OneSetInv' /\ Places' /\ SpinsStay'
<1>1. OneSetInv'
  BY CallOrTickStep DEF Steps
<1>2. PICK label : /\ pc' = [pc EXCEPT ![c] = label]
                   /\ label = "spin" => UNCHANGED vars
  BY DEF Steps
<1>3. /\ num_tasks' = num_tasks
      /\ cur_tcb = NULL => cur_tcb' = NULL
      /\ cur_tcb # NULL => cur_tcb' \in Tcbs
      /\ \A t \in Tcbs : t < num_tasks =>
           /\ t # cur_tcb => run_list'[t + 1] = run_list[t + 1]
           /\ cur_tcb' = cur_tcb \/ (run_list'[t + 1] = t => cur_tcb' \in 0 .. t)
  BY <1>1, CallSwitches DEF Steps
<1>4. c = cur_tcb /\ c # IDLE_PRIO /\ program' = program
  BY DEF Steps, Caller
<1>5. \A t \in TcbPointers : pc'[t] = IF t = c THEN label ELSE pc[t]
  BY <1>2 DEF Places
<1>6. Places'
  <2>1. pc' = [t \in TcbPointers |-> pc'[t]]
    BY <1>2 DEF Places
  <2>2. NULL \notin Tcbs /\ Tcbs \subseteq TcbPointers
    BY Numbers
  <2> QED BY <1>3, <1>4, <1>5, <2>1, <2>2 DEF Places
<1>7. ASSUME NEW t \in Tcbs, pc'[t] = "spin"
      PROVE  cur_tcb' \in 0 .. t /\ t < num_tasks' /\ run_list'[t + 1] = t
  <2>1. t \in TcbPointers
    BY Numbers
  <2>2. CASE t = c
    <3>1. UNCHANGED vars
      BY <1>2, <1>5, <1>7, <2>1, <2>2
    <3>2. c < num_tasks /\ run_list[c + 1] = c /\ c \in 0 .. c
      BY <1>4, <2>2, TaskSlots, Numbers
    <3> QED BY <1>4, <2>2, <3>1, <3>2 DEF vars
  <2>3. CASE t # c
    <3>1. cur_tcb \in 0 .. t /\ t < num_tasks /\ run_list[t + 1] = t
      BY <1>5, <1>7, <2>1, <2>3 DEF SpinsStay, Spins
    <3> QED BY <1>3, <1>4, <2>3, <3>1
  <2> QED BY <2>2, <2>3
<1> QED BY <1>1, <1>6, <1>7 DEF SpinsStay, Spins

\* A task set starts, the first one or the next one of cyclone.
LEMMA CommonLaunch ==
  ASSUME CommonInv, Launches
  PROVE  /\ OneSetInv' /\ Places' /\ SpinsStay' /\ cur_tcb' = 0
         /\ cur_tcb = NULL => \A c \in TcbPointers : pc'[c] = pc[c]
         /\ NoPanic' /\ program' = program /\ ~Is("hello")
         /\ UNCHANGED <<errno, holds_lock, sleep_queue, dev_queue, mutex_vars>>
<1> DEFINE n == SetSize[program]
<1> USE DEF CommonInv
<1>1. n \in 1 .. IDLE_PRIO - 1 /\ task_create(n) /\ program' = program /\ ~Is("hello")
  BY SetSizes DEF Launches, launch
<1>2. /\ \A d \in Devices : dev_queue[d] = NULL
      /\ \A m \in Mutexes : pHolding_Tcb[m] = NULL
  BY DEF Launches, CycloneInv, NoHolders, OneSetInv, BeforeBoot
<1>3. TypeInv'
  <2>1. n \in 1 .. OS_MAX_TASKS - 1
    BY <1>1, UserNumbers DEF IDLE_PRIO
  <2> QED BY <1>1, <2>1, TypeInvCreate DEF OneSetInv
<1>4. OneSetInv' /\ cur_tcb' = 0
  BY <1>1, <1>2, <1>3, FreshSetStep
<1>5. num_tasks' = n
  BY <1>1 DEF task_create
<1>6. pc' = [c \in TcbPointers |-> IF c # NULL /\ c < n THEN "start" ELSE pc[c]]
  BY DEF Launches, launch
<1>7. ASSUME NEW c \in Tcbs PROVE pc'[c] # "spin" /\ (cur_tcb = NULL => pc'[c] = pc[c])
  <2>1. c \in TcbPointers /\ c # NULL
    BY Numbers
  <2>2. pc'[c] = IF c < n THEN "start" ELSE pc[c]
    BY <1>6, <2>1
  <2>3. CASE cur_tcb = NULL
    BY <2>2, <2>3 DEF Places
  <2>4. CASE cur_tcb # NULL
    <3>1. n = num_tasks /\ (c < n => pc'[c] = "start") /\ (~ (c < n) => pc[c] # "spin")
      BY <2>2, <2>4 DEF Places, SpinsStay, Spins
    <3> QED BY <2>2, <2>4, <3>1
  <2> QED BY <2>3, <2>4
<1>8. Places'
  <2>1. pc' = [c \in TcbPointers |-> pc'[c]]
    BY <1>6
  <2>2. cur_tcb' # NULL
    BY <1>4, Numbers
  <2> QED BY <1>1, <1>5, <2>1, <2>2 DEF Places
<1>9. SpinsStay' /\ NoPanic'
  BY <1>7 DEF SpinsStay, NoPanic, Spins
<1>10. NULL \notin Tcbs /\ TcbPointers = Tcbs \cup {NULL} /\ NULL \in TcbPointers
  BY Numbers
<1>11. cur_tcb = NULL => \A c \in TcbPointers : pc'[c] = pc[c]
  BY <1>6, <1>7, <1>10
<1>12. UNCHANGED <<errno, holds_lock, sleep_queue, dev_queue, mutex_vars>>
  BY <1>1 DEF task_create, Launches, launch
<1> QED BY <1>1, <1>4, <1>8, <1>9, <1>11, <1>12

\* An interrupt: nobody who spins loses the cpu to a task below it.
LEMMA CommonTick ==
  ASSUME CommonInv, TickInTime
  PROVE  /\ OneSetInv' /\ Places' /\ SpinsStay'
         /\ UNCHANGED <<program, pc, errno, data>>
         /\ cur_tcb # NULL /\ cur_tcb' # NULL
<1> USE DEF CommonInv
<1>1. PICK lag \in 1 .. MaxTickLag : timer_irq(lag)
  BY DEF TickInTime
<1>2. UNCHANGED <<program, pc, errno, data>>
  BY DEF TickInTime, user_vars
<1>3. OneSetInv'
  BY <1>1, CallOrTickStep DEF Tick
<1>4. /\ cur_tcb \in Tcbs /\ cur_tcb' \in Tcbs /\ num_tasks' = num_tasks
      /\ run_list[0] # NULL => cur_tcb' = cur_tcb
      /\ \A t \in Tcbs : t < num_tasks =>
           /\ run_list'[t + 1] = IF \E d \in Fired(lag) : t \in Waiters(d)
                                 THEN t ELSE run_list[t + 1]
           /\ run_list[0] = NULL /\ run_list'[t + 1] = t => cur_tcb' \in 0 .. t
  BY <1>1, <1>3, TickSwitches
<1>5. cur_tcb # NULL /\ cur_tcb' # NULL
  BY <1>4, Numbers
<1>6. Places'
  BY <1>2, <1>4, <1>5 DEF Places
<1>7. SpinsStay'
  <2>1. ASSUME NEW t \in Tcbs, pc[t] = "spin"
        PROVE  cur_tcb' \in 0 .. t /\ t < num_tasks' /\ run_list'[t + 1] = t
    <3>1. cur_tcb \in 0 .. t /\ t < num_tasks /\ run_list[t + 1] = t
      BY <2>1 DEF SpinsStay, Spins
    <3> QED BY <1>4, <3>1
  <2> QED BY <1>2, <2>1 DEF SpinsStay, Spins
<1> QED BY <1>2, <1>3, <1>5, <1>6, <1>7

\* The task of cyclone has no waiters and no mutexes when it replaces itself.
LEMMA CycloneStep ==
  ASSUME CommonInv, Is("cyclone"), UserStep \/ TickInTime
  PROVE  /\ NoHolders' /\ \A d \in Devices : dev_queue'[d] = NULL
         /\ cur_tcb' # NULL => cur_tcb' = 0
<1> USE DEF CommonInv
<1>1. NoHolders /\ (\A d \in Devices : dev_queue[d] = NULL) /\ (cur_tcb # NULL => cur_tcb = 0)
  BY DEF CycloneInv
<1>2. CASE TickInTime
  <2>1. PICK lag \in 1 .. MaxTickLag : timer_irq(lag)
    BY <1>2 DEF TickInTime
  <2>2. NoHolders' /\ \A d \in Devices : dev_queue'[d] = NULL
    BY <1>1, <2>1 DEF timer_irq, mutex_vars, NoHolders
  <2>3. /\ OneSetInv' /\ cur_tcb = 0 /\ 0 # IDLE_PRIO
    BY <1>1, <1>2, CommonTick, Numbers
  <2>4. 0 \in Tcbs /\ 0 < num_tasks /\ run_list[0 + 1] = 0
    BY <2>3, TaskSlots, Numbers
  <2>5. /\ run_list[0] # NULL => cur_tcb' = cur_tcb
        /\ run_list'[0 + 1] = IF \E d \in Fired(lag) : 0 \in Waiters(d)
                              THEN 0 ELSE run_list[0 + 1]
        /\ run_list[0] = NULL /\ run_list'[0 + 1] = 0 => cur_tcb' \in 0 .. 0
    BY <2>1, <2>3, <2>4, TickSwitches
  <2> QED BY <2>2, <2>3, <2>4, <2>5
<1>3. CASE UserStep
  <2>1. cyclone_main \/ cyclone_fun1
    BY <1>3, StepsOfProgram
  <2>2. UNCHANGED kernel_vars \/ (launch(1) /\ (cur_tcb = NULL \/ (cur_tcb = 0 /\ pc[0] # "spin")))
    BY <2>1 DEF cyclone_main, cyclone_fun1, launch_or_refuse, Fail, Compute, At
  <2>3. CASE UNCHANGED kernel_vars
    BY <1>1, <2>3 DEF kernel_vars, vars, dev_vars, mutex_vars, NoHolders
  <2>4. CASE launch(1) /\ (cur_tcb = NULL \/ (cur_tcb = 0 /\ pc[0] # "spin"))
    <3>1. SetSize[program] = 1 /\ ~Is("hello")
      BY DEF Is, SetSize
    <3>2. Launches
      BY <2>4, <3>1 DEF Launches
    <3> QED BY <1>1, <3>2, CommonLaunch DEF NoHolders, mutex_vars
  <2> QED BY <2>2, <2>3, <2>4
<1> QED BY <1>2, <1>3

LEMMA CommonStep ==
  ASSUME CommonInv, NextUser \/ UNCHANGED <<kernel_vars, user_vars>>
  PROVE  CommonInv' /\ program' = program
<1> USE DEF CommonInv
<1>1. CASE UNCHANGED <<kernel_vars, user_vars>>
  <2>1. OneSetInv'
    BY <1>1, CallOrTickStep DEF kernel_vars
  <2>2. UNCHANGED <<cur_tcb, num_tasks, run_list, pc, program, pHolding_Tcb, dev_queue>>
    BY <1>1 DEF kernel_vars, user_vars, vars, mutex_vars, dev_vars
  <2> QED BY <2>1, <2>2 DEF Places, SpinsStay, Spins, CycloneInv, Is, NoHolders
<1>2. CASE NextUser
  <2>1. OneSetInv' /\ Places' /\ SpinsStay' /\ program' = program
    <3>1. ASSUME NEW c \in TcbPointers, Steps(c)
          PROVE  OneSetInv' /\ Places' /\ SpinsStay' /\ program' = program
      BY <3>1, CommonCall DEF Steps
    <3> QED BY <1>2, <3>1, UserStepForms, CommonLaunch, CommonTick DEF NextUser
  <2>2. CycloneInv'
    BY <1>2, <2>1, CycloneStep DEF NextUser, CycloneInv, Is, NoHolders
  <2> QED BY <2>1, <2>2
<1> QED BY <1>1, <1>2

------------------------------------------------------------------------------
(* What the calls of the programs do and give.                               *)

LEMMA GotoPlace ==
  ASSUME Places, NEW c \in TcbPointers, NEW label, Goto(c, label)
  PROVE  \A t \in TcbPointers : pc'[t] = IF t = c THEN label ELSE pc[t]
BY DEF Places, Goto

LEMMA GotoNoPanic ==
  ASSUME Places, NoPanic, NEW c \in TcbPointers, NEW label, label # "spin", Goto(c, label)
  PROVE  NoPanic'
BY GotoPlace, Numbers DEF NoPanic, Spins

\* Nobody has to wait for a mutex.
LEMMA LockResult ==
  ASSUME OneSetInv, NEW c \in Tcbs, NEW m, NEW ok, NEW err, mutex_lock(c, m, ok, err)
  PROVE  \/ /\ lock_error(c, m) = SUCCESS /\ m \in Mutexes
            /\ mutex_lock_free(c, m) /\ Succeed(c, ok)
         \/ lock_error(c, m) # SUCCESS /\ Fail(c, err, lock_error(c, m))
<1>1. CASE lock_error(c, m) = SUCCESS
  <2>1. m \in Mutexes
    BY <1>1 DEF lock_error, SUCCESS, EINVAL
  <2>2. ~mutex_lock_contended(c, m)
    BY <2>1 DEF mutex_lock_contended, Running, OneSetInv, MutexesOfRunning
  <2> QED BY <1>1, <2>1, <2>2 DEF mutex_lock
<1> QED BY <1>1 DEF mutex_lock

LEMMA UnlockResult ==
  ASSUME OneSetInv, NEW c \in Tcbs, NEW m, NEW ok, NEW err, mutex_unlock(c, m, ok, err)
  PROVE  \/ /\ unlock_error(c, m) = SUCCESS /\ m \in Mutexes
            /\ mutex_unlock_free(c, m) /\ Succeed(c, ok)
         \/ unlock_error(c, m) # SUCCESS /\ Fail(c, err, unlock_error(c, m))
<1>1. CASE unlock_error(c, m) = SUCCESS
  <2>1. m \in Mutexes
    BY <1>1 DEF unlock_error, SUCCESS, EINVAL
  <2>2. ~mutex_unlock_handoff(c, m)
    BY <2>1 DEF mutex_unlock_handoff, OneSetInv, MutexesOfRunning
  <2> QED BY <1>1, <2>1, <2>2 DEF mutex_unlock
<1> QED BY <1>1 DEF mutex_unlock

\* event_wait is refused to a caller that owns a mutex and for no other reason.
LEMMA WaitResult ==
  ASSUME OneSetInv, NEW c \in Tcbs, NEW d \in Devices, NEW ok, NEW err,
         wait(c, d, ok, err), \A m \in Mutexes : pHolding_Tcb[m] # c
  PROVE  event_wait(c, d) /\ Succeed(c, ok)
<1>1. holds_lock[c] # 1
  BY DEF OneSetInv, FlagIsOwnership
<1>2. wait_error(c, d) = SUCCESS
  BY <1>1 DEF wait_error
<1> QED BY <1>2 DEF wait

\* The invariants of the programs that neither create mutexes nor panic.
PutterInv == NoHolders /\ NoPanic

LEMMA PutterLaunch ==
  ASSUME CommonInv, PutterInv, cur_tcb = NULL, ~Is("hello"), NEW n, n = SetSize[program],
         launch(n) \/ Fail(NULL, "returned", ESCHED)
  PROVE  PutterInv'
<1>1. CASE launch(n)
  <2>1. Launches
    BY <1>1 DEF Launches
  <2> QED BY <2>1, CommonLaunch DEF PutterInv, NoHolders, mutex_vars
<1>2. CASE Fail(NULL, "returned", ESCHED)
  <2>1. NoPanic'
    BY <1>2, GotoNoPanic, Numbers DEF CommonInv, PutterInv, Fail
  <2> QED BY <1>2, <2>1 DEF PutterInv, NoHolders, Fail, kernel_vars, vars, mutex_vars
<1> QED BY <1>1, <1>2

LEMMA PutterStep ==
  ASSUME CommonInv, program \in {"dagger", "sched_check"}, PutterInv,
         NextUser \/ UNCHANGED <<kernel_vars, user_vars>>
  PROVE  PutterInv'
<1> USE DEF CommonInv
<1>1. CASE UNCHANGED <<kernel_vars, user_vars>>
  BY <1>1 DEF kernel_vars, user_vars, vars, mutex_vars, PutterInv, NoHolders, NoPanic, Spins
<1>2. CASE TickInTime
  BY <1>2 DEF TickInTime, timer_irq, user_vars, mutex_vars, PutterInv, NoHolders, NoPanic,
     Spins
<1>3. ASSUME NEW c \in Tcbs, NEW d \in Devices, NEW p, putter(p, c, d) PROVE PutterInv'
  <2>1. c \in TcbPointers
    BY Numbers
  <2>2. CASE Compute(c, "wait")
    BY <2>1, <2>2, GotoNoPanic
    DEF Compute, kernel_vars, vars, mutex_vars, PutterInv, NoHolders
  <2>3. CASE wait(c, d, "start", "spin")
    <3>1. c # NULL
      BY Numbers
    <3>2. event_wait(c, d) /\ Goto(c, "start")
      BY <2>3, <3>1, WaitResult DEF PutterInv, NoHolders, Succeed
    <3> QED BY <2>1, <3>2, GotoNoPanic DEF event_wait, mutex_vars, PutterInv, NoHolders
  <2> QED BY <1>3, <2>2, <2>3 DEF putter
<1>4. {0, 1, 2} \subseteq Tcbs /\ {0, 1} \subseteq Devices
  BY UserNumbers, Numbers
<1>5. CASE dagger_main
  <2>1. SetSize[program] = 2 /\ ~Is("hello")
    BY <1>5 DEF dagger_main, Is, SetSize
  <2> QED BY <1>5, <2>1, PutterLaunch DEF dagger_main, At, launch_or_refuse
<1>6. CASE sched_check_main
  <2>1. SetSize[program] = 3 /\ ~Is("hello")
    BY <1>6 DEF sched_check_main, Is, SetSize
  <2> QED BY <1>6, <2>1, PutterLaunch DEF sched_check_main, At
<1>7. CASE UserStep
  <2>1. \/ dagger_main \/ dagger_fun1 \/ dagger_fun2
        \/ sched_check_main \/ sched_check_fun1 \/ sched_check_fun2
    BY <1>7, StepsOfProgram DEF Is
  <2> QED BY <1>3, <1>4, <1>5, <1>6, <2>1
      DEF dagger_fun1, dagger_fun2, sched_check_fun1, sched_check_fun2
<1> QED BY <1>1, <1>2, <1>7 DEF NextUser

HelloInv == NoPanic /\ cur_tcb = NULL

LEMMA HelloStep ==
  ASSUME CommonInv, Is("hello"), HelloInv,
         NextUser \/ UNCHANGED <<kernel_vars, user_vars>>
  PROVE  HelloInv'
<1>1. CASE UNCHANGED <<kernel_vars, user_vars>>
  BY <1>1 DEF kernel_vars, user_vars, vars, HelloInv, NoPanic, Spins
<1>2. CASE TickInTime
  BY <1>2, CommonTick DEF HelloInv
<1>3. CASE UserStep
  <2>1. hello_main
    BY <1>3, StepsOfProgram
  <2> QED BY <2>1, GotoNoPanic, Numbers
      DEF hello_main, Compute, CommonInv, kernel_vars, vars, HelloInv
<1> QED BY <1>1, <1>2, <1>3 DEF NextUser

\* The fifth task of stress is ready from the start and never leaves the run
\* queue: no task below it ever runs.
StressInv ==
  /\ NoHolders
  /\ cur_tcb # NULL => cur_tcb \in 0 .. NUM_DEVICES /\ run_list[NUM_DEVICES + 1] = NUM_DEVICES
  /\ \A c \in Tcbs : Spins(c) => c = NUM_DEVICES /\ errno = EINVAL

LEMMA StressStep ==
  ASSUME CommonInv, Is("stress"), StressInv,
         NextUser \/ UNCHANGED <<kernel_vars, user_vars>>
  PROVE  StressInv'
<1> USE DEF CommonInv
<1>0. /\ NUM_DEVICES = 4 /\ 4 \in Tcbs /\ 4 # NULL /\ 4 + 1 \in Prios \ {0, IDLE_PRIO}
      /\ SetSize[program] = NUM_TASK /\ 4 < NUM_TASK /\ ~Is("hello")
  BY UserNumbers, Numbers DEF Is, SetSize
<1>1. CASE UNCHANGED <<kernel_vars, user_vars>>
  BY <1>1 DEF kernel_vars, user_vars, vars, mutex_vars, StressInv, NoHolders, Spins
<1>2. OneSetInv' /\ Places'
  BY CommonStep
<1>3. CASE TickInTime
  <2>1. PICK lag \in 1 .. MaxTickLag : timer_irq(lag)
    BY <1>3 DEF TickInTime
  <2>2. cur_tcb # NULL /\ run_list[0] = NULL
    BY <1>3, CommonTick DEF StressInv, NoHolders, OneSetInv, SlotZeroOfOwner
  <2>3. 4 < num_tasks /\ run_list[4 + 1] = 4
    BY <1>0, <2>2 DEF Places, StressInv
  <2>4. /\ run_list'[4 + 1] = 4 /\ cur_tcb' \in 0 .. 4
    BY <1>0, <1>2, <2>1, <2>2, <2>3, TickSwitches
  <2> QED BY <1>0, <1>3, <2>1, <2>4
      DEF TickInTime, user_vars, timer_irq, mutex_vars, StressInv, NoHolders, Spins
<1>4. CASE stress_main
  <2>1. cur_tcb = NULL /\ \A c \in Tcbs : ~Spins(c)
    BY <1>4 DEF stress_main, At, Places, Spins
  <2>2. PutterInv'
    BY <1>0, <1>4, <2>1, PutterLaunch
    DEF stress_main, launch_or_refuse, StressInv, PutterInv, NoPanic
  <2>3. CASE launch(NUM_TASK)
    <3>1. cur_tcb' = 0
      BY <1>0, <2>1, <2>3, CommonLaunch DEF Launches
    <3>2. run_list'[4 + 1] = 4
      <4>1. run_list' = FreshList(NUM_TASK)
        BY <2>3 DEF launch, task_create
      <4>2. 4 + 1 \in 1 .. NUM_TASK /\ (4 + 1) - 1 = 4
        BY UserNumbers
      <4> QED BY <1>0, <4>1, <4>2 DEF FreshList
    <3> QED BY <1>0, <2>2, <3>1, <3>2 DEF PutterInv, NoPanic, StressInv
  <2>4. CASE Fail(NULL, "returned", ESCHED)
    BY <2>1, <2>2, <2>4 DEF Fail, kernel_vars, vars, PutterInv, NoPanic, StressInv
  <2> QED BY <1>4, <2>3, <2>4 DEF stress_main, launch_or_refuse
<1>5. ASSUME NEW c \in 0 .. NUM_TASK - 2, stress_fun1(c) PROVE StressInv'
  <2>1. c \in Tcbs /\ c \in TcbPointers /\ c # NULL
    BY UserNumbers, Numbers
  <2>2. cur_tcb = c /\ ~Spins(c)
    BY <1>5 DEF stress_fun1, At, Spins
  <2>3. c \in 0 .. 4 /\ run_list[4 + 1] = 4 /\ 4 < num_tasks
    BY <1>0, <2>1, <2>2 DEF StressInv, Places
  <2>4. ASSUME NEW label, label # "spin", Goto(c, label)
        PROVE  \A t \in Tcbs : pc'[t] = "spin" => Spins(t)
    BY <2>1, <2>4, GotoPlace, Numbers DEF Spins
  <2>5. CASE \E label : label # "spin" /\ Compute(c, label)
    BY <2>4, <2>5 DEF Compute, kernel_vars, vars, mutex_vars, StressInv, NoHolders, Spins
  <2>6. CASE wait(c, c, "start", "spin") /\ c \in Devices
    <3>1. event_wait(c, c) /\ Succeed(c, "start") /\ c # 4
      BY <1>0, <2>1, <2>6, WaitResult, UserNumbers DEF StressInv, NoHolders
    <3>2. run_list'[4 + 1] = 4 /\ cur_tcb' \in 0 .. 4
      BY <1>0, <1>2, <2>1, <2>3, <2>6, <3>1, WaitSwitches
    <3> QED BY <1>0, <2>4, <3>1, <3>2
        DEF Succeed, event_wait, mutex_vars, StressInv, NoHolders, Spins
  <2>7. CASE wait(c, c, "start", "spin") /\ c \notin Devices
    <3>1. c = 4
      BY <2>3, <2>7, UserNumbers
    <3>2. Fail(c, "spin", EINVAL)
      BY <2>7 DEF wait, wait_error, SUCCESS, EINVAL
    <3>3. \A t \in Tcbs : pc'[t] = "spin" => t = c \/ Spins(t)
      BY <2>1, <3>2, GotoPlace, Numbers DEF Fail, Spins
    <3> QED BY <1>0, <3>1, <3>2, <3>3
        DEF Fail, kernel_vars, vars, mutex_vars, StressInv, NoHolders, Spins
  <2> QED BY <1>5, <2>5, <2>6, <2>7 DEF stress_fun1
<1>6. CASE UserStep
  BY <1>4, <1>5, <1>6, StepsOfProgram
<1> QED BY <1>1, <1>3, <1>6 DEF NextUser

\* A task of simple_mutex that panics with the mutex keeps it, and the cpu.
SimpleInv == \A c \in Tcbs \ {0} : Spins(c) => errno = EHOLDSLOCK /\ holds_lock[c] = 1

\* The owner of a mutex is running.
LEMMA OwnerHasCpu ==
  ASSUME OneSetInv, NEW c \in Tcbs, holds_lock[c] = 1
  PROVE  cur_tcb = c
BY Numbers DEF OneSetInv, FlagIsOwnership, MutexesOfRunning

LEMMA SimpleStep ==
  ASSUME CommonInv, Is("simple_mutex"), SimpleInv,
         NextUser \/ UNCHANGED <<kernel_vars, user_vars>>
  PROVE  SimpleInv'
<1> USE DEF CommonInv
<1>1. CASE UNCHANGED <<kernel_vars, user_vars>>
  BY <1>1 DEF kernel_vars, user_vars, vars, tcb_vars, SimpleInv, Spins
<1>2. CASE TickInTime
  BY <1>2 DEF TickInTime, timer_irq, user_vars, SimpleInv, Spins
<1>3. CASE UserStep
  <2>1. simple_main \/ simple_fun1 \/ simple_fun2 \/ simple_fun3
    BY <1>3, StepsOfProgram
  <2>2. {0, 1, 2} \subseteq Tcbs /\ {1, 2} \subseteq Devices /\ NULL \notin Tcbs
        /\ Tcbs \subseteq TcbPointers /\ NULL \in TcbPointers
    BY UserNumbers, Numbers
  <2>3. ASSUME NEW t \in Tcbs \ {0} PROVE pc[t] # "spin"
    <3>1. SUFFICES ASSUME pc[t] = "spin" PROVE FALSE
      OBVIOUS
    <3>2. cur_tcb = t
      BY <3>1, OwnerHasCpu DEF SimpleInv, Spins
    <3> QED BY <2>1, <2>2, <3>1, <3>2
        DEF simple_main, simple_fun1, simple_fun2, simple_fun3, At
  <2>4. ASSUME NEW c \in TcbPointers, NEW label, Goto(c, label),
               label = "spin" => c = 0 \/ (errno' = EHOLDSLOCK /\ holds_lock'[c] = 1)
        PROVE  SimpleInv'
    BY <2>2, <2>3, <2>4, GotoPlace DEF SimpleInv, Spins
  <2>5. ASSUME NEW c \in {0, 1, 2}, NEW ok, NEW err, NEW m,
               mutex_lock(c, m, ok, err) \/ mutex_unlock(c, m, ok, err),
               ok # "spin", err # "spin"
        PROVE  SimpleInv'
    <3>1. Goto(c, ok) \/ Goto(c, err)
      BY <2>5 DEF mutex_lock, mutex_unlock, Succeed, Fail
    <3> QED BY <2>2, <2>4, <2>5, <3>1
  <2>6. ASSUME NEW c \in {0, 1, 2}, NEW label, Compute(c, label), label # "spin" \/ c = 0
        PROVE  SimpleInv'
    BY <2>2, <2>4, <2>6 DEF Compute
  <2>7. ASSUME NEW c \in {1, 2}, NEW ok, ok # "spin", wait(c, c, ok, "spin")
        PROVE  SimpleInv'
    <3>1. CASE wait_error(c, c) = SUCCESS
      BY <2>2, <2>4, <2>7, <3>1 DEF wait, Succeed
    <3>2. CASE wait_error(c, c) # SUCCESS
      <4>1. wait_error(c, c) = EHOLDSLOCK /\ holds_lock[c] = 1
        BY <2>2, <3>2 DEF wait_error
      <4>2. Fail(c, "spin", EHOLDSLOCK)
        BY <2>7, <3>2, <4>1 DEF wait
      <4> QED BY <2>2, <2>4, <4>1, <4>2 DEF Fail, kernel_vars, vars, tcb_vars
    <3> QED BY <3>1, <3>2
  <2>8. CASE simple_main
    <3>1. cur_tcb = NULL /\ SetSize[program] = 3 /\ ~Is("hello")
      BY <2>8 DEF simple_main, At, Is, SetSize
    <3>2. CASE launch(3)
      BY <3>1, <3>2, CommonLaunch DEF Launches, NoPanic, SimpleInv
    <3>3. CASE Fail(NULL, "returned", ESCHED)
      BY <2>2, <2>4, <3>3 DEF Fail
    <3> QED BY <2>8, <3>2, <3>3 DEF simple_main, launch_or_refuse
  <2>9. CASE simple_fun1
    <3>1. CASE create(0, "loop", "loop")
      BY <2>2, <2>4, <3>1 DEF create, Succeed, Fail
    <3>2. CASE wait(0, 0, "loop", "spin")
      BY <2>2, <2>4, <3>2 DEF wait, Succeed, Fail
    <3> QED BY <2>5, <2>6, <2>9, <3>1, <3>2 DEF simple_fun1
  <2>10. CASE simple_fun2
    BY <2>5, <2>6, <2>7, <2>10 DEF simple_fun2
  <2>11. CASE simple_fun3
    BY <2>5, <2>6, <2>7, <2>11 DEF simple_fun3
  <2> QED BY <2>1, <2>8, <2>9, <2>10, <2>11
<1> QED BY <1>1, <1>2, <1>3 DEF NextUser

\* What check_return was given so far, and the mutex that the task takes.
Expected ==
  << {EINVAL}, {EFAULT}, {ENOMEM}, {EINVAL}, {EPERM}, {EINVAL},
     {SUCCESS}, {EDEADLOCK}, {SUCCESS}, {EINVAL} >>
ResultsExpected ==
  /\ data = [k \in 1 .. 10 |-> data[k]]
  /\ \A k \in 1 .. 10 : data[k] # "none" => data[k] \in Expected[k]
SysErrInv ==
  /\ ResultsExpected
  /\ pc[0] # "start" => \A m \in Mutexes : bAvailable[m] = 0
  /\ \A m \in Mutexes : pHolding_Tcb[m] = IF m = 2 /\ pc[0] \in {"8", "9"} THEN 0 ELSE NULL

LEMMA SysErrStep ==
  ASSUME CommonInv, Is("sys_err"), SysErrInv,
         NextUser \/ UNCHANGED <<kernel_vars, user_vars>>
  PROVE  SysErrInv'
<1> USE DEF CommonInv
<1>0. /\ 0 \in Tcbs /\ 0 # NULL /\ 0 # IDLE_PRIO /\ 0 \in TcbPointers /\ NULL \in TcbPointers
      /\ {1, 2} \subseteq Mutexes /\ FarMutex \notin Mutexes
      /\ NUM_DEVICES + 1 \notin Devices
      /\ SetSize[program] = 1 /\ ~Is("hello")
  BY UserNumbers, Numbers DEF Is, SetSize, FarMutex, Mutexes
<1>1. CASE UNCHANGED <<kernel_vars, user_vars>>
  BY <1>1 DEF kernel_vars, user_vars, vars, mutex_vars, SysErrInv, ResultsExpected
<1>2. CASE TickInTime
  BY <1>2 DEF TickInTime, timer_irq, user_vars, mutex_vars, SysErrInv, ResultsExpected
<1>3. ASSUME NEW k \in 1 .. 10, NEW r, r \in Expected[k], check_return(k, r)
      PROVE  ResultsExpected'
  BY <1>3 DEF check_return, SysErrInv, ResultsExpected
<1>4. ASSUME UNCHANGED data PROVE ResultsExpected'
  BY <1>4 DEF SysErrInv, ResultsExpected
<1>5. /\ EINVAL \in Expected[1] /\ EFAULT \in Expected[2]
      /\ ENOMEM \in Expected[3] /\ EINVAL \in Expected[4] /\ EPERM \in Expected[5]
      /\ EINVAL \in Expected[6] /\ SUCCESS \in Expected[7]
      /\ EDEADLOCK \in Expected[8] /\ SUCCESS \in Expected[9] /\ EINVAL \in Expected[10]
  BY DEF Expected
<1>6. ASSUME pc'[0] = pc[0], UNCHANGED mutex_vars, ResultsExpected' PROVE SysErrInv'
  BY <1>6 DEF SysErrInv, mutex_vars
<1>7. CASE sys_err_main
  <2>1. cur_tcb = NULL
    BY <1>7 DEF sys_err_main, At
  <2>2. ASSUME NEW label, NEW e, Fail(NULL, label, e)
        PROVE  pc'[0] = pc[0] /\ UNCHANGED mutex_vars
    BY <1>0, <2>2, GotoPlace DEF Fail, kernel_vars, vars
  <2>4. \/ Fail(NULL, "fault", EINVAL) /\ check_return(1, EINVAL)
        \/ Fail(NULL, "create", EFAULT) /\ check_return(2, EFAULT)
        \/ (launch(1) \/ Fail(NULL, "returned", ESCHED)) /\ UNCHANGED data
    BY <1>7 DEF sys_err_main, launch_or_refuse
  <2>5. CASE Fail(NULL, "fault", EINVAL) /\ check_return(1, EINVAL)
    BY <1>3, <1>5, <1>6, <2>2, <2>5
  <2>6. CASE Fail(NULL, "create", EFAULT) /\ check_return(2, EFAULT)
    BY <1>3, <1>5, <1>6, <2>2, <2>6
  <2>7. CASE launch(1) /\ UNCHANGED data
    <3>1. pc'[0] = pc[0] /\ UNCHANGED mutex_vars
      BY <1>0, <2>1, <2>7, CommonLaunch DEF Launches
    <3> QED BY <1>4, <1>6, <2>7, <3>1
  <2>8. CASE Fail(NULL, "returned", ESCHED) /\ UNCHANGED data
    BY <1>4, <1>6, <2>2, <2>8
  <2> QED BY <2>4, <2>5, <2>6, <2>7, <2>8
<1>8. ASSUME NEW label, Goto(0, label) PROVE pc'[0] = label
  BY <1>0, <1>8, GotoPlace
<1>9. ASSUME NEW label, NEW e, NEW k \in 1 .. 10,
             Fail(0, label, e), check_return(k, errno'), e \in Expected[k],
             \A m \in Mutexes : bAvailable[m] = 0,
             pc[0] \in {"8", "9"} <=> label \in {"8", "9"}
      PROVE  SysErrInv'
  <2>1. pc'[0] = label /\ errno' = e /\ UNCHANGED mutex_vars
    BY <1>8, <1>9 DEF Fail, kernel_vars, vars
  <2>2. ResultsExpected'
    BY <1>3, <1>9, <2>1
  <2> QED BY <1>9, <2>1, <2>2 DEF SysErrInv, mutex_vars
<1>10. TypeOK
  BY DEF OneSetInv, TypeInv
<1>11. CASE sys_err_fun1
  <2>1. cur_tcb = 0
    BY <1>11 DEF sys_err_fun1, At
  <2>2. CASE At(0, "start") /\ Created \in Mutexes /\ create(0, "start", "start") /\ UNCHANGED data
    <3>1. mutex_create /\ Goto(0, "start") /\ pc[0] = "start"
      BY <2>2 DEF create, Succeed, At
    <3>2. pc'[0] = "start" /\ pHolding_Tcb' = pHolding_Tcb
      BY <1>8, <3>1 DEF mutex_create
    <3> QED BY <1>4, <2>2, <3>1, <3>2 DEF SysErrInv
  <2>3. CASE /\ At(0, "start") /\ Created \notin Mutexes
             /\ create(0, "4", "4") /\ check_return(3, ENOMEM)
    <3>1. Fail(0, "4", ENOMEM) /\ pc[0] = "start" /\ errno' = ENOMEM
      BY <2>3 DEF create, At, Fail
    <3>2. \A m \in Mutexes : bAvailable[m] = 0
      BY <1>10, <2>3, CreatedIs DEF TypeOK
    <3> QED BY <1>5, <1>9, <2>3, <3>1, <3>2
  <2>4. CASE At(0, "4") /\ mutex_unlock(0, FarMutex, "5", "5") /\ check_return(4, errno')
    <3>1. Fail(0, "5", EINVAL) /\ pc[0] = "4"
      BY <1>0, <2>4 DEF mutex_unlock, unlock_error, SUCCESS, EINVAL, At
    <3> QED BY <1>5, <1>9, <2>4, <3>1 DEF SysErrInv
  <2>5. CASE At(0, "5") /\ mutex_unlock(0, 1, "6", "6") /\ check_return(5, errno')
    <3>1. pc[0] = "5" /\ bAvailable[1] = 0 /\ pHolding_Tcb[1] # 0
      BY <1>0, <2>5 DEF At, SysErrInv
    <3>2. Fail(0, "6", EPERM)
      BY <1>0, <2>5, <3>1 DEF mutex_unlock, unlock_error, SUCCESS, EPERM
    <3> QED BY <1>5, <1>9, <2>5, <3>1, <3>2 DEF SysErrInv
  <2>6. CASE At(0, "6") /\ mutex_lock(0, FarMutex, "7", "7") /\ check_return(6, errno')
    <3>1. Fail(0, "7", EINVAL) /\ pc[0] = "6"
      BY <1>0, <2>6 DEF mutex_lock, lock_error, SUCCESS, EINVAL, At
    <3> QED BY <1>5, <1>9, <2>6, <3>1 DEF SysErrInv
  <2>7. CASE At(0, "7") /\ mutex_lock(0, 2, "8", "8") /\ check_return(7, lock_error(0, 2))
    <3>1. pc[0] = "7" /\ bAvailable[2] = 0 /\ pHolding_Tcb[2] # 0
      BY <1>0, <2>7 DEF At, SysErrInv
    <3>2. lock_error(0, 2) = SUCCESS
      BY <1>0, <3>1 DEF lock_error
    <3>3. mutex_lock_free(0, 2) /\ Goto(0, "8")
      BY <1>0, <2>7, <3>2, LockResult DEF Succeed
    <3>4. pc'[0] = "8" /\ bAvailable' = bAvailable
          /\ pHolding_Tcb' = [pHolding_Tcb EXCEPT ![2] = 0]
      BY <1>8, <3>3 DEF mutex_lock_free
    <3>5. ResultsExpected'
      BY <1>3, <1>5, <2>7, <3>2
    <3> QED BY <1>0, <1>10, <3>1, <3>4, <3>5 DEF SysErrInv, TypeOK
  <2>8. CASE At(0, "8") /\ mutex_lock(0, 2, "9", "9") /\ check_return(8, errno')
    <3>1. pc[0] = "8" /\ bAvailable[2] = 0 /\ pHolding_Tcb[2] = 0
      BY <1>0, <2>8 DEF At, SysErrInv
    <3>2. Fail(0, "9", EDEADLOCK)
      BY <1>0, <2>8, <3>1 DEF mutex_lock, lock_error, SUCCESS, EDEADLOCK
    <3> QED BY <1>5, <1>9, <2>8, <3>1, <3>2 DEF SysErrInv
  <2>9. CASE /\ At(0, "9") /\ mutex_unlock(0, 2, "10", "10")
             /\ check_return(9, unlock_error(0, 2))
    <3>1. pc[0] = "9" /\ bAvailable[2] = 0 /\ pHolding_Tcb[2] = 0
      BY <1>0, <2>9 DEF At, SysErrInv
    <3>2. unlock_error(0, 2) = SUCCESS
      BY <1>0, <3>1 DEF unlock_error
    <3>3. mutex_unlock_free(0, 2) /\ Goto(0, "10")
      BY <1>0, <2>9, <3>2, UnlockResult DEF Succeed
    <3>4. pc'[0] = "10" /\ bAvailable' = bAvailable
          /\ pHolding_Tcb' = [pHolding_Tcb EXCEPT ![2] = NULL]
      BY <1>8, <3>3 DEF mutex_unlock_free
    <3>5. ResultsExpected'
      BY <1>3, <1>5, <2>9, <3>2
    <3> QED BY <1>0, <1>10, <3>1, <3>4, <3>5 DEF SysErrInv, TypeOK
  <2>10. CASE At(0, "10") /\ wait(0, NUM_DEVICES + 1, "spin", "spin") /\ check_return(10, errno')
    <3>1. Fail(0, "spin", EINVAL) /\ pc[0] = "10"
      BY <1>0, <2>10 DEF wait, wait_error, SUCCESS, EINVAL, At
    <3> QED BY <1>5, <1>9, <2>10, <3>1 DEF SysErrInv
  <2> QED BY <1>11, <2>2, <2>3, <2>4, <2>5, <2>6, <2>7, <2>8, <2>9, <2>10
      DEF sys_err_fun1
<1>12. CASE UserStep
  BY <1>7, <1>11, <1>12, StepsOfProgram
<1> QED BY <1>1, <1>2, <1>12 DEF NextUser

\* One mutex; its owner is between lock and unlock.
Critical == {"held", "sleep", "unlock"}
ButterknifeInv ==
  /\ NoPanic
  /\ cur_tcb # NULL => pc[NULL] = "launch"
  /\ pc[NULL] = "start" => \A m \in Mutexes : bAvailable[m] = 1
  /\ pc[NULL] # "start" => data = 0 /\ bAvailable[0] = 0
  /\ \A t \in {0, 1} : pc[t] \in Critical <=> pHolding_Tcb[0] = t
  /\ \A m \in Mutexes : pHolding_Tcb[m] # NULL => m = 0

LEMMA ButterknifeStep ==
  ASSUME CommonInv, Is("butterknife"), ButterknifeInv,
         NextUser \/ UNCHANGED <<kernel_vars, user_vars>>
  PROVE  ButterknifeInv'
<1> USE DEF CommonInv
<1>0. /\ {0, 1} \subseteq Tcbs /\ NULL \notin Tcbs /\ TcbPointers = Tcbs \cup {NULL}
      /\ {0, 1} \subseteq Devices /\ 0 \in Mutexes /\ \A m \in Mutexes : m \in Nat
      /\ SetSize[program] = 2 /\ ~Is("hello")
  BY UserNumbers, Numbers DEF Is, SetSize, Mutexes
<1>1. TypeOK /\ OneSetInv'
  BY CommonStep DEF OneSetInv, TypeInv
<1>2. CASE UNCHANGED <<kernel_vars, user_vars>>
  BY <1>2 DEF kernel_vars, user_vars, vars, mutex_vars, ButterknifeInv, NoPanic, Spins
<1>3. CASE TickInTime
  BY <1>3, CommonTick
  DEF TickInTime, timer_irq, user_vars, mutex_vars, ButterknifeInv, NoPanic, Spins
<1>4. CASE butterknife_main
  <2>1. cur_tcb = NULL /\ \A t \in Tcbs : pc[t] = "start"
    BY <1>4 DEF butterknife_main, At, Places
  <2>2. pHolding_Tcb[0] \notin {0, 1} /\ \A t \in {0, 1} : pc[t] \notin Critical
    BY <1>0, <2>1 DEF ButterknifeInv, Critical
  <2>3. CASE At(NULL, "start") /\ create(NULL, "launch", "launch") /\ data' = Created
    <3>1. \A m \in Mutexes : bAvailable[m] = 1
      BY <2>3 DEF At, ButterknifeInv
    <3>2. Created = 0
      BY <1>0, <3>1, CreatedIs DEF Mutexes
    <3>3. mutex_create /\ Goto(NULL, "launch")
      BY <1>0, <2>3, <3>2 DEF create, Succeed
    <3>4. bAvailable'[0] = 0 /\ pHolding_Tcb' = pHolding_Tcb /\ cur_tcb' = NULL
      <4>1. PICK m \in Mutexes : /\ \A k \in Mutexes : bAvailable[k] = 1 => m <= k
                                 /\ bAvailable' = [bAvailable EXCEPT ![m] = 0]
        BY <3>3 DEF mutex_create
      <4>2. m = 0
        BY <1>0, <3>1, <4>1 DEF Mutexes
      <4> QED BY <1>0, <1>1, <2>1, <3>3, <4>1, <4>2 DEF mutex_create, TypeOK
    <3>5. pc'[NULL] = "launch" /\ \A t \in Tcbs : pc'[t] = pc[t]
      BY <1>0, <3>3, GotoPlace
    <3> QED BY <1>0, <2>1, <2>3, <3>2, <3>4, <3>5 DEF ButterknifeInv, NoPanic, Spins
  <2>4. CASE At(NULL, "launch") /\ launch(2) /\ UNCHANGED data
    <3>1. /\ cur_tcb' = 0 /\ UNCHANGED mutex_vars /\ NoPanic'
          /\ \A c \in TcbPointers : pc'[c] = pc[c]
      BY <1>0, <2>1, <2>4, CommonLaunch DEF Launches
    <3> QED BY <1>0, <2>4, <3>1 DEF ButterknifeInv, mutex_vars, At
  <2>5. CASE At(NULL, "launch") /\ Fail(NULL, "returned", ESCHED) /\ UNCHANGED data
    <3>1. /\ UNCHANGED <<cur_tcb, mutex_vars>>
          /\ pc'[NULL] = "returned" /\ \A t \in Tcbs : pc'[t] = pc[t]
      BY <1>0, <2>5, GotoPlace DEF Fail, kernel_vars, vars
    <3> QED BY <1>0, <2>1, <2>5, <3>1 DEF ButterknifeInv, mutex_vars, At, NoPanic, Spins
  <2> QED BY <1>4, <2>3, <2>4, <2>5 DEF butterknife_main, launch_or_refuse
<1>5. ASSUME NEW c \in {0, 1}, butterknife_task(c, c) PROVE ButterknifeInv'
  <2>1. /\ cur_tcb = c /\ c # NULL /\ c \in Tcbs /\ c \in TcbPointers /\ NULL \in TcbPointers
        /\ UNCHANGED data
    BY <1>0, <1>5 DEF butterknife_task, At
  <2>2. pc[NULL] = "launch" /\ data = 0 /\ bAvailable[0] = 0
    BY <2>1 DEF ButterknifeInv
  <2>3. ASSUME NEW label, Goto(c, label), label # "spin",
               UNCHANGED mutex_vars, pc[c] \in Critical <=> label \in Critical
        PROVE  ButterknifeInv'
    <3>1. \A t \in TcbPointers : pc'[t] = IF t = c THEN label ELSE pc[t]
      BY <2>1, <2>3, GotoPlace
    <3> QED BY <1>0, <2>1, <2>2, <2>3, <3>1
        DEF ButterknifeInv, mutex_vars, NoPanic, Spins
  <2>4. CASE At(c, "start") /\ mutex_lock(c, data, "held", "held")
    <3>1. pc[c] = "start" /\ pHolding_Tcb[0] # c
      BY <2>4 DEF At, ButterknifeInv, Critical
    <3>2. lock_error(c, 0) = SUCCESS
      BY <1>0, <2>2, <3>1 DEF lock_error
    <3>3. mutex_lock_free(c, 0) /\ Goto(c, "held")
      BY <2>1, <2>2, <2>4, <3>2, LockResult DEF Succeed
    <3>4. \A t \in TcbPointers : pc'[t] = IF t = c THEN "held" ELSE pc[t]
      BY <2>1, <3>3, GotoPlace
    <3>5. bAvailable' = bAvailable /\ pHolding_Tcb' = [pHolding_Tcb EXCEPT ![0] = c]
          /\ pHolding_Tcb \in [Mutexes -> TcbPointers]
      BY <1>1, <3>3 DEF mutex_lock_free, TypeOK
    <3>6. pHolding_Tcb[0] \notin {0, 1}
      BY <1>0, <2>1, <3>1 DEF OneSetInv, MutexesOfRunning
    <3> QED BY <1>0, <2>1, <2>2, <3>4, <3>5, <3>6
        DEF ButterknifeInv, Critical, NoPanic, Spins
  <2>5. CASE At(c, "held") /\ Compute(c, "sleep")
    BY <2>3, <2>5 DEF At, Compute, kernel_vars, vars, Critical
  <2>6. CASE At(c, "sleep") /\ Compute(c, "unlock")
    BY <2>3, <2>6 DEF At, Compute, kernel_vars, vars, Critical
  <2>7. CASE At(c, "unlock") /\ mutex_unlock(c, data, "wait", "wait")
    <3>1. pc[c] = "unlock" /\ pHolding_Tcb[0] = c
      BY <2>7 DEF At, ButterknifeInv, Critical
    <3>2. unlock_error(c, 0) = SUCCESS
      BY <1>0, <2>2, <3>1 DEF unlock_error
    <3>3. mutex_unlock_free(c, 0) /\ Goto(c, "wait")
      BY <2>1, <2>2, <2>7, <3>2, UnlockResult DEF Succeed
    <3>4. \A t \in TcbPointers : pc'[t] = IF t = c THEN "wait" ELSE pc[t]
      BY <2>1, <3>3, GotoPlace
    <3>5. bAvailable' = bAvailable /\ pHolding_Tcb' = [pHolding_Tcb EXCEPT ![0] = NULL]
          /\ pHolding_Tcb \in [Mutexes -> TcbPointers]
      BY <1>1, <3>3 DEF mutex_unlock_free, TypeOK
    <3> QED BY <1>0, <2>1, <2>2, <3>1, <3>4, <3>5
        DEF ButterknifeInv, Critical, NoPanic, Spins
  <2>8. CASE At(c, "wait") /\ wait(c, c, "start", "spin")
    <3>1. pc[c] = "wait" /\ \A m \in Mutexes : pHolding_Tcb[m] # c
      BY <2>1, <2>8 DEF At, ButterknifeInv, Critical
    <3>2. event_wait(c, c) /\ Goto(c, "start")
      BY <1>0, <2>1, <2>8, <3>1, WaitResult DEF Succeed
    <3> QED BY <2>3, <3>1, <3>2 DEF event_wait, Critical
  <2> QED BY <1>5, <2>4, <2>5, <2>6, <2>7, <2>8 DEF butterknife_task
<1>6. CASE UserStep
  BY <1>4, <1>5, <1>6, StepsOfProgram DEF butterknife_fun1, butterknife_fun2
<1> QED BY <1>2, <1>3, <1>6 DEF NextUser

------------------------------------------------------------------------------
(* mutex_chaser.                                                             *)

\* The device of task c.
Dev(c) == <<3, 0, 1, 2>>[c + 1]

\* Task c is done with mutex m once it has stored the value.
Done(c, m) ==
  data.cur[c] > m \/ (data.cur[c] = m /\ pc[c] \in {"stored", "next"})

ChaserTypes ==
  /\ data = [i |-> data.i, val |-> data.val, cur |-> data.cur, reg |-> data.reg,
             report |-> data.report]
  /\ data.i \in 0 .. MUTEX_NUM
  /\ data.val \in [Mutexes -> Int]
  /\ data.cur \in [0 .. 3 -> 1 .. MUTEX_NUM]
  /\ data.reg \in [0 .. 3 -> Int]

\* main creates the mutexes in order.
ChaserMain ==
  /\ cur_tcb = NULL =>
       /\ \A m \in Mutexes : bAvailable[m] = 1 <=> m >= data.i
       /\ \A m \in Mutexes : m < data.i => data.val[m] = init_val
       /\ \A c \in 0 .. 3 : data.cur[c] = 1
  /\ cur_tcb # NULL => \A m \in Mutexes : bAvailable[m] = 0

\* Where each task is, and what it has then.
ChaserPlaces ==
  \A c \in 0 .. 3 :
    /\ pc[c] \in {"start", "held", "loaded", "stored", "next"}
    /\ pc[c] # "start" => data.cur[c] < MUTEX_NUM
    /\ \A m \in Mutexes : pHolding_Tcb[m] = c <=>
                            pc[c] \in {"held", "loaded", "stored"} /\ m = data.cur[c]
    /\ pc[c] = "loaded" => data.reg[c] = data.val[data.cur[c]]

\* A task that is not ready waits for its device.
ChaserWaits ==
  cur_tcb # NULL => \A c \in 0 .. 3 : run_list[c + 1] = NULL => event[c] = Dev(c)

\* When a task begins its job, every task before it waits.
RunsFirst ==
  cur_tcb \in 0 .. 3 /\ pc[cur_tcb] = "start" =>
    \A t \in 0 .. 3 : t < cur_tcb => run_list[t + 1] = NULL

\* At each mutex a task comes after the tasks before it.
InOrder ==
  \A b, c \in 0 .. 3 : b < c =>
    /\ \A m \in Mutexes \ {0} : Done(c, m) => Done(b, m)
    /\ pc[c] \in {"held", "loaded"} => Done(b, data.cur[c])

\* The values are what those tasks have made of them that are done.
Values ==
  cur_tcb # NULL =>
    /\ data.val[0] = 2
    /\ \A m \in Mutexes \ {0} :
         /\ ~Done(0, m) => data.val[m] = 2
         /\ Done(0, m) /\ ~Done(1, m) => data.val[m] = 5
         /\ Done(1, m) /\ ~Done(2, m) => data.val[m] = 55
         /\ Done(2, m) /\ ~Done(3, m) => data.val[m] = 48
         /\ Done(3, m) => data.val[m] = 624

ReportRight ==
  data.report # << >> => \A m \in Mutexes : data.report[m] <=> m # 0

\* At time T after the start a device has had e events, and its task has done as
\* many jobs, or one more if it waits for the next event.
JobsAt(T, e) ==
  /\ \A d \in Devices : due[d] \in 1 .. dev_freq[d] /\ T = (e[d] + 1) * dev_freq[d] - due[d]
  /\ \A c \in 0 .. 3 :
       LET jobs == e[Dev(c)] + IF run_list[c + 1] = c THEN 1 ELSE 2
       IN  data.cur[c] = IF jobs < MUTEX_NUM THEN jobs ELSE MUTEX_NUM
Periods ==
  cur_tcb # NULL => \E T \in Nat : \E e \in [Devices -> Nat] : JobsAt(T, e)

ChaserInv ==
  /\ NoPanic
  /\ ChaserTypes
  /\ ChaserMain
  /\ ChaserPlaces
  /\ ChaserWaits
  /\ RunsFirst
  /\ InOrder
  /\ Values
  /\ ReportRight
  /\ Periods

\* Two devices count the same time: the one with the shorter period has had at
\* least as many events.
LEMMA ShorterPeriod ==
  ASSUME NEW f1 \in Nat, NEW f2 \in Nat, f1 <= f2,
         NEW e1 \in Nat, NEW e2 \in Nat, NEW due1 \in 1 .. f1, NEW due2 \in 1 .. f2,
         (e1 + 1) * f1 - due1 = (e2 + 1) * f2 - due2
  PROVE  e2 <= e1
<1>1. SUFFICES ASSUME e1 + 1 <= e2 PROVE FALSE
  OBVIOUS
<1>2. (e2 + 1) * f2 = e2 * f2 + f2
  OBVIOUS
<1>3. e2 * f2 <= (e2 + 1) * f2 - due2
  BY <1>2
<1>4. (e1 + 1) * f1 <= e2 * f1
  <2>1. PICK k \in Nat : e2 = e1 + 1 + k
    <3>1. e2 - (e1 + 1) \in Nat /\ e2 = e1 + 1 + (e2 - (e1 + 1))
      BY <1>1
    <3> QED BY <3>1
  <2>2. e2 * f1 = (e1 + 1) * f1 + k * f1
    BY <2>1
  <2>3. k * f1 \in Nat
    OBVIOUS
  <2> QED BY <2>2, <2>3
<1>5. e2 * f1 <= e2 * f2
  <2>1. PICK k \in Nat : f2 = f1 + k
    <3>1. f2 - f1 \in Nat /\ f2 = f1 + (f2 - f1)
      OBVIOUS
    <3> QED BY <3>1
  <2>2. e2 * f2 = e2 * f1 + e2 * k /\ e2 * k \in Nat
    BY <2>1
  <2> QED BY <2>2
<1>6. (e1 + 1) * f1 \in Int /\ e2 * f1 \in Int /\ e2 * f2 \in Int /\ (e2 + 1) * f2 \in Int
  OBVIOUS
<1>7. (e1 + 1) * f1 <= (e1 + 1) * f1 - due1
  BY <1>3, <1>4, <1>5, <1>6
<1> QED BY <1>6, <1>7

\* Numbers and names of mutex_chaser.
LEMMA ChaserNumbers ==
  /\ 0 .. 3 = {0, 1, 2, 3} /\ 0 .. 3 \subseteq Tcbs /\ 0 .. 3 \subseteq TcbPointers
  /\ NULL \notin 0 .. 3 /\ IDLE_PRIO \notin 0 .. 3 /\ NULL \notin Tcbs /\ NULL \in TcbPointers
  /\ Dev(0) = 3 /\ Dev(1) = 0 /\ Dev(2) = 1 /\ Dev(3) = 2
  /\ \A c \in 0 .. 3 : Dev(c) \in Devices
  /\ \A b, c \in 0 .. 3 : b < c => dev_freq[Dev(b)] <= dev_freq[Dev(c)]
  /\ \A d \in Devices : dev_freq[d] \in Nat /\ dev_freq[d] > MaxTickLag
  /\ MUTEX_NUM \in Nat /\ MUTEX_NUM >= 3 /\ Mutexes = 0 .. MUTEX_NUM - 1
<1>1. Dev(0) = 3 /\ Dev(1) = 0 /\ Dev(2) = 1 /\ Dev(3) = 2
  BY DEF Dev
<1>2. Devices = 0 .. 3 /\ 0 .. 3 = {0, 1, 2, 3}
  BY UserNumbers
<1>3. \A d \in Devices : dev_freq[d] \in Nat /\ dev_freq[d] > MaxTickLag
  BY PeriodsAssumption
<1>4. \A b, c \in 0 .. 3 : b < c => dev_freq[Dev(b)] <= dev_freq[Dev(c)]
  <2>1. /\ dev_freq[0] \in Nat /\ dev_freq[1] \in Nat /\ dev_freq[2] \in Nat
        /\ dev_freq[3] \in Nat
    BY <1>2, <1>3
  <2>2. \A b, c \in 0 .. 3 : b < c =>
          (b = 0 /\ c \in {1, 2, 3}) \/ (b = 1 /\ c \in {2, 3}) \/ (b = 2 /\ c = 3)
    BY <1>2
  <2> QED BY <1>1, <2>1, <2>2, OrderAssumption
<1> QED BY <1>1, <1>2, <1>3, <1>4, UserNumbers, Numbers DEF MUTEX_NUM, Mutexes

\* The tasks before one that begins a job are done with its mutex.
LEMMA EarlierAreDone ==
  ASSUME OneSetInv, ChaserInv, NEW c \in 0 .. 3, cur_tcb = c, pc[c] = "start",
         data.cur[c] < MUTEX_NUM, NEW b \in 0 .. 3, b < c
  PROVE  Done(b, data.cur[c])
<1> USE DEF ChaserInv
<1>1. run_list[b + 1] = NULL
  BY DEF RunsFirst
<1>2. cur_tcb # NULL /\ cur_tcb # IDLE_PRIO
  BY ChaserNumbers
<1>3. run_list[c + 1] = c /\ c # NULL /\ b # NULL
  BY <1>2, TaskSlots, ChaserNumbers
<1>4. PICK T \in Nat : \E e \in [Devices -> Nat] : JobsAt(T, e)
  BY <1>2 DEF Periods
<1>5. PICK e \in [Devices -> Nat] : JobsAt(T, e)
  BY <1>4
<1> DEFINE eb == e[Dev(b)]
           ec == e[Dev(c)]
<1>6. eb \in Nat /\ ec \in Nat /\ Dev(b) \in Devices /\ Dev(c) \in Devices
  BY <1>5, ChaserNumbers
<1>7. ec <= eb
  <2>1. /\ due[Dev(b)] \in 1 .. dev_freq[Dev(b)] /\ due[Dev(c)] \in 1 .. dev_freq[Dev(c)]
        /\ T = (eb + 1) * dev_freq[Dev(b)] - due[Dev(b)]
        /\ T = (ec + 1) * dev_freq[Dev(c)] - due[Dev(c)]
    BY <1>5, <1>6 DEF JobsAt
  <2>2. dev_freq[Dev(b)] \in Nat /\ dev_freq[Dev(c)] \in Nat
        /\ dev_freq[Dev(b)] <= dev_freq[Dev(c)]
    BY <1>6, ChaserNumbers
  <2> HIDE DEF eb, ec
  <2> QED BY <1>6, <2>1, <2>2, ShorterPeriod
<1>8. /\ data.cur[c] = IF ec + 1 < MUTEX_NUM THEN ec + 1 ELSE MUTEX_NUM
      /\ data.cur[b] = IF eb + 2 < MUTEX_NUM THEN eb + 2 ELSE MUTEX_NUM
  BY <1>1, <1>3, <1>5 DEF JobsAt
<1>9. data.cur[b] > data.cur[c]
  BY <1>6, <1>7, <1>8, ChaserNumbers
<1> QED BY <1>9 DEF Done

------------------------------------------------------------------------------
(* The steps of its tasks.                                                   *)

\* Task c goes from one place to another ...
Moves(c, from, to) ==
  /\ cur_tcb = c /\ pc[c] = from
  /\ \A t \in 0 .. 3 : pc'[t] = IF t = c THEN to ELSE pc[t]

\* ... and keeps the cpu, or leaves it until its device has its event.
Keeps ==
  /\ cur_tcb' = cur_tcb
  /\ \A t \in 0 .. 3 : run_list'[t + 1] = run_list[t + 1]
  /\ UNCHANGED <<event, due, bAvailable>>
Leaves(c) ==
  /\ cur_tcb' # NULL
  /\ \A t \in 0 .. 3 :
       /\ run_list'[t + 1] = IF t = c THEN NULL ELSE run_list[t + 1]
       /\ run_list'[t + 1] = t => cur_tcb' \in 0 .. t
       /\ run_list'[t + 1] = NULL => event'[t] = IF t = c THEN Dev(c) ELSE event[t]
  /\ UNCHANGED <<due, mutex_vars>>

Locks(c) ==
  /\ Moves(c, "start", "held") /\ data.cur[c] < MUTEX_NUM /\ Keeps /\ data' = data
  /\ pHolding_Tcb' = [pHolding_Tcb EXCEPT ![data.cur[c]] = c]
Loads(c) ==
  /\ Moves(c, "held", "loaded") /\ Keeps /\ UNCHANGED pHolding_Tcb
  /\ data' = [data EXCEPT !.reg[c] = data.val[data.cur[c]]]
Result(c) ==
  <<data.reg[0] + 3, data.reg[1] * 11, data.reg[2] - 7, data.reg[3] * 13>>[c + 1]
Stores(c) ==
  /\ Moves(c, "loaded", "stored") /\ Keeps /\ UNCHANGED pHolding_Tcb
  /\ data' = [data EXCEPT !.val[data.cur[c]] = Result(c)]
Unlocks(c) ==
  /\ Moves(c, "stored", "next") /\ Keeps /\ data' = data
  /\ pHolding_Tcb' = [pHolding_Tcb EXCEPT ![data.cur[c]] = NULL]
Waits(c) ==
  /\ Moves(c, "next", "start") /\ Leaves(c)
  /\ data' = [data EXCEPT !.cur[c] = @ + 1]
Rests(c) ==
  Moves(c, "start", "start") /\ data.cur[c] = MUTEX_NUM /\ Leaves(c) /\ data' = data
Reports ==
  /\ Moves(3, "start", "start") /\ data.cur[3] = MUTEX_NUM
  /\ Keeps /\ UNCHANGED pHolding_Tcb
  /\ data' = [data EXCEPT !.report = [m \in Mutexes |-> data.val[m] = result_val]]

\* The slots of the four tasks, once they are there.
LEMMA ChaserSlots ==
  ASSUME OneSetInv, Places, Is("mutex_chaser"), cur_tcb # NULL
  PROVE  /\ num_tasks = 4 /\ cur_tcb \in Tcbs
         /\ \A t \in 0 .. 3 : /\ t \in Tcbs /\ t < num_tasks /\ t # NULL
                              /\ run_list[t + 1] \in {t, NULL}
                              /\ cur_tcb = t => run_list[t + 1] = t
<1>1. num_tasks = 4
  BY DEF Places, Is, SetSize
<1> QED BY <1>1, TaskSlots, ChaserNumbers

LEMMA MutexCallKeeps ==
  ASSUME OneSetInv, Places, Is("mutex_chaser"), NEW c \in Tcbs, NEW m \in Mutexes,
         mutex_lock_free(c, m) \/ mutex_unlock_free(c, m)
  PROVE  Keeps
<1>1. cur_tcb # NULL
  BY Numbers DEF mutex_lock_free, mutex_unlock_free, Running
<1>2. UNCHANGED <<event, due, bAvailable>>
  BY DEF mutex_lock_free, mutex_unlock_free, dev_vars
<1> QED BY <1>1, <1>2, ChaserSlots, MutexCallKeepsSlots DEF Keeps

LEMMA WaitLeaves ==
  ASSUME CommonInv, CommonInv', Is("mutex_chaser"), NEW c \in 0 .. 3, event_wait(c, Dev(c))
  PROVE  Leaves(c)
<1> USE DEF CommonInv
<1>1. /\ c \in Tcbs /\ Dev(c) \in Devices /\ cur_tcb = c /\ c # NULL
      /\ dispatch(run_list', [event EXCEPT ![c] = Dev(c)])
      /\ UNCHANGED <<due, mutex_vars>>
  BY ChaserNumbers DEF event_wait, Running
<1>2. /\ cur_tcb' \in Tcbs /\ num_tasks' = num_tasks
      /\ \A t \in Tcbs : t < num_tasks =>
           /\ run_list'[t + 1] = IF t = c THEN NULL ELSE run_list[t + 1]
           /\ run_list'[t + 1] = t => cur_tcb' \in 0 .. t
  BY <1>1, WaitSwitches
<1>3. \A t \in 0 .. 3 : t \in Tcbs /\ t < num_tasks /\ t # NULL /\ t # IDLE_PRIO
  BY <1>1, ChaserSlots, ChaserNumbers
<1>4. ASSUME NEW t \in 0 .. 3, run_list'[t + 1] = NULL
      PROVE  event'[t] = IF t = c THEN Dev(c) ELSE event[t]
  <2>1. t # cur_tcb'
    BY <1>2, <1>3, <1>4, Numbers DEF OneSetInv, RunningIsReady
  <2>2. event \in [Tcbs -> Devices \cup {NULL}]
    BY DEF OneSetInv, TypeInv, TypeOK
  <2> QED BY <1>1, <1>3, <2>1, <2>2 DEF dispatch
<1>5. cur_tcb' # NULL
  BY <1>2, Numbers
<1> QED BY <1>1, <1>2, <1>3, <1>4, <1>5 DEF Leaves

\* No call of a task fails.
LEMMA ChaserTaskForms ==
  ASSUME CommonInv, CommonInv', Is("mutex_chaser"), ChaserInv,
         NEW c \in 0 .. 3, chaser_task(c, Dev(c), Result(c))
  PROVE  /\ NoPanic'
         /\ Locks(c) \/ Loads(c) \/ Stores(c) \/ Unlocks(c) \/ Waits(c) \/ Rests(c)
<1> USE DEF CommonInv, ChaserInv
<1> DEFINE m == data.cur[c]
<1>1. c \in Tcbs /\ c \in TcbPointers /\ c # NULL /\ cur_tcb = c
  BY ChaserNumbers DEF chaser_task, At
<1>2. ASSUME NEW from, NEW to, At(c, from), Goto(c, to), to # "spin"
      PROVE  Moves(c, from, to) /\ NoPanic'
  <2>1. \A t \in TcbPointers : pc'[t] = IF t = c THEN to ELSE pc[t]
    BY <1>1, <1>2, GotoPlace
  <2>2. NoPanic'
    BY <1>1, <1>2, GotoNoPanic
  <2> QED BY <1>2, <2>1, <2>2, ChaserNumbers DEF Moves, At
<1>3. /\ m < MUTEX_NUM => m \in Mutexes
      /\ pc[c] \in {"held", "loaded", "stored"} => m \in Mutexes /\ pHolding_Tcb[m] = c
      /\ pc[c] \notin {"held", "loaded", "stored"} => \A k \in Mutexes : pHolding_Tcb[k] # c
      /\ \A k \in Mutexes : bAvailable[k] = 0
  <2>1. m < MUTEX_NUM => m \in Mutexes
    <3>1. m \in 1 .. MUTEX_NUM
      BY DEF ChaserTypes
    <3> QED BY <3>1, ChaserNumbers
  <2>2. \A k \in Mutexes : bAvailable[k] = 0
    BY <1>1 DEF ChaserMain
  <2> QED BY <2>1, <2>2 DEF ChaserPlaces
<1>4. CASE At(c, "start") /\ m < MUTEX_NUM /\ mutex_lock(c, m, "held", "spin") /\ UNCHANGED data
  <2>1. lock_error(c, m) = SUCCESS
    BY <1>3, <1>4 DEF lock_error, At
  <2>2. m \in Mutexes /\ mutex_lock_free(c, m) /\ Goto(c, "held")
    BY <1>1, <1>4, <2>1, LockResult DEF Succeed
  <2>3. Keeps /\ pHolding_Tcb' = [pHolding_Tcb EXCEPT ![m] = c]
    BY <1>1, <2>2, MutexCallKeeps DEF mutex_lock_free
  <2> QED BY <1>2, <1>4, <2>2, <2>3 DEF Locks
<1>5. CASE At(c, "held") /\ Compute(c, "loaded") /\ data' = [data EXCEPT !.reg[c] = data.val[m]]
  BY <1>2, <1>5 DEF Compute, kernel_vars, vars, tcb_vars, dev_vars, mutex_vars, Keeps, Loads
<1>6. CASE At(c, "loaded") /\ Compute(c, "stored") /\ data' = [data EXCEPT !.val[m] = Result(c)]
  BY <1>2, <1>6 DEF Compute, kernel_vars, vars, tcb_vars, dev_vars, mutex_vars, Keeps, Stores
<1>7. CASE At(c, "stored") /\ mutex_unlock(c, m, "next", "spin") /\ UNCHANGED data
  <2>1. unlock_error(c, m) = SUCCESS
    BY <1>3, <1>7 DEF unlock_error, At
  <2>2. m \in Mutexes /\ mutex_unlock_free(c, m) /\ Goto(c, "next")
    BY <1>1, <1>7, <2>1, UnlockResult DEF Succeed
  <2>3. Keeps /\ pHolding_Tcb' = [pHolding_Tcb EXCEPT ![m] = NULL]
    BY <1>1, <2>2, MutexCallKeeps DEF mutex_unlock_free
  <2> QED BY <1>2, <1>7, <2>2, <2>3 DEF Unlocks
<1>8. ASSUME NEW from \in {"next", "start"}, At(c, from), wait(c, Dev(c), "start", "spin")
      PROVE  Moves(c, from, "start") /\ NoPanic' /\ Leaves(c)
  <2>1. \A k \in Mutexes : pHolding_Tcb[k] # c
    BY <1>3, <1>8 DEF At
  <2>2. event_wait(c, Dev(c)) /\ Goto(c, "start")
    BY <1>1, <1>8, <2>1, WaitResult, ChaserNumbers DEF Succeed
  <2> QED BY <1>2, <1>8, <2>2, WaitLeaves
<1>9. CASE /\ At(c, "next") /\ wait(c, Dev(c), "start", "spin")
           /\ data' = [data EXCEPT !.cur[c] = @ + 1]
  BY <1>8, <1>9 DEF Waits
<1>10. CASE /\ At(c, "start") /\ m = MUTEX_NUM /\ wait(c, Dev(c), "start", "spin")
            /\ UNCHANGED data
  BY <1>8, <1>10 DEF Rests
<1> QED BY <1>4, <1>5, <1>6, <1>7, <1>9, <1>10 DEF chaser_task

LEMMA ChaserForms ==
  ASSUME CommonInv, CommonInv', Is("mutex_chaser"), ChaserInv,
         chaser_fun1 \/ chaser_fun2 \/ chaser_fun3 \/ chaser_fun4
  PROVE  /\ NoPanic'
         /\ \/ \E c \in 0 .. 3 :
                 Locks(c) \/ Loads(c) \/ Stores(c) \/ Unlocks(c) \/ Waits(c) \/ Rests(c)
            \/ Reports
<1>1. /\ chaser_fun1 => chaser_task(0, Dev(0), Result(0))
      /\ chaser_fun2 => chaser_task(1, Dev(1), Result(1))
      /\ chaser_fun3 => chaser_task(2, Dev(2), Result(2))
  BY ChaserNumbers DEF chaser_fun1, chaser_fun2, chaser_fun3, Result
<1>2. chaser_fun4 =>
        \/ chaser_task(3, Dev(3), Result(3))
        \/ /\ At(3, "start") /\ data.cur[3] = MUTEX_NUM /\ Compute(3, "start")
           /\ data' = [data EXCEPT !.report = [m \in Mutexes |-> data.val[m] = result_val]]
  BY ChaserNumbers DEF chaser_fun4, Result
<1>3. CASE /\ At(3, "start") /\ data.cur[3] = MUTEX_NUM /\ Compute(3, "start")
           /\ data' = [data EXCEPT !.report = [m \in Mutexes |-> data.val[m] = result_val]]
  <2>1. 3 \in TcbPointers /\ 3 \in 0 .. 3
    BY ChaserNumbers
  <2>2. \A t \in TcbPointers : pc'[t] = IF t = 3 THEN "start" ELSE pc[t]
    BY <1>3, <2>1, GotoPlace DEF Compute, CommonInv
  <2>3. NoPanic'
    BY <1>3, <2>1, GotoNoPanic DEF Compute, CommonInv, ChaserInv
  <2>4. Moves(3, "start", "start")
    BY <1>3, <2>2, ChaserNumbers DEF Moves, At
  <2>5. Keeps /\ UNCHANGED pHolding_Tcb
    BY <1>3 DEF Compute, kernel_vars, vars, tcb_vars, dev_vars, mutex_vars, Keeps
  <2> QED BY <1>3, <2>3, <2>4, <2>5 DEF Reports
<1>4. ASSUME NEW c \in 0 .. 3, chaser_task(c, Dev(c), Result(c))
      PROVE  /\ NoPanic'
             /\ Locks(c) \/ Loads(c) \/ Stores(c) \/ Unlocks(c) \/ Waits(c) \/ Rests(c)
  BY <1>4, ChaserTaskForms
<1> QED BY <1>1, <1>2, <1>3, <1>4, ChaserNumbers

\* How each step changes the variables of the program.
LEMMA DataMoves ==
  ASSUME ChaserTypes, NEW c \in 0 .. 3
  PROVE  /\ Loads(c) => /\ data'.i = data.i /\ data'.val = data.val /\ data'.cur = data.cur
                        /\ data'.reg = [data.reg EXCEPT ![c] = data.val[data.cur[c]]]
                        /\ data'.report = data.report
         /\ Stores(c) => /\ data'.i = data.i /\ data'.cur = data.cur /\ data'.reg = data.reg
                         /\ data'.val = [data.val EXCEPT ![data.cur[c]] = Result(c)]
                         /\ data'.report = data.report
         /\ Waits(c) => /\ data'.i = data.i /\ data'.val = data.val /\ data'.reg = data.reg
                        /\ data'.cur = [data.cur EXCEPT ![c] = data.cur[c] + 1]
                        /\ data'.report = data.report
         /\ Reports => /\ data'.i = data.i /\ data'.val = data.val /\ data'.reg = data.reg
                       /\ data'.cur = data.cur
                       /\ data'.report = [m \in Mutexes |-> data.val[m] = result_val]
         /\ Loads(c) \/ Stores(c) \/ Waits(c) \/ Reports =>
              data' = [i |-> data'.i, val |-> data'.val, cur |-> data'.cur,
                       reg |-> data'.reg, report |-> data'.report]
BY DEF ChaserTypes, Loads, Stores, Waits, Reports

\* What the steps without a dispatch keep.
LEMMA KeepsTime ==
  ASSUME Keeps, cur_tcb # NULL, data'.cur = data.cur, ChaserMain, ChaserWaits, Periods
  PROVE  ChaserMain' /\ ChaserWaits' /\ Periods'
<1>1. ChaserMain' /\ ChaserWaits'
  BY DEF Keeps, ChaserMain, ChaserWaits
<1>2. ASSUME NEW T \in Nat, NEW e \in [Devices -> Nat], JobsAt(T, e) PROVE JobsAt(T, e)'
  BY <1>2 DEF JobsAt, Keeps
<1>3. Periods'
  BY <1>2 DEF Periods
<1> QED BY <1>1, <1>3

\* Nobody is done with more or less unless a task stores or counts on.
LEMMA SameDone ==
  ASSUME NEW c \in 0 .. 3, NEW from, NEW to, Moves(c, from, to), data'.cur = data.cur,
         from \in {"stored", "next"} <=> to \in {"stored", "next"}
  PROVE  \A t \in 0 .. 3 : \A m \in Mutexes : Done(t, m)' <=> Done(t, m)
BY DEF Moves, Done

LEMMA SameValues ==
  ASSUME \A t \in 0 .. 3 : \A m \in Mutexes : Done(t, m)' <=> Done(t, m),
         data'.val = data.val, cur_tcb # NULL, Values
  PROVE  Values'
BY ChaserNumbers DEF Values

\* The running task is the only one that owns a mutex.
LEMMA OwnersOfChaser ==
  ASSUME OneSetInv, NEW m \in Mutexes, NEW t \in 0 .. 3, t # cur_tcb
  PROVE  pHolding_Tcb[m] # t
BY ChaserNumbers DEF OneSetInv, MutexesOfRunning

\* Between the loops a task has a mutex to go to.
LEMMA JobMutex ==
  ASSUME ChaserInv, NEW t \in 0 .. 3, pc[t] # "start"
  PROVE  data.cur[t] \in Mutexes /\ data.cur[t] < MUTEX_NUM
<1>1. data.cur[t] \in 1 .. MUTEX_NUM /\ data.cur[t] < MUTEX_NUM
  BY DEF ChaserInv, ChaserTypes, ChaserPlaces
<1> QED BY <1>1, ChaserNumbers

LEMMA LocksStep ==
  ASSUME OneSetInv, ChaserInv, NoPanic', NEW c \in 0 .. 3, Locks(c)
  PROVE  ChaserInv'
<1> USE DEF ChaserInv
<1>1. /\ cur_tcb = c /\ pc[c] = "start" /\ data' = data /\ c # NULL
      /\ pHolding_Tcb' = [pHolding_Tcb EXCEPT ![data.cur[c]] = c]
      /\ \A t \in 0 .. 3 : pc'[t] = IF t = c THEN "held" ELSE pc[t]
  BY ChaserNumbers DEF Locks, Moves
<1>2. data.cur[c] \in Mutexes /\ data.cur[c] < MUTEX_NUM
  BY ChaserNumbers DEF Locks, ChaserTypes
<1>3. ChaserMain' /\ ChaserWaits' /\ Periods'
  BY <1>1, KeepsTime DEF Locks
<1>4. \A t \in 0 .. 3 : \A m \in Mutexes : Done(t, m)' <=> Done(t, m)
  BY <1>1, SameDone DEF Locks
<1>5. Values'
  BY <1>1, <1>4, SameValues
<1>6. RunsFirst'
  BY <1>1 DEF RunsFirst, Locks, Keeps
<1>7. ChaserPlaces'
  <2>1. pHolding_Tcb \in [Mutexes -> TcbPointers]
    BY DEF OneSetInv, TypeInv, TypeOK
  <2>2. \A m \in Mutexes : \A t \in 0 .. 3 : t # c => pHolding_Tcb[m] # t
    BY <1>1, OwnersOfChaser
  <2> QED BY <1>1, <1>2, <2>1, <2>2 DEF ChaserPlaces
<1>8. InOrder'
  <2>1. ASSUME NEW b \in 0 .. 3, NEW d \in 0 .. 3, b < d, pc'[d] \in {"held", "loaded"}
        PROVE  Done(b, data.cur[d])
    <3>1. CASE d = c
      BY <1>1, <1>2, <2>1, <3>1, EarlierAreDone
    <3>2. CASE d # c
      BY <1>1, <2>1, <3>2 DEF InOrder
    <3> QED BY <3>1, <3>2
  <2>2. ASSUME NEW d \in 0 .. 3, pc'[d] \in {"held", "loaded"} PROVE data.cur[d] \in Mutexes
    <3>1. d = c \/ pc[d] # "start"
      BY <1>1, <2>2
    <3> QED BY <1>2, <3>1, JobMutex
  <2> QED BY <1>1, <1>4, <2>1, <2>2 DEF InOrder
<1> QED BY <1>1, <1>3, <1>5, <1>6, <1>7, <1>8 DEF ChaserTypes, ReportRight

LEMMA UnlocksStep ==
  ASSUME OneSetInv, ChaserInv, NoPanic', NEW c \in 0 .. 3, Unlocks(c)
  PROVE  ChaserInv'
<1> USE DEF ChaserInv
<1>1. /\ cur_tcb = c /\ pc[c] = "stored" /\ data' = data /\ c # NULL
      /\ pHolding_Tcb' = [pHolding_Tcb EXCEPT ![data.cur[c]] = NULL]
      /\ \A t \in 0 .. 3 : pc'[t] = IF t = c THEN "next" ELSE pc[t]
  BY ChaserNumbers DEF Unlocks, Moves
<1>2. data.cur[c] \in Mutexes /\ data.cur[c] < MUTEX_NUM
  BY <1>1, JobMutex
<1>3. ChaserMain' /\ ChaserWaits' /\ Periods'
  BY <1>1, KeepsTime DEF Unlocks
<1>4. \A t \in 0 .. 3 : \A m \in Mutexes : Done(t, m)' <=> Done(t, m)
  BY <1>1, SameDone DEF Unlocks
<1>5. Values'
  BY <1>1, <1>4, SameValues
<1>6. RunsFirst'
  BY <1>1 DEF RunsFirst, Unlocks, Keeps
<1>7. ChaserPlaces'
  <2>1. pHolding_Tcb \in [Mutexes -> TcbPointers]
    BY DEF OneSetInv, TypeInv, TypeOK
  <2>2. \A m \in Mutexes : \A t \in 0 .. 3 : t # c => pHolding_Tcb[m] # t
    BY <1>1, OwnersOfChaser
  <2>3. \A t \in 0 .. 3 : t # NULL
    BY ChaserNumbers
  <2> QED BY <1>1, <1>2, <2>1, <2>2, <2>3 DEF ChaserPlaces
<1>8. InOrder'
  <2>1. ASSUME NEW d \in 0 .. 3, pc'[d] \in {"held", "loaded"}
        PROVE  pc[d] \in {"held", "loaded"} /\ data.cur[d] \in Mutexes
    <3>1. pc[d] \in {"held", "loaded"}
      BY <1>1, <2>1
    <3> QED BY <3>1, JobMutex
  <2> QED BY <1>1, <1>4, <2>1 DEF InOrder
<1> QED BY <1>1, <1>3, <1>5, <1>6, <1>7, <1>8 DEF ChaserTypes, ReportRight

LEMMA LoadsStep ==
  ASSUME OneSetInv, ChaserInv, NoPanic', NEW c \in 0 .. 3, Loads(c)
  PROVE  ChaserInv'
<1> USE DEF ChaserInv
<1>1. /\ cur_tcb = c /\ pc[c] = "held" /\ c # NULL /\ pHolding_Tcb' = pHolding_Tcb
      /\ \A t \in 0 .. 3 : pc'[t] = IF t = c THEN "loaded" ELSE pc[t]
  BY ChaserNumbers DEF Loads, Moves
<1>2. /\ data'.i = data.i /\ data'.val = data.val /\ data'.cur = data.cur
      /\ data'.reg = [data.reg EXCEPT ![c] = data.val[data.cur[c]]]
      /\ data'.report = data.report
      /\ data' = [i |-> data'.i, val |-> data'.val, cur |-> data'.cur,
                  reg |-> data'.reg, report |-> data'.report]
  BY DataMoves
<1>3. data.cur[c] \in Mutexes /\ data.cur[c] < MUTEX_NUM
  BY <1>1, JobMutex
<1>4. ChaserMain' /\ ChaserWaits' /\ Periods'
  BY <1>1, <1>2, KeepsTime DEF Loads
<1>5. \A t \in 0 .. 3 : \A m \in Mutexes : Done(t, m)' <=> Done(t, m)
  BY <1>2, SameDone DEF Loads
<1>6. Values'
  BY <1>1, <1>2, <1>5, SameValues
<1>7. RunsFirst'
  BY <1>1 DEF RunsFirst, Loads, Keeps
<1>8. ChaserPlaces'
  BY <1>1, <1>2, <1>3 DEF ChaserPlaces, ChaserTypes
<1>9. InOrder'
  <2>1. ASSUME NEW d \in 0 .. 3, pc'[d] \in {"held", "loaded"}
        PROVE  pc[d] \in {"held", "loaded"} /\ data.cur[d] \in Mutexes
    <3>1. pc[d] \in {"held", "loaded"}
      BY <1>1, <2>1
    <3> QED BY <3>1, JobMutex
  <2> QED BY <1>2, <1>5, <2>1 DEF InOrder
<1>10. ChaserTypes'
  BY <1>2, <1>3 DEF ChaserTypes
<1> QED BY <1>2, <1>4, <1>6, <1>7, <1>8, <1>9, <1>10 DEF ReportRight

LEMMA ReportsStep ==
  ASSUME OneSetInv, ChaserInv, NoPanic', Reports
  PROVE  ChaserInv'
<1> USE DEF ChaserInv
<1>1. /\ cur_tcb = 3 /\ pc[3] = "start" /\ 3 # NULL /\ pHolding_Tcb' = pHolding_Tcb
      /\ \A t \in 0 .. 3 : pc'[t] = pc[t]
      /\ data.cur[3] = MUTEX_NUM
  BY ChaserNumbers DEF Reports, Moves
<1>2. /\ data'.i = data.i /\ data'.val = data.val /\ data'.cur = data.cur
      /\ data'.reg = data.reg
      /\ data'.report = [m \in Mutexes |-> data.val[m] = result_val]
      /\ data' = [i |-> data'.i, val |-> data'.val, cur |-> data'.cur,
                  reg |-> data'.reg, report |-> data'.report]
  <2>1. 3 \in 0 .. 3
    OBVIOUS
  <2> QED BY <2>1, DataMoves
<1>3. ChaserMain' /\ ChaserWaits' /\ Periods'
  BY <1>1, <1>2, KeepsTime DEF Reports
<1>4. \A t \in 0 .. 3 : \A m \in Mutexes : Done(t, m)' <=> Done(t, m)
  BY <1>1, <1>2 DEF Done
<1>5. Values'
  BY <1>1, <1>2, <1>4, SameValues
<1>6. RunsFirst'
  <2>1. cur_tcb' = 3 /\ \A t \in 0 .. 3 : run_list'[t + 1] = run_list[t + 1]
    BY <1>1 DEF Reports, Keeps
  <2> QED BY <1>1, <2>1 DEF RunsFirst
<1>7. ChaserPlaces'
  BY <1>1, <1>2 DEF ChaserPlaces
<1>8. InOrder'
  <2>1. ASSUME NEW d \in 0 .. 3, pc'[d] \in {"held", "loaded"}
        PROVE  pc[d] \in {"held", "loaded"} /\ data.cur[d] \in Mutexes
    <3>1. pc[d] \in {"held", "loaded"}
      BY <1>1, <2>1
    <3> QED BY <3>1, JobMutex
  <2> QED BY <1>2, <1>4, <2>1 DEF InOrder
<1>9. ChaserTypes'
  BY <1>2 DEF ChaserTypes
<1>10. ReportRight'
  <2>1. result_val = 624
    BY DEF result_val, init_val
  <2>2. ASSUME NEW m \in Mutexes PROVE data.val[m] = 624 <=> m # 0
    <3>1. CASE m = 0
      BY <1>1, <3>1 DEF Values
    <3>2. CASE m # 0
      <4>1. Done(3, m)
        BY <1>1, ChaserNumbers DEF Done
      <4> QED BY <1>1, <3>2, <4>1 DEF Values
    <3> QED BY <3>1, <3>2
  <2>3. ASSUME NEW m \in Mutexes PROVE data'.report[m] <=> m # 0
    <3>1. data'.report = [k \in Mutexes |-> data.val[k] = result_val]
      BY <1>2
    <3>2. data'.report[m] <=> data.val[m] = result_val
      BY <3>1, Zenon
    <3> QED BY <2>1, <2>2, <3>2
  <2> QED BY <2>3 DEF ReportRight
<1> QED BY <1>3, <1>5, <1>6, <1>7, <1>8, <1>9, <1>10

LEMMA StoresStep ==
  ASSUME OneSetInv, ChaserInv, NoPanic', NEW c \in 0 .. 3, Stores(c)
  PROVE  ChaserInv'
<1> USE DEF ChaserInv
<1> DEFINE n == data.cur[c]
<1>1. /\ cur_tcb = c /\ pc[c] = "loaded" /\ c # NULL /\ pHolding_Tcb' = pHolding_Tcb
      /\ \A t \in 0 .. 3 : pc'[t] = IF t = c THEN "stored" ELSE pc[t]
  BY ChaserNumbers DEF Stores, Moves
<1>2. /\ data'.i = data.i /\ data'.cur = data.cur /\ data'.reg = data.reg
      /\ data'.val = [data.val EXCEPT ![n] = Result(c)]
      /\ data'.report = data.report
      /\ data' = [i |-> data'.i, val |-> data'.val, cur |-> data'.cur,
                  reg |-> data'.reg, report |-> data'.report]
  BY DataMoves
<1>3. n \in Mutexes \ {0} /\ n < MUTEX_NUM
  <2>1. n \in 1 .. MUTEX_NUM
    BY DEF ChaserTypes
  <2> QED BY <1>1, <2>1, JobMutex
<1>4. ChaserMain' /\ ChaserWaits' /\ Periods'
  BY <1>1, <1>2, KeepsTime DEF Stores
<1>5. \A t \in 0 .. 3 : \A m \in Mutexes :
        Done(t, m)' <=> Done(t, m) \/ (t = c /\ m = n)
  BY <1>1, <1>2 DEF Done
<1>6. ~Done(c, n)
  BY <1>1, <1>3, ChaserNumbers DEF Done
<1>7. \A b \in 0 .. 3 : b < c => Done(b, n)
  BY <1>1 DEF InOrder
<1>8. \A d \in 0 .. 3 : c < d => ~Done(d, n)
  BY <1>3, <1>6 DEF InOrder
<1>9. Values'
  <2>1. cur_tcb # NULL /\ data.val \in [Mutexes -> Int]
    BY <1>1 DEF ChaserTypes
  <2>2. data'.val[0] = 2
    BY <1>2, <1>3, <2>1, ChaserNumbers DEF Values
  <2>3. data.reg[c] = data.val[n]
    BY <1>1 DEF ChaserPlaces
  <2>4. \/ c = 0 /\ data'.val[n] = 5
        \/ c = 1 /\ data'.val[n] = 55
        \/ c = 2 /\ data'.val[n] = 48
        \/ c = 3 /\ data'.val[n] = 624
    <3>1. data'.val[n] = Result(c)
      BY <1>2, <1>3, <2>1
    <3>2. CASE c = 0
      BY <1>3, <1>6, <2>1, <2>3, <3>1, <3>2 DEF Values, Result
    <3>3. CASE c = 1
      BY <1>3, <1>6, <1>7, <2>1, <2>3, <3>1, <3>3 DEF Values, Result
    <3>4. CASE c = 2
      BY <1>3, <1>6, <1>7, <2>1, <2>3, <3>1, <3>4 DEF Values, Result
    <3>5. CASE c = 3
      BY <1>3, <1>6, <1>7, <2>1, <2>3, <3>1, <3>5 DEF Values, Result
    <3> QED BY <3>2, <3>3, <3>4, <3>5, ChaserNumbers
  <2>5. ASSUME NEW m \in Mutexes \ {0}
        PROVE  /\ ~Done(0, m)' => data'.val[m] = 2
               /\ Done(0, m)' /\ ~Done(1, m)' => data'.val[m] = 5
               /\ Done(1, m)' /\ ~Done(2, m)' => data'.val[m] = 55
               /\ Done(2, m)' /\ ~Done(3, m)' => data'.val[m] = 48
               /\ Done(3, m)' => data'.val[m] = 624
    <3>1. CASE m = n
      BY <1>5, <1>6, <1>7, <1>8, <2>4, <2>5, <3>1
    <3>2. CASE m # n
      <4>1. data'.val[m] = data.val[m]
        BY <1>2, <2>1, <3>2
      <4>2. \A t \in 0 .. 3 : Done(t, m)' <=> Done(t, m)
        BY <1>5, <2>5, <3>2
      <4>3. {0, 1, 2, 3} \subseteq 0 .. 3
        OBVIOUS
      <4> QED BY <2>1, <2>5, <4>1, <4>2, <4>3 DEF Values
    <3> QED BY <3>1, <3>2
  <2> QED BY <2>2, <2>5 DEF Values
<1>10. RunsFirst'
  BY <1>1 DEF RunsFirst, Stores, Keeps
<1>11. ChaserPlaces'
  <2>1. ASSUME NEW t \in 0 .. 3, t # c PROVE pc[t] # "loaded"
    <3>1. ASSUME pc[t] = "loaded" PROVE FALSE
      <4>1. data.cur[t] \in Mutexes
        BY <3>1, JobMutex
      <4>2. pHolding_Tcb[data.cur[t]] = t
        BY <3>1, <4>1 DEF ChaserPlaces
      <4> QED BY <1>1, <2>1, <4>1, <4>2, OwnersOfChaser
    <3> QED BY <3>1
  <2> QED BY <1>1, <1>2, <2>1 DEF ChaserPlaces
<1>12. InOrder'
  <2>1. ASSUME NEW d \in 0 .. 3, pc'[d] \in {"held", "loaded"}
        PROVE  pc[d] \in {"held", "loaded"} /\ data.cur[d] \in Mutexes
    <3>1. pc[d] \in {"held", "loaded"}
      BY <1>1, <2>1
    <3> QED BY <3>1, JobMutex
  <2>2. ASSUME NEW b \in 0 .. 3, NEW d \in 0 .. 3, b < d,
               NEW m \in Mutexes \ {0}, Done(d, m)'
        PROVE  Done(b, m)'
    BY <1>5, <1>7, <2>2 DEF InOrder
  <2>3. ASSUME NEW b \in 0 .. 3, NEW d \in 0 .. 3, b < d, pc'[d] \in {"held", "loaded"}
        PROVE  Done(b, data.cur[d])'
    BY <1>2, <1>5, <2>1, <2>3 DEF InOrder
  <2> QED BY <1>2, <2>2, <2>3 DEF InOrder
<1>13. ChaserTypes'
  <2>1. Result(c) \in Int
    <3>1. data.reg[c] \in Int
      BY DEF ChaserTypes
    <3> QED BY <3>1, ChaserNumbers DEF Result
  <2> QED BY <1>2, <1>3, <2>1 DEF ChaserTypes
<1> QED BY <1>2, <1>4, <1>9, <1>10, <1>11, <1>12, <1>13 DEF ReportRight

\* What the steps with a dispatch keep.
LEMMA LeavesOrder ==
  ASSUME OneSetInv, Places, Is("mutex_chaser"), ChaserMain, ChaserWaits,
         NEW c \in 0 .. 3, cur_tcb = c, Leaves(c)
  PROVE  ChaserMain' /\ ChaserWaits' /\ RunsFirst' /\ cur_tcb' # NULL /\ run_list[c + 1] = c
<1>1. cur_tcb # NULL
  BY ChaserNumbers
<1>2. ChaserMain'
  BY <1>1 DEF Leaves, ChaserMain, mutex_vars
<1>3. ChaserWaits'
  BY <1>1 DEF Leaves, ChaserWaits
<1>4. RunsFirst'
  <2>1. \A t \in 0 .. 3 : run_list'[t + 1] \in {t, NULL}
    BY <1>1, ChaserSlots DEF Leaves
  <2>2. ASSUME cur_tcb' \in 0 .. 3, NEW t \in 0 .. 3, t < cur_tcb'
        PROVE  run_list'[t + 1] = NULL
    BY <2>1, <2>2 DEF Leaves
  <2> QED BY <2>2 DEF RunsFirst
<1> QED BY <1>1, <1>2, <1>3, <1>4, ChaserSlots DEF Leaves

LEMMA WaitsStep ==
  ASSUME OneSetInv, Places, Is("mutex_chaser"), ChaserInv, NoPanic', NEW c \in 0 .. 3,
         Waits(c)
  PROVE  ChaserInv'
<1> USE DEF ChaserInv
<1>1. /\ cur_tcb = c /\ pc[c] = "next" /\ c # NULL /\ pHolding_Tcb' = pHolding_Tcb
      /\ due' = due
      /\ \A t \in 0 .. 3 : pc'[t] = IF t = c THEN "start" ELSE pc[t]
  BY ChaserNumbers DEF Waits, Moves, Leaves, mutex_vars
<1>2. /\ data'.i = data.i /\ data'.val = data.val /\ data'.reg = data.reg
      /\ data'.cur = [data.cur EXCEPT ![c] = data.cur[c] + 1]
      /\ data'.report = data.report
      /\ data' = [i |-> data'.i, val |-> data'.val, cur |-> data'.cur,
                  reg |-> data'.reg, report |-> data'.report]
  BY DataMoves
<1>3. data.cur[c] \in Mutexes /\ data.cur[c] < MUTEX_NUM
  BY <1>1, JobMutex
<1>4. /\ ChaserMain' /\ ChaserWaits' /\ RunsFirst' /\ cur_tcb' # NULL
      /\ run_list[c + 1] = c
  BY <1>1, LeavesOrder DEF Waits
<1>5. data.cur \in [0 .. 3 -> 1 .. MUTEX_NUM]
  BY DEF ChaserTypes
<1>6. \A t \in 0 .. 3 : data'.cur[t] = IF t = c THEN data.cur[c] + 1 ELSE data.cur[t]
  <2>1. data'.cur = [data.cur EXCEPT ![c] = data.cur[c] + 1]
    BY <1>2
  <2> HIDE DEF ChaserInv
  <2> QED BY <1>5, <2>1
<1>7. ASSUME NEW t \in 0 .. 3, NEW m \in Mutexes PROVE Done(t, m)' <=> Done(t, m)
  <2>1. CASE t = c
    <3>1. pc[t] = "next" /\ pc'[t] = "start" /\ data'.cur[t] = data.cur[t] + 1
      BY <1>1, <1>6, <2>1
    <3>2. data.cur[t] \in Nat /\ m \in Nat
      BY <1>3, <2>1, ChaserNumbers
    <3>3. data.cur[t] + 1 > m <=> data.cur[t] > m \/ data.cur[t] = m
      BY <3>2
    <3> QED BY <3>1, <3>3 DEF Done
  <2>2. CASE t # c
    BY <1>1, <1>6, <2>2 DEF Done
  <2> QED BY <2>1, <2>2
<1>8. Values'
  BY <1>1, <1>2, <1>7, SameValues
<1>9. ChaserPlaces'
  BY <1>1, <1>2, <1>6 DEF ChaserPlaces
<1>10. InOrder'
  <2>1. ASSUME NEW d \in 0 .. 3, pc'[d] \in {"held", "loaded"}
        PROVE  /\ pc[d] \in {"held", "loaded"} /\ data.cur[d] \in Mutexes
               /\ data'.cur[d] = data.cur[d]
    <3>1. pc[d] \in {"held", "loaded"} /\ d # c
      BY <1>1, <2>1
    <3> QED BY <1>6, <3>1, JobMutex
  <2> QED BY <1>7, <2>1 DEF InOrder
<1>11. ChaserTypes'
  <2>1. data.cur[c] + 1 \in 1 .. MUTEX_NUM
    BY <1>3, ChaserNumbers
  <2> QED BY <1>2, <1>5, <2>1 DEF ChaserTypes
<1>12. Periods'
  <2>1. ASSUME NEW T \in Nat, NEW e \in [Devices -> Nat], JobsAt(T, e) PROVE JobsAt(T, e)'
    <3>1. ASSUME NEW t \in 0 .. 3
          PROVE  LET jobs == e[Dev(t)] + IF run_list'[t + 1] = t THEN 1 ELSE 2
                 IN  data'.cur[t] = IF jobs < MUTEX_NUM THEN jobs ELSE MUTEX_NUM
      <4>1. e[Dev(t)] \in Nat /\ t # NULL
        BY ChaserNumbers
      <4>2. /\ run_list'[t + 1] = IF t = c THEN NULL ELSE run_list[t + 1]
            /\ LET jobs == e[Dev(t)] + IF run_list[t + 1] = t THEN 1 ELSE 2
               IN  data.cur[t] = IF jobs < MUTEX_NUM THEN jobs ELSE MUTEX_NUM
        BY <2>1 DEF JobsAt, Waits, Leaves
      <4>3. CASE t = c
        <5>1. /\ run_list[t + 1] = t /\ run_list'[t + 1] # t
              /\ data'.cur[t] = data.cur[t] + 1
          BY <1>4, <1>6, <4>1, <4>2, <4>3
        <5>2. data.cur[t] = e[Dev(t)] + 1 /\ e[Dev(t)] + 1 < MUTEX_NUM
          <6>1. data.cur[t] = IF e[Dev(t)] + 1 < MUTEX_NUM THEN e[Dev(t)] + 1 ELSE MUTEX_NUM
            BY <4>2, <5>1
          <6> QED BY <1>3, <4>3, <6>1, ChaserNumbers
        <5>3. /\ data'.cur[t] = e[Dev(t)] + 2
              /\ e[Dev(t)] + 2 < MUTEX_NUM \/ e[Dev(t)] + 2 = MUTEX_NUM
          <6>1. MUTEX_NUM \in Nat
            BY ChaserNumbers
          <6>2. data'.cur[t] = (e[Dev(t)] + 1) + 1
            BY <5>1, <5>2
          <6> HIDE DEF ChaserInv
          <6> QED BY <4>1, <5>2, <6>1, <6>2
        <5> QED BY <5>1, <5>3
      <4>4. CASE t # c
        BY <1>6, <4>2, <4>4
      <4> QED BY <4>3, <4>4
    <3> QED BY <1>1, <2>1, <3>1 DEF JobsAt
  <2> QED BY <1>1, <2>1 DEF Periods
<1> QED BY <1>2, <1>4, <1>8, <1>9, <1>10, <1>11, <1>12 DEF ReportRight

LEMMA RestsStep ==
  ASSUME OneSetInv, Places, Is("mutex_chaser"), ChaserInv, NoPanic', NEW c \in 0 .. 3,
         Rests(c)
  PROVE  ChaserInv'
<1> USE DEF ChaserInv
<1>1. /\ cur_tcb = c /\ pc[c] = "start" /\ c # NULL /\ pHolding_Tcb' = pHolding_Tcb
      /\ due' = due /\ data' = data /\ data.cur[c] = MUTEX_NUM
      /\ \A t \in 0 .. 3 : pc'[t] = pc[t]
  BY ChaserNumbers DEF Rests, Moves, Leaves, mutex_vars
<1>2. /\ ChaserMain' /\ ChaserWaits' /\ RunsFirst' /\ cur_tcb' # NULL
      /\ run_list[c + 1] = c
  BY <1>1, LeavesOrder DEF Rests
<1>3. \A t \in 0 .. 3 : \A m \in Mutexes : Done(t, m)' <=> Done(t, m)
  BY <1>1 DEF Done
<1>4. Values'
  BY <1>1, <1>3, SameValues
<1>5. ChaserPlaces'
  BY <1>1 DEF ChaserPlaces
<1>6. InOrder'
  <2>1. ASSUME NEW d \in 0 .. 3, pc'[d] \in {"held", "loaded"}
        PROVE  pc[d] \in {"held", "loaded"} /\ data.cur[d] \in Mutexes
    <3>1. pc[d] \in {"held", "loaded"}
      BY <1>1, <2>1
    <3> QED BY <3>1, JobMutex
  <2> QED BY <1>1, <1>3, <2>1 DEF InOrder
<1>7. Periods'
  <2>1. ASSUME NEW T \in Nat, NEW e \in [Devices -> Nat], JobsAt(T, e) PROVE JobsAt(T, e)'
    <3>1. ASSUME NEW t \in 0 .. 3
          PROVE  LET jobs == e[Dev(t)] + IF run_list'[t + 1] = t THEN 1 ELSE 2
                 IN  data.cur[t] = IF jobs < MUTEX_NUM THEN jobs ELSE MUTEX_NUM
      <4>1. e[Dev(t)] \in Nat /\ t # NULL
        BY ChaserNumbers
      <4>2. /\ run_list'[t + 1] = IF t = c THEN NULL ELSE run_list[t + 1]
            /\ LET jobs == e[Dev(t)] + IF run_list[t + 1] = t THEN 1 ELSE 2
               IN  data.cur[t] = IF jobs < MUTEX_NUM THEN jobs ELSE MUTEX_NUM
        BY <2>1 DEF JobsAt, Rests, Leaves
      <4>3. CASE t = c
        <5>1. run_list[t + 1] = t /\ run_list'[t + 1] # t /\ data.cur[t] = MUTEX_NUM
          BY <1>1, <1>2, <4>1, <4>2, <4>3
        <5>2. MUTEX_NUM \in Nat
          BY ChaserNumbers
        <5>3. ~ (e[Dev(t)] + 2 < MUTEX_NUM)
          <6>1. MUTEX_NUM = IF e[Dev(t)] + 1 < MUTEX_NUM THEN e[Dev(t)] + 1 ELSE MUTEX_NUM
            BY <4>2, <5>1
          <6> QED BY <4>1, <5>2, <6>1
        <5> QED BY <5>1, <5>3
      <4>4. CASE t # c
        BY <4>2, <4>4
      <4> QED BY <4>3, <4>4
    <3> QED BY <1>1, <2>1, <3>1 DEF JobsAt
  <2> QED BY <1>1, <2>1 DEF Periods
<1> QED BY <1>1, <1>2, <1>4, <1>5, <1>6, <1>7 DEF ChaserTypes, ReportRight

\* The devices that wake a task.
LEMMA WokenBy ==
  ASSUME OneSetInv, NEW t \in Tcbs, t < num_tasks, NEW S \in SUBSET Devices
  PROVE  (\E d \in S : t \in Waiters(d)) <=> run_list[t + 1] = NULL /\ event[t] \in S
<1> USE DEF OneSetInv
<1>1. ASSUME NEW d \in S, t \in Waiters(d) PROVE run_list[t + 1] = NULL /\ event[t] = d
  BY <1>1 DEF WaitersNotReady
<1>2. ASSUME run_list[t + 1] = NULL PROVE \E d \in Devices : t \in Waiters(d) /\ event[t] = d
  BY <1>2 DEF WaitersNotReady, NotReadyWaits
<1> QED BY <1>1, <1>2

\* Time goes on for a device.
LEMMA EventsCounted ==
  ASSUME NEW f \in Nat, NEW lag \in Nat, 1 <= lag, lag < f,
         NEW T \in Nat, NEW e \in Nat, NEW x \in 1 .. f, T = (e + 1) * f - x
  PROVE  /\ x <= lag => x - lag + f \in 1 .. f /\ T + lag = ((e + 1) + 1) * f - (x - lag + f)
         /\ ~ (x <= lag) => x - lag \in 1 .. f /\ T + lag = (e + 1) * f - (x - lag)
<1>1. ((e + 1) + 1) * f = (e + 1) * f + f /\ (e + 1) * f \in Int
  OBVIOUS
<1> QED BY <1>1

\* No task whose device has its event is ready, and each is again afterwards.
LEMMA ChaserTickSlots ==
  ASSUME CommonInv, CommonInv', Is("mutex_chaser"), NoPanic, ChaserWaits,
         NEW lag \in 1 .. MaxTickLag, InTime(lag), timer_irq(lag), NEW t \in 0 .. 3
  PROVE  IF Dev(t) \in Fired(lag)
         THEN run_list[t + 1] = NULL /\ run_list'[t + 1] = t
         ELSE run_list'[t + 1] = run_list[t + 1]
<1> USE DEF CommonInv
<1>1. cur_tcb # NULL
  BY DEF timer_irq
<1>2. t \in Tcbs /\ t < num_tasks /\ t # NULL /\ run_list[t + 1] \in {t, NULL} /\ t + 1 \in Prios
  BY <1>1, ChaserSlots, TaskSlots
<1>3. run_list'[t + 1] = IF \E d \in Fired(lag) : t \in Waiters(d) THEN t ELSE run_list[t + 1]
  BY <1>2, TickSwitches
<1>4. (\E d \in Fired(lag) : t \in Waiters(d)) <=> run_list[t + 1] = NULL /\ event[t] \in Fired(lag)
  BY <1>2, WokenBy DEF Fired
<1>5. run_list[t + 1] = NULL => event[t] = Dev(t)
  BY <1>1 DEF ChaserWaits
<1>6. Dev(t) \in Fired(lag) => run_list[t + 1] # t
  <2>1. DeviceOf(t) = Dev(t)
    BY DEF DeviceOf, Is, Dev
  <2>2. \A u \in Tcbs : u < num_tasks /\ DeviceOf(u) \in Fired(lag) => ~IsReady(u)
    BY DEF InTime, NoPanic
  <2> QED BY <1>2, <2>1, <2>2 DEF IsReady
<1> QED BY <1>2, <1>3, <1>4, <1>5, <1>6

LEMMA ChaserTickStep ==
  ASSUME CommonInv, CommonInv', Is("mutex_chaser"), ChaserInv, TickInTime
  PROVE  ChaserInv'
<1> USE DEF CommonInv, ChaserInv
<1>1. PICK lag \in 1 .. MaxTickLag : InTime(lag) /\ timer_irq(lag)
  BY DEF TickInTime
<1>2. /\ UNCHANGED <<program, pc, errno, data, bAvailable, pHolding_Tcb>>
      /\ cur_tcb # NULL /\ cur_tcb' # NULL
  BY <1>1, CommonTick DEF timer_irq, mutex_vars
<1>3. \A t \in 0 .. 3 : IF Dev(t) \in Fired(lag)
                       THEN run_list[t + 1] = NULL /\ run_list'[t + 1] = t
                       ELSE run_list'[t + 1] = run_list[t + 1]
  BY <1>1, ChaserTickSlots
<1>4. ChaserMain' /\ ChaserTypes' /\ ChaserPlaces' /\ ReportRight' /\ NoPanic'
  BY <1>2 DEF ChaserMain, ChaserTypes, ChaserPlaces, ReportRight, NoPanic, Spins
<1>5. \A t \in 0 .. 3 : \A m \in Mutexes : Done(t, m)' <=> Done(t, m)
  BY <1>2 DEF Done
<1>6. Values'
  BY <1>2, <1>5, SameValues
<1>7. InOrder'
  <2>1. ASSUME NEW d \in 0 .. 3, pc'[d] \in {"held", "loaded"} PROVE data.cur[d] \in Mutexes
    BY <1>2, <2>1, JobMutex
  <2> QED BY <1>2, <1>5, <2>1 DEF InOrder
<1>8. /\ cur_tcb' \in Tcbs
      /\ run_list[0] # NULL => cur_tcb' = cur_tcb
      /\ \A t \in 0 .. 3 :
           /\ t \in Tcbs /\ t # NULL /\ t # IDLE_PRIO
           /\ run_list'[t + 1] \in {t, NULL}
           /\ run_list[0] = NULL /\ run_list'[t + 1] = t => cur_tcb' \in 0 .. t
  <2>1. \A t \in 0 .. 3 : /\ t \in Tcbs /\ t < num_tasks /\ t # NULL /\ t # IDLE_PRIO
                         /\ run_list[t + 1] \in {t, NULL}
    BY <1>2, ChaserSlots, ChaserNumbers
  <2> QED BY <1>1, <1>3, <2>1, TickSwitches
<1>9. ChaserWaits'
  <2>1. ASSUME NEW t \in 0 .. 3, run_list'[t + 1] = NULL PROVE event'[t] = Dev(t)
    <3>1. event[t] = Dev(t)
      BY <1>2, <1>3, <1>8, <2>1 DEF ChaserWaits
    <3>2. t # cur_tcb'
      BY <1>2, <1>8, <2>1 DEF OneSetInv, RunningIsReady
    <3>3. event' = [event EXCEPT ![cur_tcb'] = NULL] /\ event \in [Tcbs -> Devices \cup {NULL}]
      BY <1>1 DEF timer_irq, dispatch, OneSetInv, TypeInv, TypeOK
    <3> QED BY <1>8, <3>1, <3>2, <3>3
  <2> QED BY <2>1 DEF ChaserWaits
<1>10. RunsFirst'
  <2>1. CASE run_list[0] # NULL
    <3>1. PICK m \in Mutexes : pHolding_Tcb[m] # NULL
      BY <2>1 DEF OneSetInv, SlotZeroOfOwner
    <3>2. pHolding_Tcb[m] = cur_tcb
      BY <3>1 DEF OneSetInv, MutexesOfRunning
    <3>3. cur_tcb \in 0 .. 3 => pc[cur_tcb] # "start"
      BY <3>1, <3>2 DEF ChaserPlaces
    <3> QED BY <1>2, <1>8, <2>1, <3>3 DEF RunsFirst
  <2>2. CASE run_list[0] = NULL
    <3>1. ASSUME cur_tcb' \in 0 .. 3, NEW t \in 0 .. 3, t < cur_tcb'
          PROVE  run_list'[t + 1] = NULL
      BY <1>8, <2>2, <3>1
    <3> QED BY <3>1 DEF RunsFirst
  <2> QED BY <2>1, <2>2
<1>11. Periods'
  <2>1. PICK T \in Nat : \E e \in [Devices -> Nat] : JobsAt(T, e)
    BY <1>2 DEF Periods
  <2>2. PICK e \in [Devices -> Nat] : JobsAt(T, e)
    BY <2>1
  <2>3. PICK f \in [Devices -> Nat] :
          \A d \in Devices : f[d] = IF d \in Fired(lag) THEN e[d] + 1 ELSE e[d]
    <3> DEFINE g == [d \in Devices |-> IF d \in Fired(lag) THEN e[d] + 1 ELSE e[d]]
    <3>1. g \in [Devices -> Nat]
      OBVIOUS
    <3> QED BY <3>1
  <2>4. T + lag \in Nat /\ lag \in Nat /\ 1 <= lag
        /\ lag <= MaxTickLag
    BY PeriodsAssumption
  <2>5. ASSUME NEW d \in Devices
        PROVE  due'[d] \in 1 .. dev_freq[d] /\ T + lag = (f[d] + 1) * dev_freq[d] - due'[d]
    <3>1. /\ due'[d] = IF due[d] <= lag THEN due[d] - lag + dev_freq[d] ELSE due[d] - lag
          /\ f[d] = IF due[d] <= lag THEN e[d] + 1 ELSE e[d]
      BY <1>1, <2>3 DEF timer_irq, DueAfter, Fired
    <3>2. /\ e[d] \in Nat /\ due[d] \in 1 .. dev_freq[d]
          /\ T = (e[d] + 1) * dev_freq[d] - due[d]
      BY <2>2 DEF JobsAt
    <3>3. dev_freq[d] \in Nat /\ lag < dev_freq[d]
      <4>1. dev_freq[d] \in Nat /\ dev_freq[d] > MaxTickLag /\ MaxTickLag \in Nat
        BY ChaserNumbers, PeriodsAssumption
      <4> QED BY <2>4, <4>1
    <3>4. /\ due[d] <= lag => /\ due[d] - lag + dev_freq[d] \in 1 .. dev_freq[d]
                              /\ T + lag = ((e[d] + 1) + 1) * dev_freq[d]
                                             - (due[d] - lag + dev_freq[d])
          /\ ~ (due[d] <= lag) => /\ due[d] - lag \in 1 .. dev_freq[d]
                                  /\ T + lag = (e[d] + 1) * dev_freq[d] - (due[d] - lag)
      BY <2>4, <3>2, <3>3, EventsCounted
    <3> QED BY <3>1, <3>4
  <2>6. ASSUME NEW t \in 0 .. 3
        PROVE  LET jobs == f[Dev(t)] + IF run_list'[t + 1] = t THEN 1 ELSE 2
               IN  data'.cur[t] = IF jobs < MUTEX_NUM THEN jobs ELSE MUTEX_NUM
    <3>1. Dev(t) \in Devices /\ e[Dev(t)] \in Nat /\ t # NULL
      BY <1>8, ChaserNumbers
    <3>2. LET jobs == e[Dev(t)] + IF run_list[t + 1] = t THEN 1 ELSE 2
          IN  data'.cur[t] = IF jobs < MUTEX_NUM THEN jobs ELSE MUTEX_NUM
      BY <1>2, <2>2 DEF JobsAt
    <3>3. f[Dev(t)] + (IF run_list'[t + 1] = t THEN 1 ELSE 2)
            = e[Dev(t)] + (IF run_list[t + 1] = t THEN 1 ELSE 2)
      <4>1. CASE Dev(t) \in Fired(lag)
        <5>1. f[Dev(t)] = e[Dev(t)] + 1 /\ run_list[t + 1] = NULL /\ run_list'[t + 1] = t
          BY <1>3, <2>3, <3>1, <4>1
        <5> QED BY <3>1, <5>1
      <4>2. CASE Dev(t) \notin Fired(lag)
        <5>1. f[Dev(t)] = e[Dev(t)] /\ run_list'[t + 1] = run_list[t + 1]
          BY <1>3, <2>3, <3>1, <4>2
        <5> QED BY <5>1
      <4> QED BY <4>1, <4>2
    <3> QED BY <3>2, <3>3
  <2>7. JobsAt(T + lag, f)'
    BY <2>5, <2>6 DEF JobsAt
  <2> QED BY <2>4, <2>7 DEF Periods
<1> QED BY <1>4, <1>6, <1>7, <1>9, <1>10, <1>11

\* main creates all mutexes, then the tasks.
LEMMA ChaserMainStep ==
  ASSUME CommonInv, CommonInv', Is("mutex_chaser"), ChaserInv, chaser_main
  PROVE  ChaserInv'
<1> USE DEF CommonInv, ChaserInv
<1>1. /\ cur_tcb = NULL /\ NULL \in TcbPointers /\ NULL \notin 0 .. 3
      /\ \A t \in 0 .. 3 : pc[t] = "start" /\ t \in TcbPointers /\ t # NULL
      /\ SetSize[program] = 4 /\ ~Is("hello")
  <2>1. cur_tcb = NULL
    BY DEF chaser_main, At
  <2>2. SetSize[program] = 4 /\ ~Is("hello")
    BY DEF Is, SetSize
  <2>3. \A t \in 0 .. 3 : pc[t] = "start"
    BY <2>1, ChaserNumbers DEF Places
  <2> QED BY <2>1, <2>2, <2>3, ChaserNumbers
<1>2. ASSUME NEW label, label # "spin", Goto(NULL, label)
      PROVE  NoPanic' /\ \A t \in 0 .. 3 : pc'[t] = "start"
  <2>1. NoPanic'
    BY <1>1, <1>2, GotoNoPanic
  <2>2. \A t \in TcbPointers : pc'[t] = IF t = NULL THEN label ELSE pc[t]
    BY <1>1, <1>2, GotoPlace
  <2> QED BY <1>1, <2>1, <2>2
<1>3. /\ \A t \in 0 .. 3 : \A m \in Mutexes : pHolding_Tcb[m] # t
      /\ \A t \in 0 .. 3 : data.cur[t] = 1
      /\ data.i \in 0 .. MUTEX_NUM /\ data.val \in [Mutexes -> Int]
      /\ \A m \in Mutexes : bAvailable[m] \in {0, 1} /\ (bAvailable[m] = 1 <=> m >= data.i)
      /\ \A m \in Mutexes : m < data.i => data.val[m] = 2
  BY <1>1 DEF ChaserPlaces, ChaserMain, ChaserTypes, init_val, OneSetInv, TypeInv, TypeOK
<1>4. ASSUME \A t \in 0 .. 3 : pc'[t] = "start",
             pHolding_Tcb' = pHolding_Tcb, data'.cur = data.cur, data'.report = data.report,
             NoPanic', ChaserTypes', ChaserMain', ChaserWaits', RunsFirst', Values', Periods'
      PROVE  ChaserInv'
  <2>1. ChaserPlaces'
    BY <1>3, <1>4 DEF ChaserPlaces
  <2>2. ASSUME NEW t \in 0 .. 3, NEW m \in Mutexes \ {0} PROVE ~Done(t, m)'
    BY <1>3, <1>4, ChaserNumbers DEF Done
  <2>3. InOrder'
    BY <1>4, <2>2 DEF InOrder
  <2> QED BY <1>4, <2>1, <2>3 DEF ReportRight
<1>5. ASSUME cur_tcb' = NULL PROVE ChaserWaits' /\ RunsFirst' /\ Values' /\ Periods'
  BY <1>1, <1>5 DEF ChaserWaits, RunsFirst, Values, Periods
<1>6. CASE /\ At(NULL, "start") /\ data.i < MUTEX_NUM /\ create(NULL, "start", "start")
           /\ data' = [data EXCEPT !.i = @ + 1, !.val[data.i] = init_val]
  <2>1. data.i \in Mutexes /\ bAvailable[data.i] = 1
    BY <1>3, <1>6, ChaserNumbers
  <2>2. mutex_create /\ Goto(NULL, "start")
    BY <1>6, <2>1, CreatedIs DEF create, Succeed
  <2>3. UNCHANGED <<cur_tcb, pHolding_Tcb>> /\ bAvailable' = [bAvailable EXCEPT ![data.i] = 0]
    <3>1. PICK m \in Mutexes : /\ bAvailable[m] = 1
                               /\ \A k \in Mutexes : bAvailable[k] = 1 => m <= k
                               /\ bAvailable' = [bAvailable EXCEPT ![m] = 0]
      BY <2>2 DEF mutex_create
    <3>2. m = data.i
      BY <1>3, <2>1, <3>1, ChaserNumbers
    <3> QED BY <2>2, <3>1, <3>2 DEF mutex_create
  <2>4. /\ data'.i = data.i + 1 /\ data'.cur = data.cur /\ data'.reg = data.reg
        /\ data'.val = [data.val EXCEPT ![data.i] = 2] /\ data'.report = data.report
        /\ data' = [i |-> data'.i, val |-> data'.val, cur |-> data'.cur,
                    reg |-> data'.reg, report |-> data'.report]
    BY <1>6 DEF ChaserTypes, init_val
  <2>5. ChaserTypes'
    <3>1. data.i + 1 \in 0 .. MUTEX_NUM
      BY <1>3, <1>6, ChaserNumbers
    <3>2. data.val \in [Mutexes -> Int] /\ 2 \in Int
      BY <1>3
    <3>3. data'.val \in [Mutexes -> Int]
      BY <2>1, <2>4, <3>2
    <3>4. /\ data'.cur \in [0 .. 3 -> 1 .. MUTEX_NUM] /\ data'.reg \in [0 .. 3 -> Int]
          /\ data'.i \in 0 .. MUTEX_NUM
      BY <1>3, <2>4, <3>1 DEF ChaserTypes
    <3> QED BY <2>4, <3>3, <3>4 DEF ChaserTypes
  <2>6. ChaserMain'
    <3>1. bAvailable \in [Mutexes -> {0, 1}]
      BY DEF OneSetInv, TypeInv, TypeOK
    <3>2. \A m \in Mutexes : bAvailable'[m] = 1 <=> m >= data.i + 1
      BY <1>3, <2>1, <2>3, <3>1, ChaserNumbers
    <3>3. \A m \in Mutexes : m < data.i + 1 => data'.val[m] = 2
      BY <1>3, <2>1, <2>4, ChaserNumbers
    <3> QED BY <1>1, <1>3, <2>3, <2>4, <3>2, <3>3 DEF ChaserMain, init_val
  <2> QED BY <1>1, <1>2, <1>4, <1>5, <2>2, <2>3, <2>4, <2>5, <2>6
<1>7. CASE At(NULL, "start") /\ data.i = MUTEX_NUM /\ launch(4) /\ UNCHANGED data
  <2>1. /\ cur_tcb' = 0 /\ NoPanic' /\ UNCHANGED mutex_vars
        /\ \A t \in 0 .. 3 : pc'[t] = "start"
    <3>1. Launches
      BY <1>1, <1>7 DEF Launches
    <3> QED BY <1>1, <3>1, CommonLaunch
  <2>2. due' = dev_freq /\ \A t \in 0 .. 3 : run_list'[t + 1] = t
    <3>1. run_list' = FreshList(4) /\ due' = dev_freq
      BY <1>7 DEF launch, task_create
    <3>2. \A t \in 0 .. 3 : t + 1 \in Prios /\ t + 1 # IDLE_PRIO /\ t + 1 \in 1 .. 4 /\ (t + 1) - 1 = t
      BY UserNumbers, Numbers
    <3> QED BY <3>1, <3>2 DEF FreshList
  <2>3. ChaserMain' /\ ChaserTypes' /\ 0 # NULL
    BY <1>3, <1>7, <2>1, ChaserNumbers DEF mutex_vars, ChaserMain, ChaserTypes
  <2>4. ChaserWaits' /\ RunsFirst'
    BY <1>1, <2>1, <2>2 DEF ChaserWaits, RunsFirst
  <2>5. Values'
    <3>1. ASSUME NEW t \in 0 .. 3, NEW m \in Mutexes \ {0} PROVE ~Done(t, m)'
      <4>1. data'.cur[t] = 1 /\ pc'[t] = "start"
        BY <1>3, <1>7, <2>1
      <4>2. ~ (1 > m)
        BY ChaserNumbers
      <4> QED BY <4>1, <4>2 DEF Done
    <3>2. \A m \in Mutexes : data'.val[m] = 2
      BY <1>3, <1>7, ChaserNumbers
    <3>3. 0 \in Mutexes /\ {0, 1, 2, 3} \subseteq 0 .. 3
      BY ChaserNumbers
    <3> QED BY <3>1, <3>2, <3>3 DEF Values
  <2>6. Periods'
    <3>1. PICK e \in [Devices -> Nat] : \A d \in Devices : e[d] = 0
      <4>1. [d \in Devices |-> 0] \in [Devices -> Nat]
        OBVIOUS
      <4> QED BY <4>1
    <3>2. ASSUME NEW d \in Devices
          PROVE  due'[d] \in 1 .. dev_freq[d] /\ 0 = (e[d] + 1) * dev_freq[d] - due'[d]
      <4>1. dev_freq[d] \in Nat /\ dev_freq[d] >= 1 /\ due'[d] = dev_freq[d] /\ e[d] + 1 = 1
        BY <2>2, <3>1, PeriodsAssumption
      <4> QED BY <4>1
    <3>3. ASSUME NEW t \in 0 .. 3
          PROVE  LET jobs == e[Dev(t)] + IF run_list'[t + 1] = t THEN 1 ELSE 2
                 IN  data'.cur[t] = IF jobs < MUTEX_NUM THEN jobs ELSE MUTEX_NUM
      BY <1>3, <1>7, <2>2, <3>1, ChaserNumbers
    <3>4. JobsAt(0, e)'
      BY <3>2, <3>3 DEF JobsAt
    <3> QED BY <3>4 DEF Periods
  <2> QED BY <1>4, <1>7, <2>1, <2>3, <2>4, <2>5, <2>6 DEF mutex_vars
<1>8. CASE Fail(NULL, "returned", ESCHED) /\ UNCHANGED data
  <2>1. UNCHANGED <<cur_tcb, pHolding_Tcb, bAvailable>>
    BY <1>8 DEF Fail, kernel_vars, vars, mutex_vars
  <2>2. ChaserMain' /\ ChaserTypes'
    BY <1>8, <2>1 DEF ChaserMain, ChaserTypes
  <2> QED BY <1>1, <1>2, <1>4, <1>5, <1>8, <2>1, <2>2 DEF Fail
<1> QED BY <1>6, <1>7, <1>8 DEF chaser_main, launch_or_refuse

LEMMA ChaserStep ==
  ASSUME CommonInv, Is("mutex_chaser"), ChaserInv,
         NextUser \/ UNCHANGED <<kernel_vars, user_vars>>
  PROVE  ChaserInv'
<1>1. CommonInv'
  BY CommonStep
<1>2. CASE UNCHANGED <<kernel_vars, user_vars>>
  <2>1. UNCHANGED <<cur_tcb, run_list, event, due, bAvailable, pHolding_Tcb, pc, data>>
    BY <1>2 DEF kernel_vars, user_vars, vars, tcb_vars, dev_vars, mutex_vars
  <2>2. ChaserTypes' /\ ChaserMain' /\ ChaserPlaces' /\ ChaserWaits' /\ NoPanic'
    BY <2>1 DEF ChaserInv, ChaserTypes, ChaserMain, ChaserPlaces, ChaserWaits, NoPanic, Spins
  <2>3. RunsFirst' /\ InOrder' /\ Values' /\ ReportRight'
    BY <2>1 DEF ChaserInv, RunsFirst, InOrder, Values, ReportRight, Done
  <2>4. Periods'
    BY <2>1 DEF ChaserInv, Periods, JobsAt
  <2> QED BY <2>2, <2>3, <2>4 DEF ChaserInv
<1>3. CASE TickInTime
  BY <1>1, <1>3, ChaserTickStep
<1>4. CASE chaser_fun1 \/ chaser_fun2 \/ chaser_fun3 \/ chaser_fun4
  <2>1. OneSetInv /\ Places
    BY DEF CommonInv
  <2> QED BY <1>1, <1>4, <2>1, ChaserForms, LocksStep, LoadsStep, StoresStep, UnlocksStep,
             WaitsStep, RestsStep, ReportsStep
<1>5. CASE UserStep
  BY <1>1, <1>4, <1>5, ChaserMainStep, StepsOfProgram
<1> QED BY <1>2, <1>3, <1>5 DEF NextUser

------------------------------------------------------------------------------
(* The theorems.                                                             *)

UserInv ==
  /\ CommonInv
  /\ Is("mutex_chaser") => ChaserInv
  /\ Is("simple_mutex") => SimpleInv
  /\ Is("sys_err") => SysErrInv
  /\ Is("stress") => StressInv
  /\ Is("butterknife") => ButterknifeInv
  /\ program \in {"dagger", "sched_check"} => PutterInv
  /\ Is("hello") => HelloInv

LEMMA UserInvInit == InitUser => UserInv
<1> SUFFICES ASSUME InitUser PROVE UserInv
  OBVIOUS
<1>1. CommonInv
  BY CommonInit
<1>2. /\ cur_tcb = NULL /\ NoPanic /\ NoHolders
      /\ \A m \in Mutexes : bAvailable[m] = 1 /\ pHolding_Tcb[m] = NULL
      /\ \A c \in TcbPointers : pc[c] = "start"
      /\ data = InitialData[program]
  BY Numbers DEF InitUser, Init, NoPanic, NoHolders, Spins
<1>3. ASSUME Is("mutex_chaser") PROVE ChaserInv
  <2>1. data = [i |-> 0, val |-> [m \in Mutexes |-> 0],
                cur |-> [c \in 0 .. 3 |-> 1], reg |-> [c \in 0 .. 3 |-> 0],
                report |-> << >>]
    BY <1>2, <1>3 DEF InitialData, Is
  <2>2. ChaserTypes
    BY <2>1, ChaserNumbers DEF ChaserTypes
  <2>3. ChaserMain
    BY <1>2, <2>1, ChaserNumbers DEF ChaserMain
  <2>4. ChaserPlaces
    BY <1>2, ChaserNumbers DEF ChaserPlaces
  <2>5. ChaserWaits /\ RunsFirst /\ Values /\ Periods
    BY <1>2, ChaserNumbers DEF ChaserWaits, RunsFirst, Values, Periods
  <2>6. InOrder
    <3>1. \A c \in 0 .. 3 : pc[c] = "start" /\ data.cur[c] = 1
      BY <1>2, <2>1, ChaserNumbers
    <3>2. ASSUME NEW t \in 0 .. 3, NEW m \in Mutexes \ {0} PROVE ~Done(t, m)
      BY <3>1, ChaserNumbers DEF Done
    <3> QED BY <3>1, <3>2 DEF InOrder
  <2>7. ReportRight
    BY <2>1 DEF ReportRight
  <2> QED BY <1>2, <2>2, <2>3, <2>4, <2>5, <2>6, <2>7 DEF ChaserInv
<1>4. ASSUME Is("sys_err") PROVE SysErrInv
  <2>1. data = [k \in 1 .. 10 |-> "none"]
    BY <1>2, <1>4 DEF InitialData, Is
  <2>2. ResultsExpected
    BY <2>1 DEF ResultsExpected
  <2>3. pc[0] = "start"
    BY <1>2, Numbers
  <2> QED BY <1>2, <2>2, <2>3 DEF SysErrInv
<1>5. ButterknifeInv
  <2>1. pc[NULL] = "start" /\ \A t \in {0, 1} : pc[t] = "start" /\ t # NULL
    BY <1>2, ChaserNumbers
  <2>2. 0 \in Mutexes
    BY UserNumbers
  <2> QED BY <1>2, <2>1, <2>2 DEF ButterknifeInv, Critical
<1>6. SimpleInv /\ StressInv /\ PutterInv /\ HelloInv
  BY <1>2 DEF SimpleInv, StressInv, PutterInv, HelloInv, NoPanic
<1> QED BY <1>1, <1>3, <1>4, <1>5, <1>6 DEF UserInv

LEMMA UserInvStep ==
  UserInv /\ [NextUser]_<<kernel_vars, user_vars>> => UserInv'
<1> SUFFICES ASSUME UserInv, NextUser \/ UNCHANGED <<kernel_vars, user_vars>>
             PROVE  UserInv'
  OBVIOUS
<1>1. CommonInv /\ CommonInv' /\ program' = program
  BY CommonStep DEF UserInv
<1>2. \A p : Is(p)' <=> Is(p)
  BY <1>1 DEF Is
<1>3. /\ Is("mutex_chaser") => ChaserInv'
      /\ Is("simple_mutex") => SimpleInv'
      /\ Is("sys_err") => SysErrInv'
  BY <1>1, ChaserStep, SimpleStep, SysErrStep DEF UserInv
<1>4. /\ Is("stress") => StressInv'
      /\ Is("butterknife") => ButterknifeInv'
      /\ program \in {"dagger", "sched_check"} => PutterInv'
      /\ Is("hello") => HelloInv'
  BY <1>1, StressStep, ButterknifeStep, PutterStep, HelloStep DEF UserInv
<1> QED BY <1>1, <1>2, <1>3, <1>4 DEF UserInv

LEMMA UserInvHolds == SpecUser => []UserInv
BY UserInvInit, UserInvStep, PTL DEF SpecUser

\* The calls fail when and as the programs expect it, and nobody panics but for
\* a reason and at the expense of whom it should.
THEOREM ProgramsFailAsExpected == SpecUser => []PanicsAndResults
<1>1. UserInv => PanicsAndResults
  <2> SUFFICES ASSUME UserInv PROVE PanicsAndResults
    OBVIOUS
  <2>1. CommonInv
    BY DEF UserInv
  <2>2. ASSUME Is("sys_err"), NEW k \in DOMAIN data, data[k] # "none"
        PROVE  data[k] \in << {EINVAL}, {EFAULT}, {ENOMEM}, {EINVAL}, {EPERM}, {EINVAL},
                              {SUCCESS}, {EDEADLOCK}, {SUCCESS}, {EINVAL} >>[k]
    <3>1. ResultsExpected
      BY <2>2 DEF UserInv, SysErrInv
    <3>2. DOMAIN data = 1 .. 10
      BY <3>1 DEF ResultsExpected
    <3>3. data[k] \in Expected[k]
      BY <2>2, <3>1, <3>2 DEF ResultsExpected
    <3> QED BY <3>3 DEF Expected
  <2>3. ASSUME NEW c \in Tcbs, Spins(c)
        PROVE  /\ cur_tcb <= c
               /\ Is("simple_mutex") /\ c # 0 => errno = EHOLDSLOCK /\ holds_lock[c] = 1
               /\ Is("stress") => c = NUM_DEVICES /\ errno = EINVAL
               /\ holds_lock[c] = 1 => cur_tcb = c
               /\ program \in {"simple_mutex", "stress", "sys_err", "cyclone"}
    <3>1. cur_tcb <= c
      BY <2>1, <2>3, Numbers DEF CommonInv, SpinsStay
    <3>2. Is("simple_mutex") /\ c # 0 => errno = EHOLDSLOCK /\ holds_lock[c] = 1
      BY <2>3 DEF UserInv, SimpleInv
    <3>3. Is("stress") => c = NUM_DEVICES /\ errno = EINVAL
      BY <2>3 DEF UserInv, StressInv
    <3>4. holds_lock[c] = 1 => cur_tcb = c
      BY <2>1, OwnerHasCpu DEF CommonInv
    <3>5. ~NoPanic
      BY <2>3 DEF NoPanic
    <3>6. program \in {"mutex_chaser", "simple_mutex", "sys_err", "stress", "butterknife",
                       "cyclone", "sched_check", "dagger", "hello"}
      BY <2>1 DEF CommonInv, Places, InitialData
    <3>7. program \in {"simple_mutex", "stress", "sys_err", "cyclone"}
      BY <3>5, <3>6 DEF UserInv, Is, ChaserInv, ButterknifeInv, PutterInv, HelloInv
    <3> QED BY <3>1, <3>2, <3>3, <3>4, <3>7
  <2>4. ASSUME Is("stress") PROVE cur_tcb # NUM_TASK - 1
    <3>1. cur_tcb = NULL \/ cur_tcb \in 0 .. NUM_DEVICES
      BY <2>4 DEF UserInv, StressInv
    <3>2. NUM_TASK - 1 \in Tcbs /\ NULL \notin Tcbs /\ NUM_TASK - 1 \notin 0 .. NUM_DEVICES
      BY UserNumbers, Numbers
    <3> QED BY <3>1, <3>2
  <2> QED BY <2>2, <2>3, <2>4 DEF PanicsAndResults
<1> QED BY <1>1, UserInvHolds, PTL

\* The tasks that are done with a mutex are the first ones, and their number
\* tells the value.
LEMMA DoneAndValue ==
  ASSUME ChaserInv, cur_tcb # NULL, NEW m \in Mutexes \ {0}
  PROVE  LET done == {c \in 0 .. 3 : Done(c, m)}
             k == Cardinality(done)
         IN  /\ done = 0 .. k - 1
             /\ k = 0 => data.val[m] = 2
             /\ k = 1 => data.val[m] = 5
             /\ k = 2 => data.val[m] = 55
             /\ k = 3 => data.val[m] = 48
             /\ k = 4 => data.val[m] = 624
             /\ k \in 0 .. 4
<1> DEFINE done == {c \in 0 .. 3 : Done(c, m)}
<1>1. /\ Done(1, m) => Done(0, m)
      /\ Done(2, m) => Done(1, m)
      /\ Done(3, m) => Done(2, m)
  BY ChaserNumbers DEF ChaserInv, InOrder
<1>2. /\ ~Done(0, m) => data.val[m] = 2
      /\ Done(0, m) /\ ~Done(1, m) => data.val[m] = 5
      /\ Done(1, m) /\ ~Done(2, m) => data.val[m] = 55
      /\ Done(2, m) /\ ~Done(3, m) => data.val[m] = 48
      /\ Done(3, m) => data.val[m] = 624
  BY DEF ChaserInv, Values
<1>3. \A n \in 0 .. 4 : Cardinality(0 .. n - 1) = n
  <2> TAKE n \in 0 .. 4
  <2>1. 0 \in Int /\ n - 1 \in Int /\ (0 > n - 1 <=> n = 0) /\ (n - 1) - 0 + 1 = n
    OBVIOUS
  <2> QED BY <2>1, FS_Interval
<1>4. \E n \in 0 .. 4 :
        /\ done = 0 .. n - 1
        /\ n = 0 => data.val[m] = 2
        /\ n = 1 => data.val[m] = 5
        /\ n = 2 => data.val[m] = 55
        /\ n = 3 => data.val[m] = 48
        /\ n = 4 => data.val[m] = 624
  <2>1. /\ 0 .. 0 - 1 = {} /\ 0 .. 1 - 1 = {0} /\ 0 .. 2 - 1 = {0, 1}
        /\ 0 .. 3 - 1 = {0, 1, 2} /\ 0 .. 4 - 1 = {0, 1, 2, 3}
    OBVIOUS
  <2>2. CASE ~Done(0, m)
    <3>1. done = {}
      BY <1>1, <2>2, ChaserNumbers
    <3> QED BY <1>2, <2>1, <2>2, <3>1
  <2>3. CASE Done(0, m) /\ ~Done(1, m)
    <3>1. done = {0}
      BY <1>1, <2>3, ChaserNumbers
    <3> QED BY <1>2, <2>1, <2>3, <3>1
  <2>4. CASE Done(1, m) /\ ~Done(2, m)
    <3>1. done = {0, 1}
      BY <1>1, <2>4, ChaserNumbers
    <3> QED BY <1>2, <2>1, <2>4, <3>1
  <2>5. CASE Done(2, m) /\ ~Done(3, m)
    <3>1. done = {0, 1, 2}
      BY <1>1, <2>5, ChaserNumbers
    <3> QED BY <1>2, <2>1, <2>5, <3>1
  <2>6. CASE Done(3, m)
    <3>1. done = {0, 1, 2, 3}
      BY <1>1, <2>6, ChaserNumbers
    <3> QED BY <1>2, <2>1, <2>6, <3>1
  <2> QED BY <1>1, <2>2, <2>3, <2>4, <2>5, <2>6
<1> HIDE DEF done
<1>5. PICK n \in 0 .. 4 :
        /\ done = 0 .. n - 1
        /\ n = 0 => data.val[m] = 2
        /\ n = 1 => data.val[m] = 5
        /\ n = 2 => data.val[m] = 55
        /\ n = 3 => data.val[m] = 48
        /\ n = 4 => data.val[m] = 624
  BY <1>4
<1>6. Cardinality(done) = n
  BY <1>3, <1>5
<1> QED BY <1>5, <1>6 DEF done

\* The critical sections of the programs work: no update of mutex_chaser is lost
\* or out of order, and in butterknife one task at a time is in its section.
THEOREM SectionsKept == SpecUser => []CriticalSectionsKept
<1>1. UserInv => CriticalSectionsKept
  <2> SUFFICES ASSUME UserInv PROVE CriticalSectionsKept
    OBVIOUS
  <2>1. CommonInv
    BY DEF UserInv
  <2>2. ASSUME Is("mutex_chaser"), cur_tcb # NULL, NEW m \in Mutexes \ {0}
        PROVE  LET done == {c \in 0 .. 3 :
                        data.cur[c] > m \/ (data.cur[c] = m /\ pc[c] \in {"stored", "next"})}
                   k == Cardinality(done)
                   val == init_val
               IN  /\ done = 0 .. k - 1
                   /\ data.val[m] = CASE k = 0 -> val
                                      [] k = 1 -> val + 3
                                      [] k = 2 -> (val + 3) * 11
                                      [] k = 3 -> (val + 3) * 11 - 7
                                      [] k = 4 -> result_val
    <3> DEFINE done == {c \in 0 .. 3 :
                        data.cur[c] > m \/ (data.cur[c] = m /\ pc[c] \in {"stored", "next"})}
               k == Cardinality(done)
    <3>1. ChaserInv
      BY <2>2 DEF UserInv
    <3>2. done = {c \in 0 .. 3 : Done(c, m)}
      BY DEF Done
    <3>3. /\ done = 0 .. k - 1
          /\ k = 0 => data.val[m] = 2
          /\ k = 1 => data.val[m] = 5
          /\ k = 2 => data.val[m] = 55
          /\ k = 3 => data.val[m] = 48
          /\ k = 4 => data.val[m] = 624
          /\ k \in 0 .. 4
      BY <2>2, <3>1, <3>2, DoneAndValue
    <3>4. /\ init_val = 2 /\ init_val + 3 = 5 /\ (init_val + 3) * 11 = 55
          /\ (init_val + 3) * 11 - 7 = 48 /\ result_val = 624
      BY DEF init_val, result_val
    <3> HIDE DEF done, k
    <3>5. k = 0 \/ k = 1 \/ k = 2 \/ k = 3 \/ k = 4
      BY <3>3
    <3>6. data.val[m] = CASE k = 0 -> init_val
                          [] k = 1 -> init_val + 3
                          [] k = 2 -> (init_val + 3) * 11
                          [] k = 3 -> (init_val + 3) * 11 - 7
                          [] k = 4 -> result_val
      BY <3>3, <3>4, <3>5
    <3> QED BY <3>3, <3>6 DEF done, k
  <2>3. ASSUME Is("mutex_chaser"), data.report # << >>, NEW m \in Mutexes
        PROVE  data.report[m] <=> m # 0
    BY <2>3 DEF UserInv, ChaserInv, ReportRight
  <2>4. ASSUME Is("butterknife"), NEW t \in {0, 1}, pc[t] \in {"held", "sleep", "unlock"}
        PROVE  cur_tcb = t /\ pc[1 - t] \notin {"held", "sleep", "unlock"}
    <3>1. ButterknifeInv
      BY <2>4 DEF UserInv
    <3>2. pHolding_Tcb[0] = t
      BY <2>4, <3>1 DEF ButterknifeInv, Critical
    <3>3. cur_tcb = t
      <4>1. 0 \in Mutexes /\ t # NULL
        BY UserNumbers, Numbers
      <4> QED BY <2>1, <3>2, <4>1 DEF CommonInv, OneSetInv, MutexesOfRunning
    <3>4. 1 - t \in {0, 1} /\ 1 - t # t
      BY <2>4
    <3>5. pc[1 - t] \notin Critical
      BY <3>1, <3>2, <3>4 DEF ButterknifeInv
    <3> QED BY <3>3, <3>5 DEF Critical
  <2> QED BY <2>2, <2>3, <2>4 DEF CriticalSectionsKept
<1> QED BY <1>1, UserInvHolds, PTL

------------------------------------------------------------------------------
(* The programs on the kernel.                                               *)

\* The kernel may be asked for the task sets that the programs have.
ProgramSizes == {1, 2, 3, 4, NUM_TASK} \subseteq TaskSetSizes

\* A step of a program is a step of the kernel; only cyclone replaces its set.
LEMMA ProgramStepIsKernelStep ==
  ASSUME CommonInv, ProgramSizes, [NextUser]_<<kernel_vars, user_vars>>
  PROVE  [Next \/ (Is("cyclone") /\ Recreate)]_vars
<1>1. CASE UNCHANGED <<kernel_vars, user_vars>>
  BY <1>1 DEF kernel_vars
<1>2. CASE TickInTime
  BY <1>2 DEF TickInTime, Next, Tick
<1>3. CASE \E c \in TcbPointers : Steps(c)
  BY <1>3 DEF Steps, Next
<1>4. CASE Launches
  <2>1. task_create(SetSize[program]) /\ (cur_tcb = NULL \/ Is("cyclone"))
    BY <1>4 DEF Launches, launch
  <2>2. SetSize[program] \in TaskSetSizes
    <3>1. program \in {"mutex_chaser", "simple_mutex", "sys_err", "stress",
                       "butterknife", "cyclone", "sched_check", "dagger"}
      BY <1>4 DEF CommonInv, Places, InitialData, Launches, Is
    <3>2. /\ SetSize["mutex_chaser"] = 4 /\ SetSize["simple_mutex"] = 3
          /\ SetSize["sys_err"] = 1 /\ SetSize["stress"] = NUM_TASK
          /\ SetSize["butterknife"] = 2 /\ SetSize["cyclone"] = 1
          /\ SetSize["dagger"] = 2 /\ SetSize["sched_check"] = 3
      BY DEF SetSize
    <3> QED BY <3>1, <3>2 DEF ProgramSizes
  <2>3. CASE cur_tcb = NULL
    BY <2>1, <2>2, <2>3 DEF Next, Boot
  <2>4. CASE cur_tcb # NULL
    BY <2>1, <2>2, <2>4 DEF Recreate
  <2> QED BY <2>3, <2>4
<1> QED BY <1>1, <1>2, <1>3, <1>4, UserStepForms DEF NextUser

\* Whatever calls the test programs make, and however many of them fail, the
\* kernel sees what module Kernel lets a program do; and all of them but cyclone
\* create one task set.  The steps of cyclone end when an interrupt hits its
\* task_create.
THEOREM ProgramsRunOnKernel ==
  ASSUME ProgramSizes
  PROVE  SpecUser => Init /\ [][Next \/ (Is("cyclone") /\ Recreate)]_vars
<1>1. InitUser => Init /\ CommonInv
  BY CommonInit DEF InitUser
<1>2. CommonInv /\ [NextUser]_<<kernel_vars, user_vars>> => CommonInv'
  BY CommonStep
<1>3. CommonInv /\ [NextUser]_<<kernel_vars, user_vars>>
        => [Next \/ (Is("cyclone") /\ Recreate)]_vars
  BY ProgramStepIsKernelStep
<1> QED BY <1>1, <1>2, <1>3, PTL DEF SpecUser

\* The kernel keeps its promises to all of them: only the running task holds
\* mutexes, a task has priority 0 exactly while it holds one, and no task is lost.
\* For cyclone, whose task replaces itself, they end where an interrupt hits its
\* task_create: it finds the tasks in no queue.
THEOREM ProgramsAreProtected ==
  SpecUser => [](~Lost => HolderIsRunning /\ RaisedExactlyWhileHolding /\ NoTaskLost)
<1>1. InitUser => CommonInv
  BY CommonInit
<1>2. CommonInv /\ [NextUser]_<<kernel_vars, user_vars>> => CommonInv'
  BY CommonStep
<1>3. CommonInv => HolderIsRunning /\ RaisedExactlyWhileHolding /\ NoTaskLost
  <2> SUFFICES ASSUME OneSetInv
               PROVE  HolderIsRunning /\ RaisedExactlyWhileHolding /\ NoTaskLost
    BY DEF CommonInv
  <2>1. HolderIsRunning
    BY DEF OneSetInv, MutexesOfRunning, HolderIsRunning
  <2> QED BY <2>1, CeilingOfOneSet, TasksOfOneSet
<1> QED BY <1>1, <1>2, <1>3, PTL DEF SpecUser

\* To the programs with one task set the kernel is the abstract scheduler, wakes
\* the tasks at the events of their devices and lets only the release of a mutex
\* delay a preemption.
THEOREM ProgramsAreScheduled ==
  ASSUME SmallSets, ProgramSizes, NullIsNoDevice
  PROVE  SpecUser /\ ~Is("cyclone") =>
           ImplementsScheduler /\ OnlyUnlockDelaysPreemption /\ WokenByOwnDevice
<1> DEFINE Inv == CommonInv /\ EventsOfTasks /\ ~Is("cyclone")
<1>1. InitUser /\ ~Is("cyclone") => Inv /\ Sched!Init
  BY CommonInit, SchedulerInit DEF InitUser, Init, EventsOfTasks
<1>2. Inv /\ [NextUser]_<<kernel_vars, user_vars>> => [Next]_vars
  BY ProgramStepIsKernelStep
<1>3. Inv /\ [NextUser]_<<kernel_vars, user_vars>> => Inv'
  <2> SUFFICES ASSUME Inv, [NextUser]_<<kernel_vars, user_vars>> PROVE Inv'
    OBVIOUS
  <2>1. CommonInv' /\ program' = program
    BY CommonStep
  <2>2. EventsOfTasks'
    BY <1>2, EventsOfTasksStep DEF CommonInv
  <2> QED BY <2>1, <2>2 DEF Is
<1>4. Inv /\ Inv' /\ [Next]_vars => [Sched!Next]_Sched!vars
  BY SchedulerStep DEF CommonInv
<1>5. Inv /\ [Next]_vars =>
        [/\ RateMonotonic /\ ~RateMonotonic' =>
              \E m \in Mutexes : bLock[m] = 1 /\ bLock'[m] = 0
         /\ ~RateMonotonic /\ due' # due => RateMonotonic']_vars
  BY StepKeepsOrder DEF CommonInv
<1>6. Inv /\ [Next]_vars =>
        [\A t \in Tcbs, d \in Devices :
           event[t] = d /\ ~IsReady(t) =>
             (IsReady(t)' <=> due'[d] > due[d])]_vars
  BY StepWakes DEF CommonInv
<1> QED BY <1>1, <1>2, <1>3, <1>4, <1>5, <1>6, PTL
    DEF SpecUser, ImplementsScheduler, Sched!Spec, OnlyUnlockDelaysPreemption,
        WokenByOwnDevice
==============================================================================
