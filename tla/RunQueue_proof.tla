---------------------------- MODULE RunQueue_proof ----------------------------
(***************************************************************************)
(* The run queue with its bitmaps implements the plain one, for every      *)
(* number of priorities that config.h allows.                              *)
(***************************************************************************)
EXTENDS RunQueue, Numbers_proof

\* A search of the list that finds p at or above every other task picks its tcb.
LEMMA HighestIs ==
  ASSUME NEW list \in [Prios -> TcbPointers], NEW p \in Prios,
         list[p] # NULL, \A q \in Prios : q < p => list[q] = NULL
  PROVE  highest_prio(list) = p
<1>1. p \in Occupied(list) /\ \A q \in Occupied(list) : p <= q
  BY MaxTasksAssumption DEF Occupied, Prios
<1>2. /\ highest_prio(list) \in Occupied(list)
      /\ \A q \in Occupied(list) : highest_prio(list) <= q
  BY <1>1 DEF highest_prio
<1> QED BY <1>1, <1>2, MaxTasksAssumption DEF Occupied, Prios

\* The group and the bit of a priority, and back.
LEMMA GroupAndBit ==
  /\ \A p \in Prios : /\ p \div 8 \in Groups /\ p % 8 \in 0 .. 7
                      /\ p = 8 * (p \div 8) + (p % 8)
  /\ \A g \in Groups, b \in 0 .. 7 :
       /\ 8 * g + b \in Prios
       /\ (8 * g + b) \div 8 = g /\ (8 * g + b) % 8 = b
  /\ Groups \in SUBSET Nat
<1>1. OS_MAX_TASKS \in Nat /\ OS_MAX_TASKS % 8 = 0
  BY MaxTasksAssumption, GroupsAssumption
<1>2. \A p \in Prios : /\ p \div 8 \in Groups /\ p % 8 \in 0 .. 7
                       /\ p = 8 * (p \div 8) + (p % 8)
  BY <1>1 DEF Prios, Groups
<1>3. \A g \in Groups, b \in 0 .. 7 :
        /\ 8 * g + b \in Prios
        /\ (8 * g + b) \div 8 = g /\ (8 * g + b) % 8 = b
  BY <1>1 DEF Prios, Groups
<1> QED BY <1>2, <1>3 DEF Groups

\* The position of the lowest bit.
LEMMA LowestIs ==
  ASSUME NEW S \in SUBSET Nat, S # {}
  PROVE  Lowest(S) \in S /\ \A k \in S : Lowest(S) <= k
<1>1. \E m \in S : \A k \in S : m <= k
  BY LeastExists
<1> QED BY <1>1 DEF Lowest

------------------------------------------------------------------------------
(* The table.                                                                *)

\* A nibble is a number below 16, with the bits of the set.
LEMMA NibbleIs ==
  ASSUME NEW S, NEW i \in Nat
  PROVE  /\ Nibble(i, S) \in 0 .. 15
         /\ Nibble(i, S) = 0 <=> {i, i + 1, i + 2, i + 3} \cap S = {}
<1>1. \A j : Bit(j, S) \in {0, 1} /\ (Bit(j, S) = 1 <=> j \in S)
  BY DEF Bit
<1>2. Nibble(i, S) \in 0 .. 15
  BY <1>1 DEF Nibble
<1>3. Nibble(i, S) = 0 <=> /\ Bit(i, S) = 0 /\ Bit(i + 1, S) = 0
                           /\ Bit(i + 2, S) = 0 /\ Bit(i + 3, S) = 0
  BY <1>1 DEF Nibble
<1>4. Nibble(i, S) = 0 <=> /\ i \notin S /\ i + 1 \notin S
                           /\ i + 2 \notin S /\ i + 3 \notin S
  BY <1>1, <1>3
<1> QED BY <1>2, <1>4

\* The lowest bit of a nibble that is not 0.
LowBit(n) ==
  IF n % 2 = 1 THEN 0
  ELSE IF n % 4 = 2 THEN 1
  ELSE IF n % 8 = 4 THEN 2 ELSE 3

\* The entries of the table.
LEMMA TableRows ==
  /\ \A n \in 1 .. 15 : RowTail[n] = LowBit(n)
  /\ \A n \in 1 .. 15 : RowHeads[n + 1] = 4 + LowBit(n)
  /\ RowHeads[1] = 0
<1>1. \A n \in 1 .. 15 : RowTail[n] = LowBit(n)
  BY DEF RowTail, LowBit
<1>2. \A n \in 1 .. 15 : RowHeads[n + 1] = 4 + LowBit(n)
  BY DEF RowHeads, LowBit
<1> QED BY <1>1, <1>2 DEF RowHeads

\* It is the least member of the part of the set that the nibble stands for.
LEMMA LowBitOfNibble ==
  ASSUME NEW S, NEW i \in Nat, Nibble(i, S) # 0
  PROVE  /\ i + LowBit(Nibble(i, S)) \in S /\ LowBit(Nibble(i, S)) \in 0 .. 3
         /\ \A j \in i .. i + 3 : j \in S => i + LowBit(Nibble(i, S)) <= j
<1>1. \A j : Bit(j, S) \in {0, 1} /\ (Bit(j, S) = 1 <=> j \in S)
  BY DEF Bit
<1> DEFINE n == Nibble(i, S)
<1>2. n = Bit(i, S) + 2 * Bit(i + 1, S) + 4 * Bit(i + 2, S) + 8 * Bit(i + 3, S)
  BY DEF Nibble
<1>3. CASE i \in S
  BY <1>1, <1>2, <1>3 DEF LowBit
<1>4. CASE i \notin S /\ i + 1 \in S
  BY <1>1, <1>2, <1>4 DEF LowBit
<1>5. CASE i \notin S /\ i + 1 \notin S /\ i + 2 \in S
  BY <1>1, <1>2, <1>5 DEF LowBit
<1>6. CASE i \notin S /\ i + 1 \notin S /\ i + 2 \notin S
  <2>1. i + 3 \in S
    BY <1>1, <1>2, <1>6
  <2> QED BY <1>1, <1>2, <1>6, <2>1 DEF LowBit
<1> QED BY <1>3, <1>4, <1>5, <1>6

\* The table of run_queue.c:35-54 has the lowest bit of every byte, and 0 for
\* the byte without bits.
THEOREM TableIsLowestBit ==
  ASSUME NEW S \in SUBSET (0 .. 7)
  PROVE  lookup(S) = Lowest(S)
<1> DEFINE lo == Nibble(0, S)
           hi == Nibble(4, S)
<1>1. /\ lo \in 0 .. 15 /\ (lo = 0 <=> {0, 1, 2, 3} \cap S = {})
      /\ hi \in 0 .. 15 /\ (hi = 0 <=> {4, 5, 6, 7} \cap S = {})
  BY NibbleIs
<1>2. lookup(S) = IF lo = 0 THEN RowHeads[hi + 1] ELSE RowTail[lo]
  <2>1. Byte(S) % 16 = lo /\ Byte(S) \div 16 = hi
    BY <1>1 DEF Byte
  <2> QED BY <2>1 DEF lookup, prio_unmap_table
<1>3. ASSUME NEW k \in S, \A j \in S : k <= j PROVE Lowest(S) = k
  <2>1. Lowest(S) \in S /\ \A j \in S : Lowest(S) <= j
    BY LowestIs
  <2>2. Lowest(S) \in 0 .. 7 /\ k \in 0 .. 7
    BY <2>1
  <2>3. k <= Lowest(S) /\ Lowest(S) <= k
    BY <1>3, <2>1
  <2> QED BY <2>2, <2>3
<1>4. CASE lo # 0
  <2>1. /\ LowBit(lo) \in S /\ LowBit(lo) \in 0 .. 3
        /\ \A j \in 0 .. 3 : j \in S => LowBit(lo) <= j
    BY <1>4, LowBitOfNibble
  <2>2. \A j \in S : LowBit(lo) <= j
    BY <2>1
  <2>3. RowTail[lo] = LowBit(lo)
    BY <1>1, <1>4, TableRows
  <2> QED BY <1>2, <1>3, <1>4, <2>1, <2>2, <2>3
<1>5. CASE lo = 0 /\ hi # 0
  <2>1. /\ 4 + LowBit(hi) \in S /\ LowBit(hi) \in 0 .. 3
        /\ \A j \in 4 .. 7 : j \in S => 4 + LowBit(hi) <= j
    BY <1>5, LowBitOfNibble
  <2>2. \A j \in S : j \in 4 .. 7
    BY <1>1, <1>5
  <2>3. RowHeads[hi + 1] = 4 + LowBit(hi)
    BY <1>1, <1>5, TableRows
  <2> QED BY <1>2, <1>3, <1>5, <2>1, <2>2, <2>3
<1>6. CASE lo = 0 /\ hi = 0
  <2>1. S = {}
    BY <1>1, <1>6
  <2> QED BY <1>2, <1>6, <2>1, TableRows DEF Lowest
<1> QED BY <1>4, <1>5, <1>6

------------------------------------------------------------------------------
(* The bits and the list.                                                    *)

BitsInv == RunQueueTypeOK /\ BitsMatchList

\* Two priorities with the same group and the same bit are the same.
LEMMA SamePlace ==
  ASSUME NEW p \in Prios, NEW q \in Prios,
         p \div 8 = q \div 8, p % 8 = q % 8
  PROVE  p = q
<1>1. p = 8 * (p \div 8) + (p % 8) /\ q = 8 * (q \div 8) + (q % 8)
  BY GroupAndBit
<1> QED BY <1>1

LEMMA BitsInvInit == RunQueueInit => BitsInv
<1> SUFFICES ASSUME RunQueueInit PROVE BitsInv
  OBVIOUS
<1>1. 0 \in Prios
  BY MaxTasksAssumption DEF Prios
<1>2. RunQueueTypeOK
  BY <1>1 DEF RunQueueInit, RunQueueTypeOK, EmptyList, TcbPointers
<1>3. BitsMatchList
  BY GroupAndBit DEF RunQueueInit, BitsMatchList, EmptyList
<1> QED BY <1>2, <1>3 DEF BitsInv

\* What enqueuing, removing and clearing do to list and bits.
LEMMA BitsInvAdd ==
  ASSUME BitsInv, NEW t \in Tcbs, NEW prio \in Prios, runqueue_add(t, prio)
  PROVE  BitsInv'
<1> USE DEF BitsInv
<1>1. prio \div 8 \in Groups /\ prio % 8 \in 0 .. 7 /\ t \in TcbPointers /\ t # NULL
  BY GroupAndBit, NullAssumption DEF TcbPointers, Tcbs, Prios
<1>2. RunQueueTypeOK'
  BY <1>1 DEF runqueue_add, group_of, RunQueueTypeOK
<1>3. /\ \A p \in Prios : run_list'[p] = IF p = prio THEN t ELSE run_list[p]
      /\ \A g \in Groups : run_bits'[g] =
           IF g = prio \div 8 THEN run_bits[g] \cup {prio % 8} ELSE run_bits[g]
      /\ group_run_bits' = group_run_bits \cup {prio \div 8}
  BY <1>1 DEF runqueue_add, group_of, RunQueueTypeOK
<1>4. ASSUME NEW p \in Prios
      PROVE  p % 8 \in run_bits'[p \div 8] <=> run_list'[p] # NULL
  <2>1. p \div 8 \in Groups
    BY GroupAndBit
  <2>2. CASE p = prio
    BY <1>1, <1>3, <2>1, <2>2
  <2>3. CASE p # prio
    <3>1. ~(p \div 8 = prio \div 8 /\ p % 8 = prio % 8)
      BY <2>3, SamePlace
    <3>2. p % 8 \in run_bits[p \div 8] <=> run_list[p] # NULL
      BY DEF BitsMatchList
    <3>3. p % 8 \in run_bits'[p \div 8] <=> p % 8 \in run_bits[p \div 8]
      BY <1>3, <2>1, <3>1
    <3> QED BY <1>3, <2>3, <3>2, <3>3
  <2> QED BY <2>2, <2>3
<1>5. ASSUME NEW g \in Groups
      PROVE  g \in group_run_bits' <=> run_bits'[g] # {}
  BY <1>1, <1>3 DEF BitsMatchList
<1> QED BY <1>2, <1>4, <1>5 DEF BitsMatchList

LEMMA BitsInvRemove ==
  ASSUME BitsInv, NEW prio \in Prios, runqueue_remove(prio)
  PROVE  BitsInv'
<1> USE DEF BitsInv
<1>1. prio \div 8 \in Groups /\ prio % 8 \in 0 .. 7 /\ NULL \in TcbPointers
  BY GroupAndBit DEF TcbPointers
<1>2. RunQueueTypeOK'
  BY <1>1 DEF runqueue_remove, RunQueueTypeOK, tcb_vars
<1>3. /\ \A p \in Prios : run_list'[p] = IF p = prio THEN NULL ELSE run_list[p]
      /\ \A g \in Groups : run_bits'[g] =
           IF g = prio \div 8 THEN run_bits[g] \ {prio % 8} ELSE run_bits[g]
      /\ group_run_bits' = group_run_bits \ Emptied(prio)
  BY <1>1 DEF runqueue_remove, RunQueueTypeOK
<1>4. ASSUME NEW p \in Prios
      PROVE  p % 8 \in run_bits'[p \div 8] <=> run_list'[p] # NULL
  <2>1. p \div 8 \in Groups
    BY GroupAndBit
  <2>2. CASE p = prio
    BY <1>1, <1>3, <2>1, <2>2
  <2>3. CASE p # prio
    <3>1. ~(p \div 8 = prio \div 8 /\ p % 8 = prio % 8)
      BY <2>3, SamePlace
    <3>2. p % 8 \in run_bits[p \div 8] <=> run_list[p] # NULL
      BY DEF BitsMatchList
    <3>3. p % 8 \in run_bits'[p \div 8] <=> p % 8 \in run_bits[p \div 8]
      BY <1>3, <2>1, <3>1
    <3> QED BY <1>3, <2>3, <3>2, <3>3
  <2> QED BY <2>2, <2>3
<1>5. ASSUME NEW g \in Groups
      PROVE  g \in group_run_bits' <=> run_bits'[g] # {}
  <2>1. g \in group_run_bits <=> run_bits[g] # {}
    BY DEF BitsMatchList
  <2>2. CASE g = prio \div 8
    BY <1>1, <1>3, <2>1, <2>2 DEF Emptied
  <2>3. CASE g # prio \div 8
    BY <1>3, <2>1, <2>3 DEF Emptied
  <2> QED BY <2>2, <2>3
<1> QED BY <1>2, <1>4, <1>5 DEF BitsMatchList

\* What the two lookups of a search find.
LEMMA SearchIs ==
  ASSUME RunQueueTypeOK, group_run_bits # {}
  PROVE  search = 8 * Lowest(group_run_bits) + Lowest(run_bits[Lowest(group_run_bits)])
<1>1. group_run_bits \in SUBSET (0 .. 7)
  BY MaxTasksAssumption, GroupsAssumption DEF RunQueueTypeOK, Groups
<1>2. Lowest(group_run_bits) \in Groups
  BY LowestIs, GroupAndBit DEF RunQueueTypeOK
<1>3. run_bits[Lowest(group_run_bits)] \in SUBSET (0 .. 7)
  BY <1>2 DEF RunQueueTypeOK
<1> QED BY <1>1, <1>3, TableIsLowestBit DEF search

LEMMA BitsInvStep == BitsInv /\ [RunQueueNext]_run_queue_vars => BitsInv'
<1> SUFFICES ASSUME BitsInv, [RunQueueNext]_run_queue_vars PROVE BitsInv'
  OBVIOUS
<1> USE DEF BitsInv
<1>0. UsedPrios \subseteq Prios
  BY GroupsAssumption
<1>1. CASE runqueue_init
  <2>1. RunQueueTypeOK'
    BY <1>1 DEF runqueue_init, RunQueueTypeOK, EmptyList, TcbPointers, tcb_vars
  <2>2. BitsMatchList'
    BY <1>1, GroupAndBit DEF runqueue_init, BitsMatchList, EmptyList
  <2> QED BY <2>1, <2>2
<1>2. ASSUME NEW prio \in UsedPrios, runqueue_remove(prio) PROVE BitsInv'
  BY <1>0, <1>2, BitsInvRemove
<1>3. ASSUME NEW prio \in UsedPrios \ {0},
             NEW p \in {prio, 0},
             runqueue_add(IF prio = IDLE_PRIO THEN IDLE_PRIO ELSE prio - 1, p)
      PROVE  BitsInv'
  <2>1. (IF prio = IDLE_PRIO THEN IDLE_PRIO ELSE prio - 1) \in Tcbs /\ p \in Prios
    BY <1>0, MaxTasksAssumption DEF Prios, Tcbs, IDLE_PRIO
  <2> QED BY <1>3, <2>1, BitsInvAdd
<1>4. CASE find_highest_tcb
  <2>1. search \in Prios
    <3>1. CASE group_run_bits = {}
      BY <3>1, MaxTasksAssumption DEF search, IDLE_PRIO, Prios
    <3>2. CASE group_run_bits # {}
      <4>1. Lowest(group_run_bits) \in Groups /\ Lowest(group_run_bits) \in group_run_bits
        BY <3>2, LowestIs, GroupAndBit DEF RunQueueTypeOK
      <4>2. run_bits[Lowest(group_run_bits)] \in SUBSET (0 .. 7)
        BY <4>1 DEF RunQueueTypeOK
      <4>3. Lowest(run_bits[Lowest(group_run_bits)]) \in 0 .. 7
        <5>1. run_bits[Lowest(group_run_bits)] # {}
          BY <4>1 DEF BitsMatchList
        <5> QED BY <4>2, <5>1, LowestIs
      <4> QED BY <3>2, <4>1, <4>3, GroupAndBit, SearchIs
    <3> QED BY <3>1, <3>2
  <2>2. RunQueueTypeOK'
    BY <1>4, <2>1 DEF find_highest_tcb, RunQueueTypeOK, bit_vars, tcb_vars
  <2>3. BitsMatchList'
    BY <1>4 DEF find_highest_tcb, BitsMatchList, bit_vars
  <2> QED BY <2>2, <2>3
<1>5. CASE UNCHANGED run_queue_vars
  BY <1>5 DEF run_queue_vars, bit_vars, tcb_vars, RunQueueTypeOK, BitsMatchList
<1> QED BY <1>1, <1>2, <1>3, <1>4, <1>5 DEF RunQueueNext

\* The search of the bits finds the slot that the search of the list finds.
LEMMA SearchIsHighest ==
  ASSUME BitsInv
  PROVE  search = highest_prio(run_list)
<1> USE DEF BitsInv
<1> DEFINE g == Lowest(group_run_bits)
           b == Lowest(run_bits[g])
<1>0. run_list \in [Prios -> TcbPointers]
  BY DEF RunQueueTypeOK
<1>1. CASE group_run_bits = {}
  <2>1. Occupied(run_list) = {}
    BY <1>1, GroupAndBit DEF BitsMatchList, Occupied
  <2> QED BY <1>1, <2>1 DEF search, highest_prio
<1>2. CASE group_run_bits # {}
  <2>1. /\ g \in group_run_bits /\ g \in Groups
        /\ \A k \in group_run_bits : g <= k
    BY <1>2, LowestIs, GroupAndBit DEF RunQueueTypeOK
  <2>2. run_bits[g] # {} /\ run_bits[g] \in SUBSET (0 .. 7)
    BY <2>1 DEF BitsMatchList, RunQueueTypeOK
  <2>3. b \in run_bits[g] /\ b \in 0 .. 7 /\ \A k \in run_bits[g] : b <= k
    BY <2>2, LowestIs
  <2>4. /\ search = 8 * g + b /\ search \in Prios
        /\ search \div 8 = g /\ search % 8 = b
    BY <1>2, <2>1, <2>3, GroupAndBit, SearchIs
  <2>5. run_list[search] # NULL
    BY <2>3, <2>4 DEF BitsMatchList
  <2>6. ASSUME NEW q \in Prios, q < search PROVE run_list[q] = NULL
    <3>1. SUFFICES ASSUME run_list[q] # NULL PROVE FALSE
      OBVIOUS
    <3>2. /\ q \div 8 \in Groups /\ q % 8 \in 0 .. 7
          /\ q = 8 * (q \div 8) + (q % 8)
      BY GroupAndBit
    <3>3. q % 8 \in run_bits[q \div 8] /\ q \div 8 \in group_run_bits
      BY <3>1, <3>2 DEF BitsMatchList
    <3>4. g <= q \div 8
      BY <2>1, <3>3
    <3>5. q \div 8 = g => b <= q % 8
      BY <2>3, <3>3
    <3>6. g \in Nat /\ b \in 0 .. 7 /\ q \div 8 \in Nat
      BY <2>1, <2>3, <3>2, GroupAndBit
    <3> HIDE DEF g, b
    <3>7. 8 * g + b <= 8 * (q \div 8) + (q % 8)
      BY <3>2, <3>4, <3>5, <3>6
    <3> QED BY <2>4, <2>6, <3>2, <3>7 DEF Prios
  <2> QED BY <1>0, <2>4, <2>5, <2>6, HighestIs
<1> QED BY <1>1, <1>2

\* The bits always match the list (run_queue.c:20-30).
THEOREM BitsAlwaysMatch == RunQueueSpec => []BitsMatchList
<1>1. RunQueueInit => BitsInv
  BY BitsInvInit
<1>2. BitsInv /\ [RunQueueNext]_run_queue_vars => BitsInv'
  BY BitsInvStep
<1>3. BitsInv => BitsMatchList
  BY DEF BitsInv
<1> QED BY <1>1, <1>2, <1>3, PTL DEF RunQueueSpec

\* ReadyQueue reads the run queue with definitions of its own.
LEMMA SameList ==
  /\ Ready!Prios = Prios /\ Ready!Tcbs = Tcbs
  /\ Ready!EmptyList = EmptyList
  /\ Ready!highest_tcb(run_list) = highest_tcb(run_list)
<1>1. Ready!Prios = Prios /\ Ready!Tcbs = Tcbs /\ Ready!IDLE_PRIO = IDLE_PRIO
  BY DEF Ready!Prios, Prios, Ready!Tcbs, Tcbs, Ready!IDLE_PRIO, IDLE_PRIO
<1>2. Ready!EmptyList = EmptyList
  BY <1>1 DEF Ready!EmptyList, EmptyList
<1>3. Ready!Occupied(run_list) = Occupied(run_list)
  BY <1>1 DEF Ready!Occupied, Occupied
<1>4. Ready!highest_prio(run_list) = highest_prio(run_list)
  BY <1>1, <1>3 DEF Ready!highest_prio, highest_prio
<1>5. Ready!highest_tcb(run_list) = highest_tcb(run_list)
  BY <1>4 DEF Ready!highest_tcb, highest_tcb
<1> QED BY <1>1, <1>2, <1>5

\* The dispatcher, which looks for the task to run in the bitmaps, gets the
\* highest ready task: run_queue.c implements ReadyQueue.
THEOREM Implementation == RunQueueSpec => ImplementsReadyQueue
<1>1. RunQueueInit => Ready!Init
  BY SameList DEF RunQueueInit, Ready!Init
<1>2. BitsInv /\ [RunQueueNext]_run_queue_vars => [Ready!Next]_Ready!vars
  <2> SUFFICES ASSUME BitsInv, [RunQueueNext]_run_queue_vars PROVE [Ready!Next]_Ready!vars
    OBVIOUS
  <2>0. UsedPrios \subseteq Prios
    BY GroupsAssumption
  <2>1. CASE runqueue_init
    BY <2>1, SameList DEF runqueue_init, Ready!Next, Ready!Clear
  <2>2. ASSUME NEW prio \in UsedPrios, runqueue_remove(prio)
        PROVE  Ready!Next
    BY <2>0, <2>2, SameList DEF runqueue_remove, Ready!Next, Ready!Remove
  <2>3. ASSUME NEW prio \in UsedPrios \ {0}, NEW p \in {prio, 0},
               runqueue_add(IF prio = IDLE_PRIO THEN IDLE_PRIO ELSE prio - 1, p)
        PROVE  Ready!Next
    <3>1. (IF prio = IDLE_PRIO THEN IDLE_PRIO ELSE prio - 1) \in Tcbs /\ p \in Prios
      BY <2>0, MaxTasksAssumption DEF Prios, Tcbs, IDLE_PRIO
    <3> QED BY <2>3, <3>1, SameList DEF runqueue_add, Ready!Next, Ready!Add
  <2>4. CASE find_highest_tcb
    BY <2>4, SearchIsHighest, SameList
    DEF find_highest_tcb, highest_tcb, Ready!Next, Ready!Query
  <2>5. CASE UNCHANGED run_queue_vars
    BY <2>5 DEF run_queue_vars, Ready!vars
  <2> QED BY <2>1, <2>2, <2>3, <2>4, <2>5 DEF RunQueueNext
<1>3. RunQueueInit => BitsInv
  BY BitsInvInit
<1>4. BitsInv /\ [RunQueueNext]_run_queue_vars => BitsInv'
  BY BitsInvStep
<1> QED BY <1>1, <1>2, <1>3, <1>4, PTL
    DEF RunQueueSpec, ImplementsReadyQueue, Ready!Spec
==============================================================================
