----------------------------- MODULE SwiPath_proof -----------------------------
(***************************************************************************)
(* Proofs about SwiPath, for any set of tasks.  The invariant describes    *)
(* the frames on every kernel stack by the point where the task is or      *)
(* resumes.                                                                *)
(***************************************************************************)
EXTENDS SwiPath, SequenceTheorems, TLAPS

AnyFrame == SwiFrames \cup IrqFrames
InCall == {"body", "exit", "spsr_loaded"}

\* s is the kernel stack of task t at point p.
Shape(t, p, s) ==
  /\ p \in UserPoints => s = << >>
  /\ p \in InCall \cup {"waiting"} => Len(s) = 1 /\ s[1] \in SwiFrames
  /\ p = "waiting" => s[1].point = "stub"
  /\ p \in {"irq", "irq_return"} =>
       \/ /\ Len(s) = 1 /\ s[1] \in IrqFrames
          /\ s[1].point \in UserPoints
          /\ s[1].point = "user" => s[1].usp = t
       \/ /\ Len(s) = 2 /\ s[1] \in SwiFrames /\ s[2] \in IrqFrames
          /\ s[2].point \in InCall
          /\ s[1].point = "user" => s[2].usp = t

\* The idle task makes no calls and starts anew each time.
IdleShape ==
  /\ context[Idle] = "launch"
  /\ cur = Idle => at \in UserPoints \cup {"irq"}
  /\ Len(kstack[Idle]) <= 1
  /\ Len(kstack[Idle]) = 1 => kstack[Idle][1].point \in UserPoints

Unmasked ==
  /\ ~spsr.masked
  /\ \A t \in AllTasks : \A i \in 1 .. Len(kstack[t]) : ~kstack[t][i].psr.masked

UserStack ==
  /\ at = "user" => usp = cur
  /\ at \in InCall /\ kstack[cur][1].point = "user" => usp = cur

HandlerMasked == at \in {"waiting", "irq", "irq_return"} => masked

Inv ==
  /\ TypeOK
  /\ Shape(cur, at, kstack[cur])
  /\ \A t \in Tasks : t # cur => Shape(t, context[t], kstack[t])
  /\ IdleShape
  /\ Unmasked
  /\ InterruptsOnInUser
  /\ HandlerMasked
  /\ UserStack

------------------------------------------------------------------------------
(* Lemmas about stacks.                                                      *)

\* A pushed frame is on top of those that were there.
LEMMA PushFacts ==
  ASSUME NEW S, NEW s \in Seq(S), NEW f \in S
  PROVE  /\ Append(s, f) \in Seq(S)
         /\ Len(Append(s, f)) = Len(s) + 1
         /\ Append(s, f)[Len(s) + 1] = f
         /\ \A i \in 1 .. Len(s) : Append(s, f)[i] = s[i]
  OBVIOUS

\* A pop leaves the frames below.
LEMMA PopFacts ==
  ASSUME NEW S, NEW s \in Seq(S), Len(s) > 0
  PROVE  /\ SubSeq(s, 1, Len(s) - 1) \in Seq(S)
         /\ Len(SubSeq(s, 1, Len(s) - 1)) = Len(s) - 1
         /\ \A i \in 1 .. Len(s) - 1 : SubSeq(s, 1, Len(s) - 1)[i] = s[i]
<1>1. \A i \in 1 .. Len(s) - 1 : s[i] \in S
  OBVIOUS
<1>2. Len(s) \in Nat
  OBVIOUS
<1> DEFINE n == Len(s) - 1
           r == SubSeq(s, 1, n)
<1>3. n \in Nat
  BY <1>2
<1>4. /\ r \in Seq(S)
      /\ Len(r) = IF 1 <= n THEN n - 1 + 1 ELSE 0
      /\ \A i \in 1 .. n - 1 + 1 : r[i] = s[1 + i - 1]
  <2> HIDE DEF n
  <2> QED
    BY <1>1, <1>3, SubSeqProperties DEF n
<1>5. Len(r) = n
  <2> HIDE DEF n, r
  <2> QED
    BY <1>3, <1>4
<1>6. ASSUME NEW i \in 1 .. n PROVE r[i] = s[i]
  <2>1. 1 + i - 1 = i /\ i \in 1 .. n - 1 + 1
    BY <1>3
  <2> HIDE DEF n, r
  <2> QED
    BY <1>4, <2>1
<1> QED
  BY <1>4, <1>5, <1>6

\* The empty stack.
LEMMA EmptyStack ==
  ASSUME NEW S
  PROVE  /\ << >> \in Seq(S) /\ Len(<< >>) = 0
         /\ \A s \in Seq(S) : Len(s) = 0 <=> s = << >>
  OBVIOUS

\* The fields of a frame.
LEMMA FrameFields ==
  /\ \A f \in AnyFrame : /\ f.psr \in Psr /\ f.point \in Points
                         /\ f.psr.mode \in {"usr", "svc"}
                         /\ f.psr.masked \in BOOLEAN
  /\ \A f \in IrqFrames : f.usp \in AllTasks
  /\ \A f \in SwiFrames : f.point \in {"user", "stub"}
  BY DEF AnyFrame, SwiFrames, IrqFrames, Psr, Points, UserPoints, KernelPoints

\* A frame of either kind has the fields that it was made of.
LEMMA NewFrames ==
  ASSUME NEW psr \in Psr
  PROVE  /\ \A point \in {"user", "stub"} :
              LET f == [psr |-> psr, point |-> point]
              IN  f \in SwiFrames /\ f.psr = psr /\ f.point = point
         /\ \A point \in Points, u \in AllTasks :
              LET f == [psr |-> psr, point |-> point, usp |-> u]
              IN  f \in IrqFrames /\ f.psr = psr /\ f.point = point /\ f.usp = u
  BY DEF SwiFrames, IrqFrames

------------------------------------------------------------------------------
(* The invariant is inductive.                                               *)

\* The first task is about to be launched and all kernel stacks are empty.
LEMMA InitInv ==
  Init => Inv
<1> SUFFICES ASSUME Init PROVE Inv
  OBVIOUS
<1>1. TypeOK
  <2>1. kstack \in [AllTasks -> Seq(AnyFrame)]
    BY EmptyStack DEF Init
  <2> QED
    BY <2>1 DEF Init, TypeOK, AnyFrame, AllTasks, Points, UserPoints, Psr
<1>2. \A t \in AllTasks : kstack[t] = << >> /\ Len(kstack[t]) = 0
  BY EmptyStack DEF Init
<1>3. \A t \in AllTasks : Shape(t, "launch", kstack[t])
  BY <1>2 DEF Shape, UserPoints, InCall
<1>4. cur \in Tasks /\ cur # Idle /\ at = "launch"
  BY IdleAssumption DEF Init
<1>5. IdleShape
  BY <1>2, <1>4 DEF IdleShape, AllTasks, Init
<1>6. Unmasked
  BY <1>2 DEF Unmasked, Init
<1> QED
  BY <1>1, <1>3, <1>4, <1>5, <1>6
  DEF Inv, Init, AllTasks, InterruptsOnInUser, HandlerMasked, UserStack, InCall

\* Stacks are sequences of frames.
LEMMA StackTypes ==
  ASSUME TypeOK, NEW t \in AllTasks
  PROVE  /\ kstack[t] \in Seq(AnyFrame) /\ Len(kstack[t]) \in Nat
         /\ \A i \in 1 .. Len(kstack[t]) : kstack[t][i] \in AnyFrame
  BY DEF TypeOK, AnyFrame

\* A step that leaves the stacks, the contexts and the running task alone.
LEMMA QuietStep ==
  ASSUME Inv, UNCHANGED <<cur, kstack, context>>, ready' \in SUBSET Tasks,
         at' \in Points, mode' \in {"usr", "svc"}, masked' \in BOOLEAN,
         spsr' \in Psr, ~spsr'.masked, usp' \in AllTasks,
         Shape(cur, at', kstack[cur]),
         cur = Idle => at' \in UserPoints \cup {"irq"},
         InterruptsOnInUser', HandlerMasked', UserStack'
  PROVE  Inv'
<1>1. TypeOK'
  BY DEF Inv, TypeOK
<1>2. IdleShape'
  BY DEF Inv, IdleShape
<1>3. Unmasked'
  BY DEF Inv, Unmasked
<1>4. \A t \in Tasks : t # cur => Shape(t, context'[t], kstack'[t])
  BY DEF Inv
<1> QED
  BY <1>1, <1>2, <1>3, <1>4 DEF Inv

\* What the running task's shape says of the task in a call.
LEMMA InCallFacts ==
  ASSUME Inv, at \in InCall \cup {"waiting"}
  PROVE  /\ cur \in Tasks
         /\ Len(kstack[cur]) = 1 /\ kstack[cur][1] \in SwiFrames
         /\ Top(cur) = kstack[cur][1]
         /\ Top(cur).psr \in Psr /\ ~Top(cur).psr.masked
         /\ Top(cur).point \in {"user", "stub"}
<1>1. cur \in Tasks
  BY DEF Inv, IdleShape, TypeOK, AllTasks, InCall, UserPoints
<1>2. Len(kstack[cur]) = 1 /\ kstack[cur][1] \in SwiFrames
  BY DEF Inv, Shape
<1>3. Top(cur) = kstack[cur][1]
  BY <1>2 DEF Top
<1>4. ~kstack[cur][1].psr.masked
  BY <1>1, <1>2 DEF Inv, Unmasked, AllTasks
<1> QED
  BY <1>1, <1>2, <1>3, <1>4, FrameFields DEF AnyFrame

LEMMA UserCodeInv ==
  ASSUME Inv, UserCode
  PROVE  Inv'
<1>1. at \in UserPoints /\ at' = "user" /\ usp' = cur
      /\ UNCHANGED <<cur, mode, masked, spsr, kstack, context, ready>>
  BY DEF UserCode, launch_task, event_wait_stub, UserPoints
<1>2. kstack[cur] = << >> /\ Shape(cur, at', kstack[cur])
  BY <1>1 DEF Inv, Shape, UserPoints, InCall
<1>3. UserStack' /\ InterruptsOnInUser' /\ HandlerMasked'
  BY <1>1 DEF Inv, UserStack, InCall, InterruptsOnInUser, HandlerMasked, UserPoints
<1> QED
  BY <1>1, <1>2, <1>3, QuietStep
  DEF Inv, TypeOK, Unmasked, Points, UserPoints

LEMMA CallBodyInv ==
  ASSUME Inv, c_swi_handler \/ event_wait_return \/ swi_load_spsr
  PROVE  Inv'
<1>1. at \in {"body", "waiting", "exit"} /\ at' \in {"exit", "spsr_loaded"}
      /\ UNCHANGED <<cur, mode, usp, kstack, context, ready>>
  BY DEF c_swi_handler, event_wait_return, swi_load_spsr
<1>2. masked' \in BOOLEAN
  BY DEF c_swi_handler, event_wait_return, swi_load_spsr, Inv, TypeOK
<1>3. spsr' \in Psr /\ ~spsr'.masked
  <2>1. CASE swi_load_spsr
    BY <2>1, <1>1, InCallFacts DEF swi_load_spsr, InCall
  <2>2. CASE UNCHANGED spsr
    BY <2>2 DEF Inv, TypeOK, Unmasked
  <2> QED
    BY <2>1, <2>2 DEF c_swi_handler, event_wait_return
<1>4. Shape(cur, at', kstack[cur])
  BY <1>1, InCallFacts DEF Shape, UserPoints, InCall
<1>5. UserStack'
  BY <1>1 DEF Inv, UserStack, InCall, Shape
<1> QED
  BY <1>1, <1>2, <1>3, <1>4, <1>5, InCallFacts, QuietStep, IdleAssumption
  DEF Inv, TypeOK, Points, UserPoints, KernelPoints, InCall, InterruptsOnInUser,
      HandlerMasked

\* The task's frames change and no other task's.
LEMMA FrameStep ==
  ASSUME Inv, UNCHANGED <<cur, context, ready>>,
         NEW s \in Seq(AnyFrame), kstack' = [kstack EXCEPT ![cur] = s],
         \A i \in 1 .. Len(s) : ~s[i].psr.masked,
         at' \in Points, mode' \in {"usr", "svc"}, masked' \in BOOLEAN,
         spsr' \in Psr, ~spsr'.masked, usp' \in AllTasks,
         Shape(cur, at', s),
         cur = Idle => /\ at' \in UserPoints \cup {"irq"}
                       /\ Len(s) <= 1
                       /\ Len(s) = 1 => s[1].point \in UserPoints,
         InterruptsOnInUser', HandlerMasked',
         at' = "user" => usp' = cur,
         at' \in InCall /\ s[1].point = "user" => usp' = cur
  PROVE  Inv'
<1> cur \in AllTasks /\ kstack \in [AllTasks -> Seq(AnyFrame)]
  BY DEF Inv, TypeOK, AnyFrame
<1>1. /\ kstack'[cur] = s
      /\ \A t \in AllTasks : t # cur => kstack'[t] = kstack[t]
  OBVIOUS
<1>2. TypeOK'
  <2>1. kstack' \in [AllTasks -> Seq(AnyFrame)]
    OBVIOUS
  <2> QED
    BY <2>1 DEF Inv, TypeOK, AnyFrame
<1>3. IdleShape'
  BY <1>1 DEF Inv, IdleShape, AllTasks
<1>4. Unmasked'
  BY <1>1 DEF Inv, Unmasked
<1>5. \A t \in Tasks : t # cur => Shape(t, context'[t], kstack'[t])
  BY <1>1 DEF Inv, AllTasks
<1>6. UserStack'
  BY <1>1 DEF UserStack
<1> QED
  BY <1>1, <1>2, <1>3, <1>4, <1>5, <1>6 DEF Inv

LEMMA SwiHandlerInv ==
  ASSUME Inv, swi_handler
  PROVE  Inv'
<1> PICK point \in {"user", "stub"} :
       kstack' = [kstack EXCEPT ![cur] = Append(@, [psr |-> cpsr, point |-> point])]
  BY DEF swi_handler, Push
<1> DEFINE f == [psr |-> cpsr, point |-> point]
           s == Append(kstack[cur], f)
<1>1. cur \in AllTasks /\ kstack[cur] = << >> /\ cur # Idle /\ usp = cur
  BY DEF swi_handler, Inv, TypeOK, Shape, UserPoints, UserStack
<1>2. cpsr \in Psr /\ ~cpsr.masked
  BY DEF swi_handler, Inv, TypeOK, cpsr, Psr, InterruptsOnInUser, UserPoints
<1>3. f \in SwiFrames /\ f.psr = cpsr /\ f \in AnyFrame
  BY <1>2, NewFrames DEF AnyFrame
<1>4. s \in Seq(AnyFrame) /\ Len(s) = 1 /\ s[1] = f
  <2> HIDE DEF f
  <2> QED
    BY <1>1, <1>3, PushFacts, EmptyStack
<1>5. kstack' = [kstack EXCEPT ![cur] = s]
  BY <1>1 DEF Inv, TypeOK
<1>6. \A i \in 1 .. Len(s) : ~s[i].psr.masked
  <2> HIDE DEF s, f
  <2> QED
    BY <1>2, <1>3, <1>4
<1>7. Shape(cur, "body", s)
  <2> HIDE DEF s, f
  <2> QED
    BY <1>3, <1>4 DEF Shape, UserPoints, InCall
<1>8. at' = "body" /\ mode' = "svc" /\ masked' = FALSE /\ spsr' = cpsr
      /\ UNCHANGED <<cur, usp, context, ready>>
  BY DEF swi_handler
<1> HIDE DEF s, f
<1> QED
  BY <1>1, <1>2, <1>4, <1>5, <1>6, <1>7, <1>8, FrameStep
  DEF Points, KernelPoints, UserPoints, InterruptsOnInUser, HandlerMasked

LEMMA SwiReturnInv ==
  ASSUME Inv, swi_return
  PROVE  Inv'
<1> DEFINE s == SubSeq(kstack[cur], 1, Len(kstack[cur]) - 1)
<1>1. /\ cur \in Tasks /\ cur \in AllTasks /\ cur # Idle
      /\ Len(kstack[cur]) = 1
      /\ Top(cur) = kstack[cur][1] /\ Top(cur).point \in {"user", "stub"}
  BY InCallFacts, IdleAssumption DEF swi_return, InCall, AllTasks
<1>2. s \in Seq(AnyFrame) /\ Len(s) = 0
  BY <1>1, StackTypes, PopFacts DEF Inv
<1>3. s = << >>
  <2> HIDE DEF s
  <2> QED
    BY <1>2, EmptyStack
<1>4. kstack' = [kstack EXCEPT ![cur] = s]
  BY <1>1 DEF swi_return, Pop, Inv, TypeOK
<1>5. /\ at' = Top(cur).point
      /\ mode' = spsr.mode /\ masked' = spsr.masked
      /\ UNCHANGED <<cur, spsr, usp, context, ready>>
  BY DEF swi_return
<1>6. at' \in {"user", "stub"} /\ at' \in UserPoints /\ at' \in Points
  BY <1>1, <1>5 DEF UserPoints, Points
<1>7. /\ mode' \in {"usr", "svc"} /\ masked' \in BOOLEAN /\ ~masked'
      /\ spsr' \in Psr /\ ~spsr'.masked
  BY <1>5 DEF Inv, TypeOK, Psr, Unmasked
<1>8. at' = "user" => usp' = cur
  BY <1>1, <1>5 DEF Inv, UserStack, InCall, swi_return
<1>9. Shape(cur, at', s)
  BY <1>3, <1>6 DEF Shape, InCall, UserPoints
<1>10. UNCHANGED <<cur, context, ready>> /\ usp' \in AllTasks
  BY <1>5 DEF Inv, TypeOK
<1>11. InterruptsOnInUser' /\ HandlerMasked' /\ at' \notin InCall
  BY <1>6, <1>7 DEF InterruptsOnInUser, HandlerMasked, InCall
<1>12. \A i \in 1 .. Len(s) : ~s[i].psr.masked
  BY <1>2
<1> HIDE DEF s
<1> QED
  BY <1>1, <1>2, <1>4, <1>6, <1>7, <1>8, <1>9, <1>10, <1>11, <1>12, FrameStep

LEMMA IrqWrapperInv ==
  ASSUME Inv, irq_wrapper
  PROVE  Inv'
<1> DEFINE f == [psr |-> cpsr, point |-> at, usp |-> usp]
           s == Append(kstack[cur], f)
<1>1. /\ cur \in AllTasks /\ at \in Points /\ usp \in AllTasks
      /\ at \in UserPoints \cup InCall
  BY DEF irq_wrapper, Inv, TypeOK, HandlerMasked, Points, KernelPoints, InCall
<1>2. cpsr \in Psr /\ ~cpsr.masked
  BY DEF irq_wrapper, Inv, TypeOK, cpsr, Psr
<1>3. /\ f \in IrqFrames /\ f \in AnyFrame
      /\ f.psr = cpsr /\ f.point = at /\ f.usp = usp
  BY <1>1, <1>2, NewFrames DEF AnyFrame
<1>4. /\ s \in Seq(AnyFrame) /\ Len(s) = Len(kstack[cur]) + 1
      /\ s[Len(kstack[cur]) + 1] = f
      /\ \A i \in 1 .. Len(kstack[cur]) : s[i] = kstack[cur][i]
  <2> HIDE DEF f
  <2> QED
    BY <1>1, <1>3, PushFacts, StackTypes DEF Inv
<1>5. kstack' = [kstack EXCEPT ![cur] = s]
  BY <1>1 DEF irq_wrapper, Push, Inv, TypeOK
<1>6. \A i \in 1 .. Len(s) : ~s[i].psr.masked
  <2> HIDE DEF s, f
  <2> QED
    BY <1>1, <1>2, <1>3, <1>4, StackTypes DEF Inv, Unmasked
<1>7. at' = "irq" /\ mode' = "svc" /\ masked' = TRUE /\ spsr' = cpsr
      /\ UNCHANGED <<cur, usp, context, ready>>
  BY DEF irq_wrapper
<1>8. CASE at \in UserPoints
  <2>1. Len(kstack[cur]) = 0 /\ (at = "user" => usp = cur)
    BY <1>8, EmptyStack DEF Inv, Shape, UserStack
  <2>2. Len(s) = 1 /\ s[1] = f
    BY <1>4, <2>1
  <2>3. Shape(cur, "irq", s)
    <3> HIDE DEF s, f
    <3> QED
      BY <1>3, <1>8, <2>1, <2>2 DEF Shape, UserPoints, InCall
  <2>4. Len(s) <= 1 /\ s[1].point \in UserPoints
    <3> HIDE DEF s, f
    <3> QED
      BY <1>3, <1>8, <2>2
  <2> HIDE DEF s, f
  <2> QED
    BY <1>1, <1>2, <1>4, <1>5, <1>6, <1>7, <2>3, <2>4, FrameStep
    DEF Points, KernelPoints, UserPoints, InterruptsOnInUser, HandlerMasked, InCall
<1>9. CASE at \in InCall
  <2>1. /\ cur # Idle /\ Len(kstack[cur]) = 1 /\ kstack[cur][1] \in SwiFrames
        /\ kstack[cur][1].point = "user" => usp = cur
    BY <1>9, InCallFacts, IdleAssumption DEF Inv, UserStack
  <2>2. Len(s) = 2 /\ s[1] = kstack[cur][1] /\ s[2] = f
    <3> HIDE DEF s, f
    <3> QED
      BY <1>4, <2>1
  <2>3. Shape(cur, "irq", s)
    <3> HIDE DEF s, f
    <3> QED
      BY <1>3, <1>9, <2>1, <2>2 DEF Shape, UserPoints, InCall
  <2> HIDE DEF s, f
  <2> QED
    BY <1>1, <1>2, <1>4, <1>5, <1>6, <1>7, <2>1, <2>3, FrameStep
    DEF Points, KernelPoints, UserPoints, InterruptsOnInUser, HandlerMasked, InCall
<1> QED
  BY <1>1, <1>8, <1>9

LEMMA IrqReturnInv ==
  ASSUME Inv, irq_return
  PROVE  Inv'
<1> DEFINE k == kstack[cur]
           s == SubSeq(k, 1, Len(k) - 1)
<1>1. /\ cur \in AllTasks /\ cur # Idle /\ k \in Seq(AnyFrame)
      /\ Len(k) \in Nat /\ \A i \in 1 .. Len(k) : k[i] \in AnyFrame
  BY StackTypes DEF irq_return, Inv, TypeOK, IdleShape, UserPoints
<1>2. \/ /\ Len(k) = 1 /\ k[1] \in IrqFrames /\ k[1].point \in UserPoints
         /\ k[1].point = "user" => k[1].usp = cur
      \/ /\ Len(k) = 2 /\ k[1] \in SwiFrames /\ k[2] \in IrqFrames
         /\ k[2].point \in InCall
         /\ k[1].point = "user" => k[2].usp = cur
  BY DEF irq_return, Inv, Shape
<1>3. Top(cur) = k[Len(k)] /\ Len(k) > 0 /\ k[Len(k)] \in IrqFrames
  BY <1>2 DEF Top
<1>4. /\ s \in Seq(AnyFrame) /\ Len(s) = Len(k) - 1
      /\ \A i \in 1 .. Len(k) - 1 : s[i] = k[i]
  <2> HIDE DEF k
  <2> QED
    BY <1>1, <1>3, PopFacts
<1>5. kstack' = [kstack EXCEPT ![cur] = s]
  BY <1>1 DEF irq_return, Pop, Inv, TypeOK
<1>6. \A i \in 1 .. Len(k) : ~k[i].psr.masked
  BY <1>1 DEF Inv, Unmasked
<1>7. \A i \in 1 .. Len(s) : ~s[i].psr.masked
  <2> HIDE DEF s, k
  <2> QED
    BY <1>1, <1>4, <1>6
<1>8. /\ at' = k[Len(k)].point /\ spsr' = k[Len(k)].psr
      /\ mode' = k[Len(k)].psr.mode /\ masked' = k[Len(k)].psr.masked
      /\ usp' = k[Len(k)].usp
      /\ UNCHANGED <<cur, context, ready>>
  BY <1>3 DEF irq_return
<1>9. k[Len(k)] \in AnyFrame /\ ~k[Len(k)].psr.masked
  <2> HIDE DEF k
  <2> QED
    BY <1>1, <1>3, <1>6
<1>10. /\ at' \in Points /\ spsr' \in Psr /\ ~spsr'.masked
       /\ mode' \in {"usr", "svc"} /\ masked' \in BOOLEAN /\ ~masked'
       /\ usp' \in AllTasks
  <2> HIDE DEF k
  <2> QED
    BY <1>3, <1>8, <1>9, FrameFields
<1>11. at' \in UserPoints \cup InCall
  <2> HIDE DEF k
  <2> QED
    BY <1>2, <1>8
<1>12. InterruptsOnInUser' /\ HandlerMasked'
  BY <1>10, <1>11 DEF InterruptsOnInUser, HandlerMasked, InCall, UserPoints
<1>13. CASE Len(k) = 1
  <2>1. s = << >>
    <3> HIDE DEF s, k
    <3> QED
      BY <1>4, <1>13, EmptyStack
  <2>2. at' \in UserPoints /\ (at' = "user" => usp' = cur)
    <3> HIDE DEF s, k
    <3> QED
      BY <1>2, <1>8, <1>13
  <2>3. Shape(cur, at', s) /\ at' \notin InCall
    BY <2>1, <2>2 DEF Shape, UserPoints, InCall
  <2> HIDE DEF s, k
  <2> QED
    BY <1>1, <1>4, <1>5, <1>7, <1>8, <1>10, <1>12, <2>2, <2>3, FrameStep
<1>14. CASE Len(k) = 2
  <2>1. Len(s) = 1 /\ s[1] = k[1]
    <3> HIDE DEF s, k
    <3> QED
      BY <1>4, <1>14
  <2>2. at' \in InCall /\ s[1] \in SwiFrames /\ (s[1].point = "user" => usp' = cur)
    <3> HIDE DEF s, k
    <3> QED
      BY <1>2, <1>8, <1>14, <2>1
  <2>3. Shape(cur, at', s) /\ at' # "user"
    <3> HIDE DEF s, k
    <3> QED
      BY <2>1, <2>2 DEF Shape, UserPoints, InCall
  <2> HIDE DEF s, k
  <2> QED
    BY <1>1, <1>4, <1>5, <1>7, <1>8, <1>10, <1>12, <2>2, <2>3, FrameStep
<1> QED
  BY <1>2, <1>13, <1>14

\* The context of the running task is stored, unless it is the idle task, and
\* that of task t is loaded.
LEMMA SwitchInv ==
  ASSUME Inv, NEW t \in AllTasks, ready' \in SUBSET Tasks,
         context' \in [AllTasks -> {"launch", "waiting", "irq_return"}],
         \A u \in AllTasks : u # cur \/ u = Idle => context'[u] = context[u],
         cur \in Tasks => Shape(cur, context'[cur], kstack[cur]),
         resume(t), UNCHANGED <<spsr, usp>>
  PROVE  Inv'
<1>1. cur' = t /\ at' = context'[t]
  BY DEF resume
<1>2. \A u \in Tasks : Shape(u, context'[u], kstack[u])
  BY IdleAssumption DEF Inv, AllTasks
<1>3. /\ kstack \in [AllTasks -> Seq(AnyFrame)]
      /\ << >> \in Seq(AnyFrame) /\ Len(<< >>) = 0
  BY EmptyStack DEF Inv, TypeOK, AnyFrame
<1>4. context'[Idle] = "launch"
  BY DEF Inv, IdleShape, AllTasks
<1>5. CASE context'[t] = "launch"
  <2>1. /\ mode' = "usr" /\ masked' = FALSE
        /\ kstack' = [kstack EXCEPT ![t] = << >>]
    BY <1>5 DEF resume
  <2>2. /\ kstack' \in [AllTasks -> Seq(AnyFrame)]
        /\ kstack'[t] = << >> /\ Len(kstack'[t]) = 0
        /\ \A u \in AllTasks : u # t => kstack'[u] = kstack[u]
    BY <1>3, <2>1
  <2>3. TypeOK'
    BY <1>1, <1>5, <2>1, <2>2 DEF Inv, TypeOK, AnyFrame, Points, UserPoints
  <2>4. Shape(cur', at', kstack'[cur'])
    BY <1>1, <1>5, <2>2 DEF Shape, UserPoints, InCall
  <2>5. \A u \in Tasks : u # cur' => Shape(u, context'[u], kstack'[u])
    BY <1>1, <1>2, <2>2 DEF AllTasks
  <2>6. IdleShape'
    BY <1>1, <1>4, <1>5, <2>2 DEF Inv, IdleShape, UserPoints, AllTasks
  <2>7. Unmasked'
    BY <2>2 DEF Inv, Unmasked
  <2>8. InterruptsOnInUser' /\ HandlerMasked' /\ UserStack'
    BY <1>1, <1>5, <2>1
    DEF InterruptsOnInUser, HandlerMasked, UserStack, InCall
  <2> QED
    BY <2>3, <2>4, <2>5, <2>6, <2>7, <2>8 DEF Inv
<1>6. CASE context'[t] # "launch"
  <2>1. mode' = "svc" /\ masked' = TRUE /\ kstack' = kstack
    BY <1>6 DEF resume
  <2>2. at' \in {"waiting", "irq_return"} /\ t \in Tasks /\ t # Idle
    BY <1>1, <1>4, <1>6, IdleAssumption DEF AllTasks
  <2>3. TypeOK'
    BY <1>1, <2>1, <2>2 DEF Inv, TypeOK, Points, KernelPoints
  <2>4. Shape(cur', at', kstack'[cur'])
    BY <1>1, <1>2, <2>1, <2>2
  <2>5. \A u \in Tasks : u # cur' => Shape(u, context'[u], kstack'[u])
    BY <1>2, <2>1
  <2>6. IdleShape'
    BY <1>1, <1>4, <2>1, <2>2 DEF Inv, IdleShape
  <2>7. Unmasked'
    BY <2>1 DEF Inv, Unmasked
  <2>8. InterruptsOnInUser' /\ HandlerMasked' /\ UserStack'
    BY <2>1, <2>2
    DEF InterruptsOnInUser, HandlerMasked, UserStack, InCall, UserPoints
  <2> QED
    BY <2>3, <2>4, <2>5, <2>6, <2>7, <2>8 DEF Inv
<1> QED
  BY <1>5, <1>6

LEMMA EventWaitInv ==
  ASSUME Inv, event_wait
  PROVE  Inv'
<1>1. /\ cur \in Tasks /\ cur # Idle
      /\ Len(kstack[cur]) = 1 /\ kstack[cur][1] \in SwiFrames
      /\ kstack[cur][1].point = "stub"
  BY InCallFacts, IdleAssumption DEF event_wait, InCall
<1>2. ready' = ready \ {cur} /\ context' = [context EXCEPT ![cur] = "waiting"]
      /\ UNCHANGED <<spsr, usp>>
  BY DEF event_wait
<1>3. PICK t \in Candidates(ready') : resume(t)
  BY DEF event_wait
<1>4. ready' \in SUBSET Tasks /\ t \in AllTasks
  BY <1>2 DEF Inv, TypeOK, Candidates, AllTasks
<1>5. /\ context' \in [AllTasks -> {"launch", "waiting", "irq_return"}]
      /\ context'[cur] = "waiting"
      /\ \A u \in AllTasks : u # cur => context'[u] = context[u]
  BY <1>1, <1>2 DEF Inv, TypeOK, AllTasks
<1>6. Shape(cur, "waiting", kstack[cur])
  BY <1>1 DEF Shape, UserPoints
<1> QED
  BY <1>1, <1>2, <1>3, <1>4, <1>5, <1>6, SwitchInv

LEMMA IrqHandlerInv ==
  ASSUME Inv, c_irq_handler
  PROVE  Inv'
<1>1. ready' \in SUBSET Tasks /\ UNCHANGED <<spsr, usp>>
  BY DEF c_irq_handler, Inv, TypeOK
<1>2. PICK t \in Candidates(ready') :
        IF t = cur /\ cur # Idle
        THEN at' = "irq_return" /\ UNCHANGED <<cur, mode, masked, kstack, context>>
        ELSE context' = Stored /\ resume(t)
  BY DEF c_irq_handler
<1>3. t \in AllTasks /\ at = "irq"
  BY <1>1 DEF Candidates, AllTasks, c_irq_handler
<1>4. Shape(cur, "irq_return", kstack[cur])
  BY <1>3 DEF Inv, Shape, UserPoints, InCall
<1>5. CASE t = cur /\ cur # Idle
  <2>1. at' = "irq_return" /\ UNCHANGED <<cur, mode, masked, kstack, context>>
    BY <1>2, <1>5
  <2>2. InterruptsOnInUser' /\ HandlerMasked' /\ UserStack'
    BY <1>3, <2>1
    DEF Inv, InterruptsOnInUser, HandlerMasked, UserStack, InCall, UserPoints
  <2> QED
    BY <1>1, <1>4, <1>5, <2>1, <2>2, QuietStep
    DEF Inv, TypeOK, Unmasked, Points, KernelPoints
<1>6. CASE ~(t = cur /\ cur # Idle)
  <2>1. context' = Stored /\ resume(t)
    BY <1>2, <1>6
  <2>2. /\ context' \in [AllTasks -> {"launch", "waiting", "irq_return"}]
        /\ \A u \in AllTasks : u # cur \/ u = Idle => context'[u] = context[u]
        /\ cur \in Tasks => context'[cur] = "irq_return"
    BY <2>1, IdleAssumption DEF Stored, Inv, TypeOK, AllTasks
  <2> QED
    BY <1>1, <1>3, <1>4, <2>1, <2>2, SwitchInv
<1> QED
  BY <1>5, <1>6

------------------------------------------------------------------------------
(* The theorems.                                                             *)

\* The invariant holds in every reachable state.
THEOREM Invariant == Spec => []Inv
<1>1. Inv /\ [Next]_vars => Inv'
  <2> SUFFICES ASSUME Inv, [Next]_vars PROVE Inv'
    OBVIOUS
  <2>1. CASE UserCode
    BY <2>1, UserCodeInv
  <2>2. CASE SystemCall
    BY <2>2, SwiHandlerInv, CallBodyInv, EventWaitInv, SwiReturnInv DEF SystemCall
  <2>3. CASE Interrupt
    BY <2>3, IrqWrapperInv, IrqHandlerInv, IrqReturnInv DEF Interrupt
  <2>4. CASE UNCHANGED vars
    BY <2>4
    DEF vars, Inv, TypeOK, IdleShape, Unmasked, InterruptsOnInUser,
        HandlerMasked, UserStack
  <2> QED
    BY <2>1, <2>2, <2>3, <2>4 DEF Next
<1> QED
  BY InitInv, <1>1, PTL DEF Spec

\* User code never runs with interrupts masked, whatever calls return errors
\* with them masked and wherever the switches are: the timer interrupt always
\* gets through (swi_handler.S:30-35, mutex.c:98-160).
THEOREM UserInterruptible == Spec => []InterruptsOnInUser
<1>1. Inv => InterruptsOnInUser
  BY DEF Inv
<1> QED
  BY Invariant, <1>1, PTL

\* Each task runs on its own user stack, although event_wait switches without
\* saving the user-mode stack pointer.
THEOREM UserStacksKept == Spec => []OwnStack
<1>1. Inv => OwnStack
  BY DEF Inv, UserStack, OwnStack
<1> QED
  BY Invariant, <1>1, PTL

\* The frames of every kernel stack nest and are those that the points pop.
THEOREM FramesAlwaysNest == Spec => []FramesNest
<1>1. Inv => FramesNest
  <2> SUFFICES ASSUME Inv, NEW t \in AllTasks
      PROVE  /\ Len(kstack[t]) <= 2
             /\ \A i \in 1 .. Len(kstack[t]) :
                  (i = 1) = (kstack[t][i].point \in UserPoints)
             /\ t # cur /\ t # Idle =>
                  /\ context[t] = "launch" => kstack[t] = << >>
                  /\ context[t] = "waiting" => Len(kstack[t]) = 1
                  /\ context[t] = "irq_return" => kstack[t] # << >>
             /\ t = cur =>
                  /\ at \in UserPoints => kstack[t] = << >>
                  /\ at \in {"irq", "irq_return"} => kstack[t] # << >>
                  /\ at \in KernelPoints \ {"irq", "irq_return"} => Len(kstack[t]) = 1
    BY DEF FramesNest
  <2>1. Len(kstack[t]) \in Nat /\ Len(<< >>) = 0
    BY StackTypes, EmptyStack DEF Inv
  <2>2. \A p \in Points : Shape(t, p, kstack[t]) =>
          /\ Len(kstack[t]) <= 2
          /\ \A i \in 1 .. Len(kstack[t]) :
               (i = 1) = (kstack[t][i].point \in UserPoints)
    <3> SUFFICES ASSUME NEW p \in Points, Shape(t, p, kstack[t])
        PROVE  /\ Len(kstack[t]) <= 2
               /\ \A i \in 1 .. Len(kstack[t]) :
                    (i = 1) = (kstack[t][i].point \in UserPoints)
      OBVIOUS
    <3>1. CASE kstack[t] = << >>
      BY <2>1, <3>1
    <3>2. CASE Len(kstack[t]) = 1 /\ kstack[t][1].point \in UserPoints
      BY <3>2
    <3>3. CASE /\ Len(kstack[t]) = 2 /\ kstack[t][1] \in SwiFrames
               /\ kstack[t][2].point \in InCall
      BY <3>3, FrameFields DEF UserPoints, InCall
    <3> QED
      BY <3>1, <3>2, <3>3, FrameFields
      DEF Shape, Points, UserPoints, KernelPoints, InCall
  <2>3. CASE t = cur
    <3>1. at \in Points /\ Shape(t, at, kstack[t])
      BY <2>3 DEF Inv, TypeOK
    <3>2. /\ at \in UserPoints => kstack[t] = << >>
          /\ at \in {"irq", "irq_return"} => kstack[t] # << >>
          /\ at \in KernelPoints \ {"irq", "irq_return"} => Len(kstack[t]) = 1
      BY <2>1, <3>1 DEF Shape, Points, UserPoints, KernelPoints, InCall
    <3> QED
      BY <2>2, <2>3, <3>1, <3>2
  <2>4. CASE t # cur /\ t # Idle
    <3>1. Shape(t, context[t], kstack[t]) /\ context[t] \in Points
          /\ context[t] \in {"launch", "waiting", "irq_return"}
      BY <2>4 DEF Inv, TypeOK, AllTasks, Points, UserPoints, KernelPoints
    <3>2. /\ context[t] = "launch" => kstack[t] = << >>
          /\ context[t] = "waiting" => Len(kstack[t]) = 1
          /\ context[t] = "irq_return" => kstack[t] # << >>
      BY <2>1, <3>1 DEF Shape, UserPoints, InCall
    <3> QED
      BY <2>2, <2>4, <3>1, <3>2
  <2>5. CASE t # cur /\ t = Idle
    <3>1. Len(kstack[t]) <= 1 /\ (Len(kstack[t]) = 1 => kstack[t][1].point \in UserPoints)
      BY <2>5 DEF Inv, IdleShape
    <3>2. ASSUME NEW i \in 1 .. Len(kstack[t])
          PROVE  (i = 1) = (kstack[t][i].point \in UserPoints)
      <4> DEFINE n == Len(kstack[t])
      <4>1. n \in Nat /\ n <= 1 /\ i \in 1 .. n
        BY <2>1, <3>1
      <4>2. i = 1 /\ n = 1
        <5> HIDE DEF n
        <5> QED
          BY <4>1
      <4> QED
        BY <3>1, <4>2
    <3>3. Len(kstack[t]) <= 2
      BY <2>1, <3>1
    <3> QED
      BY <2>5, <3>2, <3>3
  <2> QED
    BY <2>3, <2>4, <2>5
<1> QED
  BY Invariant, <1>1, PTL
==============================================================================
