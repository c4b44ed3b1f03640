------------------------------- MODULE SwiPath --------------------------------
(***************************************************************************)
(* How tasks enter and leave the kernel: swi_handler (syscall/             *)
(* swi_handler.S), irq_wrapper (arm/int_asm.S), the context switch         *)
(* (sched/ctx_switch_asm.S), launch_task, and what the library's           *)
(* event_wait does around its call.  There is one cpu: one cpsr, one spsr  *)
(* of supervisor mode and one stack pointer of user mode, which every      *)
(* task's system calls and every interrupt share.  Frames are kept on the  *)
(* kernel stack of the task.  The frame of a system call has no user-mode  *)
(* stack pointer, that of an interrupt has.                                *)
(*                                                                         *)
(* A program status is its mode and its I bit; a user-mode stack pointer   *)
(* is the task whose stack it points into.  A sequence of instructions     *)
(* with interrupts masked is one step.  Which ready task a dispatch finds  *)
(* is left open (Kernel has the priorities).                               *)
(***************************************************************************)
EXTENDS Integers, Sequences

CONSTANTS Tasks, Idle   \* the tasks of a set and the idle task

ASSUME IdleAssumption == Idle \notin Tasks

AllTasks == Tasks \cup {Idle}

VARIABLES
  cur,        \* the running task
  at,         \* where the cpu is
  mode, masked,   \* cpsr: the mode and the I bit
  spsr,       \* spsr_svc
  usp,        \* sp_usr
  kstack,     \* the frames on the kernel stack of each task, newest last
  context,    \* where a task that does not run resumes
  ready       \* the tasks in the run queue

vars == <<cur, at, mode, masked, spsr, usp, kstack, context, ready>>

Psr == [mode : {"usr", "svc"}, masked : BOOLEAN]
cpsr == [mode |-> mode, masked |-> masked]

\* launch_task before the load of sp; user code; the library's event_wait after
\* the call.
UserPoints == {"launch", "user", "stub"}
\* The body of a system call; swi_handler after it, before and after the load of
\* spsr; event_wait after the switch back; the interrupt handler; irq_wrapper
\* after it.
KernelPoints == {"body", "exit", "spsr_loaded", "waiting", "irq", "irq_return"}
Points == UserPoints \cup KernelPoints

\* The point is where the return from the frame leads to.
SwiFrames == [psr : Psr, point : {"user", "stub"}]
IrqFrames == [psr : Psr, point : Points, usp : AllTasks]

TypeOK ==
  /\ cur \in AllTasks
  /\ at \in Points
  /\ mode \in {"usr", "svc"} /\ masked \in BOOLEAN
  /\ spsr \in Psr
  /\ usp \in AllTasks
  /\ kstack \in [AllTasks -> Seq(SwiFrames \cup IrqFrames)]
  /\ context \in [AllTasks -> {"launch", "waiting", "irq_return"}]
  /\ ready \in SUBSET Tasks

\* sched_init has just dispatched the first task.
Init ==
  /\ cur \in Tasks /\ at = "launch"
  /\ mode = "usr" /\ masked = FALSE
  /\ spsr = [mode |-> "usr", masked |-> FALSE]
  /\ usp = Idle
  /\ kstack = [t \in AllTasks |-> << >>]
  /\ context = [t \in AllTasks |-> "launch"]
  /\ ready = Tasks

Top(t) == kstack[t][Len(kstack[t])]
Push(f) == kstack' = [kstack EXCEPT ![cur] = Append(@, f)]
Pop == kstack' = [kstack EXCEPT ![cur] = SubSeq(@, 1, Len(@) - 1)]

------------------------------------------------------------------------------
(* User code.                                                                *)

\* The user-mode stack pointer of a launched task is loaded in user mode.
launch_task ==
  /\ at = "launch" /\ at' = "user"
  /\ usp' = cur
  /\ UNCHANGED <<cur, mode, masked, spsr, kstack, context, ready>>

\* The library's event_wait has its stack pointer in r4 over the call, and r4 is
\* in the frame.  In supervisor mode (see UserModeInUser) another stack pointer
\* would be loaded; what such code does further is not followed.
\* (Mutated: the stack pointer is not reloaded.)
event_wait_stub_plain ==
  /\ at = "stub" /\ mode = "usr" /\ at' = "user"
  /\ UNCHANGED <<cur, mode, masked, spsr, usp, kstack, context, ready>>
event_wait_stub ==
  /\ at = "stub" /\ mode = "usr" /\ at' = "user"
  /\ usp' = cur
  /\ UNCHANGED <<cur, mode, masked, spsr, kstack, context, ready>>

------------------------------------------------------------------------------
(* System calls.                                                             *)

\* swi_handler up to the call of c_swi_handler: the spsr is stored in the frame
\* and interrupts are enabled.  The point is "stub" for the event_wait call.
swi_handler ==
  /\ at = "user" /\ mode = "usr" /\ cur # Idle
  /\ spsr' = cpsr
  /\ \E point \in {"user", "stub"} : Push([psr |-> cpsr, point |-> point])
  /\ mode' = "svc" /\ masked' = FALSE
  /\ at' = "body"
  /\ UNCHANGED <<cur, usp, context, ready>>

\* The calls that do not switch.  An error return of mutex_lock or mutex_unlock
\* leaves interrupts masked, one of event_wait does not.
c_swi_handler ==
  /\ at = "body"
  /\ masked' \in IF Top(cur).point = "stub" THEN {FALSE} ELSE BOOLEAN
  /\ at' = "exit"
  /\ UNCHANGED <<cur, mode, spsr, usp, kstack, context, ready>>

\* Load the context of t.  launch_task leaves for user mode with interrupts
\* enabled, on an empty kernel stack; the other contexts were stored with
\* interrupts masked and are resumed by code that has them masked.
resume(t) ==
  /\ cur' = t
  /\ at' = context'[t]
  /\ IF context'[t] = "launch"
     THEN mode' = "usr" /\ masked' = FALSE /\ kstack' = [kstack EXCEPT ![t] = << >>]
     ELSE mode' = "svc" /\ masked' = TRUE /\ UNCHANGED kstack

\* What a dispatch may find: a ready task, or the idle task if there is none.
Candidates(tasks) == IF tasks = {} THEN {Idle} ELSE tasks

\* Interrupts are masked before dev_wait and enabled when the call is resumed.
event_wait ==
  /\ at = "body" /\ Top(cur).point = "stub"
  /\ ready' = ready \ {cur}
  /\ context' = [context EXCEPT ![cur] = "waiting"]
  /\ \E t \in Candidates(ready') : resume(t)
  /\ UNCHANGED <<spsr, usp>>

event_wait_return ==
  /\ at = "waiting" /\ at' = "exit"
  /\ masked' = FALSE
  /\ UNCHANGED <<cur, mode, spsr, usp, kstack, context, ready>>

\* The rest of swi_handler: spsr is loaded from the frame (lines 30-31) ...
swi_load_spsr ==
  /\ at = "exit" /\ at' = "spsr_loaded"
  /\ spsr' = Top(cur).psr
  /\ UNCHANGED <<cur, mode, masked, usp, kstack, context, ready>>

\* ... the registers are, and movs makes it the cpsr (lines 32-35).
\* (Mutated: the return does not load cpsr, or the frame stays on the stack.)
swi_return_mov ==
  /\ at = "spsr_loaded" /\ at' = Top(cur).point
  /\ Pop
  /\ UNCHANGED <<cur, mode, masked, spsr, usp, context, ready>>
swi_return_frame ==
  /\ at = "spsr_loaded" /\ at' = Top(cur).point
  /\ mode' = spsr.mode /\ masked' = spsr.masked
  /\ UNCHANGED <<cur, spsr, usp, kstack, context, ready>>
swi_return ==
  /\ at = "spsr_loaded" /\ at' = Top(cur).point
  /\ mode' = spsr.mode /\ masked' = spsr.masked
  /\ Pop
  /\ UNCHANGED <<cur, spsr, usp, context, ready>>

------------------------------------------------------------------------------
(* The timer interrupt.                                                      *)

\* irq_wrapper up to the call of c_irq_handler.  The status of what was
\* interrupted goes to the frame and, on the way, to spsr_svc.
irq_wrapper ==
  /\ ~masked
  /\ spsr' = cpsr
  /\ Push([psr |-> cpsr, point |-> at, usp |-> usp])
  /\ mode' = "svc" /\ masked' = TRUE
  /\ at' = "irq"
  /\ UNCHANGED <<cur, usp, context, ready>>

\* c_irq_handler wakes tasks and dispatches.  A dispatch that finds the current
\* task returns to irq_wrapper, and so does a context that was stored here.  The
\* idle task's context is not stored.
Stored == IF cur = Idle THEN context ELSE [context EXCEPT ![cur] = "irq_return"]

c_irq_handler ==
  /\ at = "irq"
  /\ \E woken \in SUBSET (Tasks \ ready) : ready' = ready \cup woken
  /\ \E t \in Candidates(ready') :
       IF t = cur /\ cur # Idle
       THEN at' = "irq_return" /\ UNCHANGED <<cur, mode, masked, kstack, context>>
       ELSE context' = Stored /\ resume(t)
  /\ UNCHANGED <<spsr, usp>>

irq_return ==
  LET frame == Top(cur)
  IN  /\ at = "irq_return" /\ at' = frame.point
      /\ spsr' = frame.psr
      /\ mode' = frame.psr.mode /\ masked' = frame.psr.masked
      /\ usp' = frame.usp
      /\ Pop
      /\ UNCHANGED <<cur, context, ready>>

UserCode == launch_task \/ event_wait_stub
SystemCall ==
  \/ swi_handler \/ c_swi_handler \/ event_wait \/ event_wait_return
  \/ swi_load_spsr \/ swi_return
Interrupt == irq_wrapper \/ c_irq_handler \/ irq_return

Next == UserCode \/ SystemCall \/ Interrupt
Spec == Init /\ [][Next]_vars

------------------------------------------------------------------------------
\* User code never runs with interrupts masked, although mutex_lock and
\* mutex_unlock return errors without enabling them (mutex.c:98, 101, 158, 160)
\* and the tasks hand one cpsr to each other: what a task gets back is the
\* status that its own frame holds.
InterruptsOnInUser == at \in UserPoints => ~masked

\* The frames on a kernel stack nest as the code that they return to: one for a
\* system call or an interrupt of user code, and at most one more, for an
\* interrupt of the system call; and the point where a task is, or resumes,
\* pops exactly what is there.
FramesNest ==
  \A t \in AllTasks :
    /\ Len(kstack[t]) <= 2
    /\ \A i \in 1 .. Len(kstack[t]) :
         (i = 1) = (kstack[t][i].point \in UserPoints)
    /\ t # cur /\ t # Idle =>
         /\ context[t] = "launch" => kstack[t] = << >>
         /\ context[t] = "waiting" => Len(kstack[t]) = 1
         /\ context[t] = "irq_return" => kstack[t] # << >>
    /\ t = cur =>
         /\ at \in UserPoints => kstack[t] = << >>
         /\ at \in {"irq", "irq_return"} => kstack[t] # << >>
         /\ at \in KernelPoints \ {"irq", "irq_return"} => Len(kstack[t]) = 1

\* User code runs on its own stack.  The frame of a system call does not hold
\* the user-mode stack pointer, so a task comes back from event_wait with that
\* of whoever ran last; the library's event_wait reloads it from r4, interrupts
\* in between restore the one they found, and no other call loses the cpu but
\* to an interrupt.
OwnStack == at = "user" => usp = cur

------------------------------------------------------------------------------
\* swi_handler.S:1-4: user mode is returned to with the register values
\* restored, which include the status of the frame.  An interrupt between the
\* load of spsr and the use of it leaves its own status there.
UserModeInUser == at \in UserPoints => mode = "usr"
==============================================================================
