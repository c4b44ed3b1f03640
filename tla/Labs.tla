--------------------------------- MODULE Labs ----------------------------------
(***************************************************************************)
(* The kernels of labs 2 and 3 from their start by the boot loader to      *)
(* their return to it, with one user program each time: rot13 in lab 2;    *)
(* typo, typehero and sleeptest in lab 3.  Module Console has the calls    *)
(* read and write.  Of lab 4 there is the start ("tasks" stands for any    *)
(* program): it does not return, and its programs are in UserTasks.        *)
(*                                                                         *)
(* The words that the kernel overwrites are the first two of the boot      *)
(* loader's handlers of software and timer interrupts.  Time passes only   *)
(* for sleeptest, in ticks of the counter, which are its milliseconds; in  *)
(* typo and typehero a call of time gives any time.                        *)
(***************************************************************************)
EXTENDS Console

CONSTANTS ROT13,        \* the letters that rot13 makes of Letters
          Times,        \* tenths of seconds that typo shows
          MaxLines,     \* bound on the lines that are read
          FIRST_STEP,   \* step of typehero at the start, in units of 100 ms (10)
          STREAK,       \* hits of a streak that is not rewarded yet (9)
          LOSS,         \* the score that ends the game, below zero (49)
          MaxSteps,     \* bound on the rounds of the game
          OSCR_RANGE,   \* values of the counter (2^32)
          MaxTicks,     \* bound on the time
          Sleeps        \* arguments of sleep

ASSUME LabsAssumption ==
  /\ ROT13 \in [Letters -> Letters]
  /\ BUFSIZE > 3 /\ FIRST_STEP \in Nat /\ STREAK \in Nat /\ LOSS \in Nat
  /\ OSCR_RANGE \in Nat \ {0} /\ MaxTicks \in Nat /\ Sleeps \subseteq Nat

SWI == "SWI"
IRQ == "IRQ"
UBoot == [v \in {SWI, IRQ} |-> << <<v, 1>>, <<v, 2>> >>]

VARIABLES
  handler,         \* the two words of each of the boot loader's handlers
  saved,           \* swi_instr1, swi_instr2; irq_instr1, irq_instr2
  has_ldr,         \* whether the instruction at each vector is an ldr
  restored,        \* how many words restore_old_handlers has stored
  astray,          \* how many of them at the address that stands for an error
  program,
  pc,
  data,            \* the variables of the program
  ticks,           \* the time since init_timer
  start_time,
  rollovercount,
  ossr_m0          \* the counter has matched osmr0, not handled yet

boot_vars == <<handler, saved, has_ldr, restored, astray>>
time_vars == <<ticks, start_time, rollovercount, ossr_m0>>
vars == <<console_vars, boot_vars, program, pc, data, time_vars>>

Is(p) == program = p
Lab == IF Is("rot13") THEN 2 ELSE IF Is("tasks") THEN 4 ELSE 3

InitialData ==
  [tasks |-> [lines |-> 0],
   rot13 |-> [lines |-> 0, res |-> 0],
   typo |-> [lines |-> 0, t |-> 0],
   typehero |-> [target |-> Unused, step |-> FIRST_STEP, score |-> 0,
                 highscore |-> 0, streak |-> 0, total_steps |-> 0],
   \* From called on: what dotime did, and whether a result was wrong.
   sleeptest |-> [millis |-> 0, start |-> -1, low |-> 0, now |-> 0,
                  called |-> 0, at |-> 0, pending |-> FALSE, taken |-> FALSE, wrong |-> FALSE]]

Init ==
  /\ InitConsole
  /\ handler = UBoot
  /\ saved = [v \in {SWI, IRQ} |-> << 0, 0 >>]
  /\ program \in DOMAIN InitialData
  /\ program \in {"sleeptest", "tasks"} => mem[0] = "NUL" /\ \A k \in Cells : mem[k] = mem[0]   \* not used
  /\ has_ldr \in [{SWI, IRQ} -> BOOLEAN] /\ (Is("rot13") => \A v \in {SWI, IRQ} : has_ldr[v])   \* not looked at
  /\ restored = 0 /\ astray = 0
  /\ pc = "kmain"
  /\ data = InitialData[program]
  /\ ticks = 0 /\ rollovercount = 0 /\ ossr_m0 = 0
  /\ start_time \in IF Is("sleeptest") THEN 0 .. OSCR_RANGE - 1 ELSE {0}

Goto(label) == pc' = label

------------------------------------------------------------------------------
(* Start and end.                                                            *)

\* Lab 2 only replaces the handler of system calls, and knows where it is.
Vectors == IF Lab = 2 THEN {SWI} ELSE {SWI, IRQ}
Words == IF Lab = 2 THEN 2 ELSE 4

Patched == << <<"ldr pc, [pc, #-4]">>, <<"kernel">> >>
started == Goto("main") /\ UNCHANGED <<console_vars, has_ldr, restored, astray, program, data>>

lab2_install_handler ==
  /\ handler' = [handler EXCEPT ![SWI] = Patched]
  /\ saved' = [saved EXCEPT ![SWI] = handler[SWI]]

\* A vector without ldr has no handler that could be found: nothing is stored.
install_handler(v) ==
  IF has_ldr[v] THEN [handler |-> Patched, saved |-> handler[v]]
  ELSE [handler |-> handler[v], saved |-> saved[v]]

install_handlers ==
  /\ handler' = [v \in {SWI, IRQ} |-> install_handler(v).handler]
  /\ saved' = [v \in {SWI, IRQ} |-> install_handler(v).saved]

lab2_main ==
  pc = "kmain" /\ Lab = 2 /\ lab2_install_handler /\ started /\ UNCHANGED time_vars

\* The match register is the start time itself: the counter matches it again after
\* a whole round.
lab3_init_timer == ticks' = 0 /\ rollovercount' = 0 /\ UNCHANGED <<start_time, ossr_m0>>
lab3_kmain ==
  pc = "kmain" /\ Lab = 3 /\ install_handlers /\ started /\ lab3_init_timer

\* Lab 4 starts its timer later, in task_create, and never returns.
lab4_init_timer == ticks' = 0 /\ rollovercount' = 0 /\ UNCHANGED <<start_time, ossr_m0>>
lab4_kmain ==
  pc = "kmain" /\ Lab = 4 /\ install_handlers /\ started /\ lab4_init_timer

\* exit: exit_user goes on behind the call of user_mode, in kmain.
exit == Goto("restore") /\ UNCHANGED <<console_vars, boot_vars, program, data, time_vars>>

\* (Mutated: the pointer is not moved on.)
restore_same_word(v, k) == [handler EXCEPT ![v][1] = saved[v][k]]
restore_word(v, k) == [handler EXCEPT ![v][k] = saved[v][k]]

\* The words go back one by one, with interrupts as swi_handler has enabled them;
\* without a handler to ERROR_CASE, where the store may be aborted.
restore_old_handlers ==
  LET v == IF restored < 2 THEN SWI ELSE IRQ
  IN  /\ pc = "restore"
      /\ IF has_ldr[v]
         THEN handler' = restore_word(v, (restored % 2) + 1) /\ UNCHANGED astray
         ELSE astray' = astray + 1 /\ UNCHANGED handler
      /\ restored' = restored + 1
      /\ \/ Goto(IF restored + 1 = Words THEN "returned" ELSE "restore")
         \/ ~has_ldr[v] /\ Goto("reset")
      /\ UNCHANGED <<console_vars, saved, has_ldr, program, data, time_vars>>

------------------------------------------------------------------------------
(* System calls.                                                             *)

\* A call that traps into the boot loader's own handler resets the machine.
trap == handler[SWI] # UBoot[SWI]
reset ==
  /\ pc = "main" /\ ~trap /\ Goto("reset")
  /\ UNCHANGED <<console_vars, boot_vars, program, data, time_vars>>

lab2_c_swi_handler ==
  /\ Lab = 2 /\ (doread \/ dowrite)
  /\ UNCHANGED <<boot_vars, program, pc, data, time_vars>>
lab3_c_swi_handler ==
  /\ Lab = 3 /\ (doread \/ dowrite)
  /\ UNCHANGED <<boot_vars, program, pc, data, time_vars>>

\* The program is at a point of its own code.
At(label) == call = "none" /\ pc = label /\ trap
Call(op, label) ==
  op /\ Goto(label) /\ UNCHANGED <<boot_vars, program, time_vars>>
Compute(label) ==
  Goto(label) /\ UNCHANGED <<boot_vars, program, time_vars, call, count, buf, pcount, ret, line, out>>

------------------------------------------------------------------------------
(* rot13 (without arguments): a line whose first character is its end ends   *)
(* the program, and so does a read that returns 0.                           *)

Rot(c) == IF c \in Letters THEN ROT13[c] ELSE c
rot13(m, size) == [k \in Cells |-> IF k < size THEN Rot(m[k]) ELSE m[k]]

rot13_main ==
  /\ Is("rot13")
  /\ \/ /\ At("main") /\ data.lines < MaxLines
        /\ Call(read(BUFSIZE), "got")
        /\ data' = [data EXCEPT !.lines = @ + 1]
     \/ /\ At("got") /\ ret > 0 /\ mem[0] # "\n"
        /\ Compute("put") /\ mem' = rot13(mem, ret)
        /\ data' = [data EXCEPT !.res = ret]
     \/ At("got") /\ (ret <= 0 \/ mem[0] = "\n") /\ exit
     \/ At("put") /\ Call(write(data.res), "written") /\ UNCHANGED data
     \/ At("written") /\ Compute("main") /\ UNCHANGED <<mem, data>>

------------------------------------------------------------------------------
(* typo.                                                                     *)

Digits == <<"0", "1", "2", "3", "4", "5", "6", "7", "8", "9">>
Digit(k) == Digits[k + 1]
Length(t) == CHOOSE n \in 0 .. 9 : 10 ^ n > t /\ (n > 0 => 10 ^ (n - 1) <= t)

\* Tenths of seconds of a time that has 32 bits, in milliseconds; the digits, the point
\* and the zero fit into the buffer.
ASSUME TimesAssumption ==
  \A t \in Times : t \in 0 .. 10 ^ 9 - 1 /\ Length(t) + 2 <= BUFSIZE

\* The digits of t around a point before the last one, and a zero.  Without
\* digits cell 0 stays as it is.
convert(t, m) ==
  LET n == Length(t)
  IN  [k \in Cells |->
         IF k = n + 1 THEN "NUL"
         ELSE IF n = 0 \/ k > n THEN m[k]
         ELSE IF k = n THEN Digit(t % 10)
         ELSE IF k = n - 1 THEN "."
         ELSE Digit((t \div 10 ^ (n - 1 - k)) % 10)]

\* The prompts and the "s" at the end are left out.
typo_main ==
  /\ Is("typo")
  /\ \/ /\ At("main") /\ data.lines < MaxLines
        /\ Call(read(BUFSIZE), "got")
        /\ data' = [data EXCEPT !.lines = @ + 1]
     \/ At("got") /\ Call(write(ret), "written") /\ UNCHANGED data
     \/ /\ At("written") /\ Compute("converted")
        /\ \E t \in Times : mem' = convert(t, mem) /\ data' = [data EXCEPT !.t = t]
     \/ At("converted") /\ Call(write(BUFSIZE), "shown") /\ UNCHANGED data
     \/ At("shown") /\ Compute("main") /\ UNCHANGED <<mem, data>>

------------------------------------------------------------------------------
(* typehero.  A reaction takes so many units of 100 ms.                      *)

Reactions == 0 .. FIRST_STEP + 1
BONUS == 5

\* A hit, with the streak that it may complete.
\* (Mutated: the high score is that of the round before.)
scored_late(g) ==
  LET done == g.streak + 1 > STREAK
  IN  [g EXCEPT !.score = @ + (IF done THEN 1 + BONUS ELSE 1),
                !.highscore = IF g.score > @ THEN g.score ELSE @,
                !.streak = IF done THEN 0 ELSE @ + 1,
                !.step = IF done THEN @ - 1 ELSE @]
scored(g) ==
  LET done == g.streak + 1 > STREAK
  IN  [g EXCEPT !.score = @ + (IF done THEN 1 + BONUS ELSE 1),
                !.highscore = IF g.score + 1 > @ THEN g.score + 1 ELSE @,
                !.streak = IF done THEN 0 ELSE @ + 1,
                !.step = IF done THEN @ - 1 ELSE @]
missed(g, diff) == [g EXCEPT !.score = @ - (diff \div g.step + 1), !.streak = 0]

\* The handler of a division by zero in lab 3: it prints a line and exits.
lab3_raise == exit

\* What is compared with the letter is in the buffer: of a round without a letter
\* it is that of the last one.  A miss with step 0 divides by it.
typehero_main ==
  /\ Is("typehero")
  /\ \/ At("main") /\ Call(read(1), "round") /\ UNCHANGED data
     \/ /\ At("round") /\ data.total_steps < MaxSteps
        /\ \E c \in Letters : data' = [data EXCEPT !.target = c, !.total_steps = @ + 1]
        /\ Call(read(1), "judge")
     \/ \E diff \in Reactions :
          LET hit == diff < data.step /\ mem[0] = data.target
          IN  /\ At("judge")
              /\ Compute(IF ~hit /\ data.step = 0 THEN "raised"
                         ELSE IF ~hit /\ missed(data, diff).score < -LOSS THEN "over"
                         ELSE "round")
              /\ data' = IF hit THEN scored(data)
                         ELSE IF data.step = 0 THEN data ELSE missed(data, diff)
              /\ UNCHANGED mem
     \/ At("over") /\ exit
     \/ At("raised") /\ lab3_raise

------------------------------------------------------------------------------
(* The timer of lab 3, and sleeptest.                                        *)

oscr(t) == (start_time + t) % OSCR_RANGE

\* A pending interrupt is taken before half a round has passed, and the two reads of
\* dotime are less than that apart (half a round is 10 minutes).
Advance ==
  /\ Is("sleeptest") /\ pc \in {"main", "sleeping", "read", "restore", "returned"}
  /\ ticks < MaxTicks
  /\ ossr_m0 = 1 => (ticks + 1) % OSCR_RANGE < OSCR_RANGE \div 2
  /\ pc = "read" => ticks + 1 - data.at < OSCR_RANGE \div 2
  /\ ticks' = ticks + 1
  /\ ossr_m0' = IF oscr(ticks + 1) = start_time THEN 1 ELSE ossr_m0
  /\ UNCHANGED <<console_vars, boot_vars, program, pc, data, start_time, rollovercount>>

\* User code and system calls run with interrupts enabled, and so does the boot
\* loader when the kernel has returned.
interrupted == pc \notin {"kmain", "reset", "undefined"} /\ ossr_m0 = 1

\* The bit is cleared by writing it.
\* (Mutated: it is not cleared.)
c_irq_handler_uncleared ==
  /\ interrupted /\ handler[IRQ] = Patched
  /\ rollovercount' = rollovercount + 1
  /\ data' = [data EXCEPT !.taken = TRUE]
  /\ UNCHANGED <<console_vars, boot_vars, program, pc, ticks, start_time, ossr_m0>>
c_irq_handler ==
  /\ interrupted /\ handler[IRQ] = Patched
  /\ rollovercount' = rollovercount + 1
  /\ ossr_m0' = 0
  /\ data' = [data EXCEPT !.taken = TRUE]
  /\ UNCHANGED <<console_vars, boot_vars, program, pc, ticks, start_time>>

\* The boot loader's handler resets the machine; what a handler does of which one
\* word is the boot loader's and one the kernel's is undefined.
boot_loader_irq ==
  /\ interrupted /\ handler[IRQ] # Patched
  /\ Goto(IF handler[IRQ] = UBoot[IRQ] THEN "reset" ELSE "undefined")
  /\ UNCHANGED <<console_vars, boot_vars, program, data, time_vars>>

\* dotime reads the counter and then the count; dosleep calls it until the time
\* has come (the times here are below its wrap).
dotime_low == (OSCR_RANGE + oscr(ticks) - start_time) % OSCR_RANGE
dotime(low) == low + rollovercount * OSCR_RANGE

sleeptest_main ==
  /\ Is("sleeptest")
  /\ \/ \E n \in Sleeps :
          /\ At("main") /\ Compute(IF n = 0 THEN "awake" ELSE "sleeping")
          /\ data' = [data EXCEPT !.millis = n, !.called = ticks, !.now = ticks, !.at = ticks]
     \/ /\ At("sleeping") /\ Compute("read")
        /\ data' = [data EXCEPT !.low = dotime_low, !.at = ticks,
                                !.pending = ossr_m0 = 1, !.taken = FALSE]
     \/ /\ At("read")
        /\ LET now == dotime(data.low)
               start == IF data.start = -1 THEN now ELSE data.start
           IN  /\ data' = [data EXCEPT !.now = now, !.start = start,
                                      !.wrong = @ \/ now # data.at]
               /\ Compute(IF now < start + data.millis THEN "sleeping" ELSE "awake")
     \/ At("awake") /\ exit
  /\ UNCHANGED mem

------------------------------------------------------------------------------
Next ==
  \/ lab2_main \/ lab3_kmain \/ lab4_kmain \/ reset
  \/ lab2_c_swi_handler \/ lab3_c_swi_handler
  \/ rot13_main \/ typo_main \/ typehero_main \/ sleeptest_main
  \/ restore_old_handlers \/ Advance \/ c_irq_handler \/ boot_loader_irq

Spec == Init /\ [][Next]_vars

------------------------------------------------------------------------------
\* What was typed is what the programs get in the buffer, whatever was deleted on
\* the way, and its length is the result of a read that the user ended (io.c:53-75;
\* ReadIsCounted is about the others).  A line that was ended is
\* written back as it was typed, by rot13 as its cipher, whatever the buffer held before:
\* other lines, the digits of a time, or nothing.  A line that ends with the
\* transmission is followed by what is left of the line before it (io.c:112).
\* The time that typo shows is the time, but for times below a tenth of a second,
\* for which it shows at most the first letter of the line (typo.c:47-61).
LinesWritten ==
  /\ LineIsEdited
  /\ call = "none" /\ pc \in {"got", "judge"} => ResultIsLength
  /\ call = "none" /\ line # << >> =>
    LET typed == IF Is("rot13") THEN [k \in DOMAIN line |-> Rot(line[k])] ELSE line
        t == data.t
    IN  /\ pc = "written" /\ (Last(line) = "\n" \/ Is("rot13")) => IsPrefix(typed, out)
        /\ pc = "written" /\ Last(line) = "\n" => out = typed
        /\ pc = "shown" /\ t > 0 =>
             out = [k \in 1 .. Length(t) + 1 |->
                      IF k = Length(t) THEN "." ELSE
                        Digit((t \div 10 ^ (IF k > Length(t) THEN 0
                                            ELSE Length(t) - k)) % 10)]
        /\ pc = "shown" /\ t = 0 => out \in {<< >>, <<line[1]>>}

\* What is said of read: on completion its result is the number of bytes read
\* (io.c:31-32).
ReadIsCounted == call = "none" /\ pc \in {"got", "judge"} => ret = Len(line)

\* When the kernel returns, the boot loader has its handlers back, whichever of them
\* were found; without the vector of interrupts two words went to ERROR_CASE
\* (main.c:92).  Until exit every system call and timer interrupt finds the
\* kernel's handler, unless the vector was not what install_handler expects.
\* The machine is reset by a vector that was not found or by an interrupt after the
\* boot loader's handler was put back, and runs a mixture of both handlers when
\* one comes between the two words (main.c:71-72).
BootLoaderRestored ==
  /\ pc \in {"kmain", "returned"} => handler = UBoot
  /\ pc = "returned" => astray = IF has_ldr[IRQ] THEN 0 ELSE 2
  /\ pc \notin {"kmain", "restore", "returned", "reset", "undefined"} =>
       \A v \in Vectors : handler[v] = UBoot[v] <=> ~has_ldr[v]
  /\ call # "none" => has_ldr[SWI]
  /\ pc = "reset" /\ handler[IRQ] # UBoot[IRQ] => ~has_ldr[SWI]
  /\ pc = "undefined" => restored = 3 /\ handler[IRQ] = << UBoot[IRQ][1], Patched[2] >>

\* The high score is a score of the game, and none was higher, but for the bonus
\* of a streak, which it does not have until the next hit (typehero.c:111-120).
\* Streaks make the game impossible in the end: after the tenth no reaction is
\* fast enough, and the next round ends it without the result that a lost game
\* shows, by a division by zero (typehero.c:120, 123).
GameRules ==
  Is("typehero") =>
    /\ data.score > data.highscore => data.streak = 0 /\ data.score <= data.highscore + BONUS
    /\ data.streak > 0 => data.score <= data.highscore
    /\ data.step >= 0 /\ data.streak <= STREAK
    /\ pc = "raised" => data.step = 0
    /\ pc \in {"over", "restore", "returned"} => data.score < -LOSS \/ data.step = 0

\* Every round of the counter is counted once, or about to be.  The time that lab
\* 3 gives is right unless a round ends at the call: it is a round behind when the
\* interrupt comes after both of its reads, and a round ahead when the interrupt
\* comes between them (c_swi.c:173-174).  A sleep whose times are right takes as
\* long as it should (c_swi.c:196-199).
RoundsCounted ==
  Is("sleeptest") =>
    /\ ticks \div OSCR_RANGE = rollovercount + ossr_m0
    /\ pc \in {"sleeping", "awake"} /\ data.start # -1 /\ data.now # data.at =>
         \/ data.now = data.at - OSCR_RANGE /\ data.pending
         \/ data.now = data.at + OSCR_RANGE /\ data.taken /\ ~data.pending
    /\ pc = "awake" /\ ~data.wrong => ticks - data.called >= data.millis
==============================================================================
