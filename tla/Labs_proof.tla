------------------------------ MODULE Labs_proof -------------------------------
(***************************************************************************)
(* Proofs about Labs, for every alphabet, every size of the buffer and     *)
(* every bound on what a program does: the boot loader gets its handlers   *)
(* back, the rules of typehero, the time of lab 3, and the lines that are  *)
(* read and written.                                                       *)
(***************************************************************************)
EXTENDS Labs, Numbers_proof

------------------------------------------------------------------------------
(* The boot loader's handlers.                                               *)

InProgram == pc \notin {"kmain", "restore", "returned", "reset", "undefined"}

BootTypes ==
  /\ program \in DOMAIN InitialData
  /\ has_ldr \in [{SWI, IRQ} -> BOOLEAN]
  /\ program = "rot13" => has_ldr[SWI] /\ has_ldr[IRQ]
  /\ DOMAIN saved = {SWI, IRQ}
  /\ restored \in 0 .. Words

\* The handler of v when n of its words have been put back.
First(v) == IF v = SWI THEN 0 ELSE 2
Restoring(v, n) ==
  IF n >= 2 THEN UBoot[v] ELSE IF n = 1 THEN << UBoot[v][1], Patched[2] >> ELSE Patched

\* Each handler that was found is the kernel's, but for what was put back, and its
\* words are kept; all others are untouched.
HandlersKept ==
  /\ handler = [v \in {SWI, IRQ} |-> handler[v]]
  /\ \A v \in {SWI, IRQ} : v \notin Vectors \/ ~has_ldr[v] => handler[v] = UBoot[v]
  /\ pc # "kmain" => \A v \in Vectors : has_ldr[v] =>
       handler[v] = Restoring(v, restored - First(v)) /\ saved[v] = UBoot[v]

\* How far the words are put back.
RestorePoints ==
  /\ InProgram \/ pc = "kmain" => restored = 0
  /\ pc = "restore" => restored < Words
  /\ pc = "returned" => restored = Words
  /\ pc \in {"restore", "returned"} => has_ldr[SWI]
  /\ has_ldr[IRQ] \/ restored < 2 => astray = 0
  /\ ~has_ldr[IRQ] /\ restored >= 2 => astray = restored - 2

BootInv ==
  /\ BootTypes /\ HandlersKept /\ RestorePoints
  /\ pc = "kmain" => handler = UBoot
  /\ call # "none" => pc # "kmain" /\ has_ldr[SWI]
  /\ pc = "reset" => handler[IRQ] = UBoot[IRQ] \/ ~has_ldr[SWI]
  /\ pc = "undefined" => restored = 3 /\ has_ldr[IRQ]

\* The kernel's words are not the boot loader's.
LEMMA PatchedIsNew == \A v \in {SWI, IRQ} : Patched # UBoot[v]
<1>1. ASSUME NEW v \in {SWI, IRQ} PROVE Len(Patched[1]) = 1 /\ Len(UBoot[v][1]) = 2
  BY DEF Patched, UBoot
<1> QED BY <1>1

\* Lab 2 replaces one handler, the other labs replace two.
LEMMA VectorsAre ==
  Vectors \subseteq {SWI, IRQ} /\ SWI \in Vectors /\ (Lab # 2 => Vectors = {SWI, IRQ})
BY DEF Vectors

\* A call that gets to the kernel was made through a handler of the kernel, and one
\* that does not through a handler that was not found.
LEMMA TrapFindsKernel ==
  ASSUME BootInv, InProgram
  PROVE  trap <=> has_ldr[SWI]
<1>1. restored = 0 /\ pc # "kmain" /\ First(SWI) = 0 /\ has_ldr[SWI] \in BOOLEAN
  BY DEF BootInv, BootTypes, RestorePoints, InProgram, First
<1>2. has_ldr[SWI] => handler[SWI] = Restoring(SWI, 0)
  BY <1>1, VectorsAre DEF BootInv, HandlersKept
<1>3. ~has_ldr[SWI] => handler[SWI] = UBoot[SWI]
  BY DEF BootInv, HandlersKept
<1> QED BY <1>1, <1>2, <1>3, PatchedIsNew DEF trap, Restoring

LEMMA BootInit == Init => BootInv
<1> SUFFICES ASSUME Init PROVE BootInv
  OBVIOUS
<1>1. /\ has_ldr \in [{SWI, IRQ} -> BOOLEAN]
      /\ program = "rot13" => has_ldr[SWI] /\ has_ldr[IRQ]
  BY DEF Init, Is
<1>2. DOMAIN saved = {SWI, IRQ} /\ handler = UBoot /\ restored \in 0 .. Words
  BY DEF Init, Words
<1> QED BY <1>1, <1>2
        DEF Init, InitConsole, UBoot, BootInv, BootTypes, HandlersKept, RestorePoints, InProgram

\* A step of the program or of a call: it does not touch the handlers, and calls
\* the kernel only through them.
LEMMA ProgramStep ==
  ASSUME BootInv, UNCHANGED <<boot_vars, program>>,
         pc' = pc \/ (InProgram /\ InProgram'),
         call' \in {call, "none"} \/ (InProgram /\ trap)
  PROVE  BootInv'
<1>1. UNCHANGED <<handler, saved, has_ldr, restored, astray, program>>
  BY DEF boot_vars
<1>2. (pc' = "kmain" <=> pc = "kmain") /\ (InProgram' <=> InProgram)
      /\ (pc' \in {"restore", "returned", "reset", "undefined"} => pc' = pc)
  BY DEF InProgram
<1>3. BootTypes' /\ HandlersKept'
  BY <1>1, <1>2 DEF BootInv, BootTypes, HandlersKept, Vectors, Words, Lab, Is
<1>4. RestorePoints'
  BY <1>1, <1>2 DEF BootInv, RestorePoints, Words, Lab, Is
<1>5. call' # "none" => pc' # "kmain" /\ has_ldr'[SWI]
  BY <1>1, <1>2, TrapFindsKernel DEF BootInv, InProgram
<1> QED BY <1>1, <1>2, <1>3, <1>4, <1>5 DEF BootInv

\* The start of each kernel.
LEMMA StartStep ==
  ASSUME BootInv, lab2_main \/ lab3_kmain \/ lab4_kmain
  PROVE  BootInv'
<1>0. /\ pc = "kmain" /\ pc' = "main"
      /\ UNCHANGED <<call, has_ldr, restored, astray, program>>
  BY DEF lab2_main, lab3_kmain, lab4_kmain, started, Goto, console_vars
<1>1. /\ pc = "kmain" /\ pc' = "main" /\ handler = UBoot /\ call = "none"
      /\ restored = 0 /\ astray = 0
      /\ UNCHANGED <<call, has_ldr, restored, astray, program>>
  BY <1>0 DEF BootInv, RestorePoints
<1>2. UNCHANGED <<Vectors, Words>> /\ BootTypes
  BY <1>1 DEF Vectors, Words, Lab, Is, BootInv
<1>3. First(SWI) = 0 /\ First(IRQ) = 2 /\ Restoring(SWI, 0) = Patched /\ Restoring(IRQ, -2) = Patched
  BY DEF First, Restoring, SWI, IRQ
<1>4. SUFFICES /\ handler' = [v \in {SWI, IRQ} |-> handler'[v]] /\ DOMAIN saved' = {SWI, IRQ}
               /\ \A v \in {SWI, IRQ} : v \notin Vectors \/ ~has_ldr[v] => handler'[v] = UBoot[v]
               /\ \A v \in Vectors : has_ldr[v] => handler'[v] = Patched /\ saved'[v] = UBoot[v]
  <2>1. HandlersKept'
    BY <1>1, <1>2, <1>3, <1>4, VectorsAre DEF HandlersKept
  <2>2. RestorePoints'
    BY <1>1, <1>2 DEF RestorePoints, BootTypes, BootInv
  <2> QED BY <1>1, <1>2, <1>4, <2>1, <2>2 DEF BootInv, BootTypes
<1>5. CASE lab2_main
  <2>1. Vectors = {SWI} /\ has_ldr[SWI]
    BY <1>2, <1>5 DEF lab2_main, Vectors, Lab, Is, BootTypes
  <2>2. /\ handler' = [handler EXCEPT ![SWI] = Patched]
        /\ saved' = [saved EXCEPT ![SWI] = handler[SWI]]
    BY <1>5 DEF lab2_main, lab2_install_handler
  <2> QED BY <1>1, <1>2, <2>1, <2>2 DEF BootTypes, UBoot, SWI, IRQ
<1>6. CASE lab3_kmain \/ lab4_kmain
  <2>1. Vectors = {SWI, IRQ}
    BY <1>6, VectorsAre DEF lab3_kmain, lab4_kmain
  <2>2. /\ handler' = [v \in {SWI, IRQ} |-> install_handler(v).handler]
        /\ saved' = [v \in {SWI, IRQ} |-> install_handler(v).saved]
    BY <1>6 DEF lab3_kmain, lab4_kmain, install_handlers
  <2>3. \A v \in {SWI, IRQ} :
          IF has_ldr[v] THEN handler'[v] = Patched /\ saved'[v] = UBoot[v]
          ELSE handler'[v] = UBoot[v]
    BY <1>1, <2>2 DEF install_handler
  <2> QED BY <2>1, <2>2, <2>3
<1> QED BY <1>5, <1>6

\* Each program ends by the same exit.
LEMMA ExitStep ==
  ASSUME BootInv, InProgram, trap, exit
  PROVE  BootInv'
<1>1. /\ pc' = "restore" /\ restored = 0 /\ has_ldr[SWI] /\ pc # "kmain"
      /\ UNCHANGED <<call, handler, saved, has_ldr, restored, astray, program>>
  BY TrapFindsKernel DEF exit, Goto, console_vars, boot_vars, BootInv, RestorePoints, InProgram
<1>2. BootTypes' /\ HandlersKept'
  BY <1>1 DEF BootInv, BootTypes, HandlersKept, Vectors, Words, Lab, Is
<1>3. RestorePoints'
  <2>1. RestorePoints /\ Words' = Words /\ Words \in {2, 4} /\ ~InProgram'
    BY <1>1 DEF BootInv, Words, Lab, Is, InProgram
  <2> QED BY <1>1, <2>1 DEF RestorePoints
<1> QED BY <1>1, <1>2, <1>3 DEF BootInv

\* A word that is put back, or goes astray.
LEMMA RestoreStep ==
  ASSUME BootInv, restore_old_handlers
  PROVE  BootInv'
<1> DEFINE v == IF restored < 2 THEN SWI ELSE IRQ
           k == (restored % 2) + 1
<1>1. /\ pc = "restore" /\ restored' = restored + 1 /\ UNCHANGED <<call, saved, has_ldr, program>>
      /\ has_ldr[v] => handler' = [handler EXCEPT ![v][k] = saved[v][k]] /\ astray' = astray
      /\ ~has_ldr[v] => astray' = astray + 1 /\ handler' = handler
      /\ \/ pc' = IF restored + 1 = Words THEN "returned" ELSE "restore"
         \/ ~has_ldr[v] /\ pc' = "reset"
  BY DEF restore_old_handlers, restore_word, Goto, console_vars
<1>2. /\ UNCHANGED <<Vectors, Words>> /\ BootTypes /\ HandlersKept /\ RestorePoints
      /\ has_ldr[SWI] \in BOOLEAN /\ has_ldr[IRQ] \in BOOLEAN
  BY <1>1 DEF Vectors, Words, Lab, Is, BootInv, BootTypes
<1>3. (Words = 2 /\ Vectors = {SWI}) \/ (Words = 4 /\ Vectors = {SWI, IRQ})
  BY DEF Vectors, Words
<1>4. restored \in 0 .. Words - 1 /\ has_ldr[SWI]
  BY <1>1, <1>2, <1>3 DEF BootTypes, RestorePoints
<1>5. /\ v \in Vectors /\ v \in {SWI, IRQ} /\ restored - First(v) \in {0, 1}
      /\ k = restored - First(v) + 1 /\ SWI # IRQ
  BY <1>3, <1>4 DEF First, SWI, IRQ
<1>6. \A w \in {SWI, IRQ} : w # v =>
        IF w = SWI THEN restored >= 2 ELSE restored < 2
  BY <1>4
<1>7. v = IRQ <=> restored >= 2
  BY <1>3, <1>4, <1>5
<1> HIDE DEF v, k
<1>8. ASSUME NEW w \in {SWI, IRQ}, w # v PROVE handler'[w] = handler[w]
  BY <1>1, <1>2, <1>8, <1>5 DEF HandlersKept
<1>9. BootTypes'
  BY <1>1, <1>2, <1>3, <1>4 DEF BootTypes
<1>10. ASSUME NEW w \in Vectors, has_ldr[w]
       PROVE  handler'[w] = Restoring(w, restored' - First(w)) /\ saved'[w] = UBoot[w]
  <2>1. handler[w] = Restoring(w, restored - First(w)) /\ saved[w] = UBoot[w] /\ w \in {SWI, IRQ}
    BY <1>1, <1>2, <1>3, <1>10 DEF HandlersKept
  <2>2. CASE w # v
    <3>1. handler'[w] = handler[w]
      BY <1>8, <2>1, <2>2
    <3>2. \/ restored - First(w) >= 2 /\ restored' - First(w) >= 2
          \/ restored - First(w) < 0 /\ restored' - First(w) < 1
      BY <1>1, <1>3, <1>4, <1>5, <1>6, <2>1, <2>2 DEF First
    <3>3. restored - First(w) \in Int /\ restored' - First(w) \in Int
      BY <1>1, <1>3, <1>4 DEF First
    <3>4. Restoring(w, restored' - First(w)) = Restoring(w, restored - First(w))
      BY <3>2, <3>3 DEF Restoring
    <3> QED BY <1>1, <2>1, <3>1, <3>4
  <2>3. CASE w = v
    <3>1. handler' = [handler EXCEPT ![w][k] = UBoot[w][k]]
      BY <1>1, <1>10, <2>1, <2>3
    <3>2. handler'[w] = [handler[w] EXCEPT ![k] = UBoot[w][k]]
      BY <1>2, <2>1, <3>1 DEF HandlersKept
    <3>3. UBoot[w] = << UBoot[w][1], UBoot[w][2] >> /\ Patched = << Patched[1], Patched[2] >>
      BY <2>1 DEF UBoot, Patched
    <3>4. CASE restored - First(w) = 0
      <4>1. k = 1 /\ restored' - First(w) = 1
        BY <1>1, <1>3, <1>4, <1>5, <2>3, <3>4 DEF First
      <4>2. handler[w] = << Patched[1], Patched[2] >>
        BY <2>1, <3>3, <3>4 DEF Restoring
      <4>3. handler'[w] = << UBoot[w][1], Patched[2] >>
        BY <3>2, <4>1, <4>2
      <4> QED BY <1>1, <2>1, <4>1, <4>3 DEF Restoring
    <3>5. CASE restored - First(w) = 1
      <4>1. k = 2 /\ restored' - First(w) = 2
        BY <1>1, <1>3, <1>4, <1>5, <2>3, <3>5 DEF First
      <4>2. handler[w] = << UBoot[w][1], Patched[2] >>
        BY <2>1, <3>5 DEF Restoring
      <4>3. handler'[w] = UBoot[w]
        BY <3>2, <3>3, <4>1, <4>2
      <4> QED BY <1>1, <2>1, <4>1, <4>3 DEF Restoring
    <3> QED BY <1>5, <2>3, <3>4, <3>5
  <2> QED BY <2>2, <2>3
<1>11. HandlersKept'
  <2>1. handler' = [w \in {SWI, IRQ} |-> handler'[w]]
    BY <1>1, <1>2 DEF HandlersKept
  <2>2. ASSUME NEW w \in {SWI, IRQ}, w \notin Vectors \/ ~has_ldr[w] PROVE handler'[w] = UBoot[w]
    BY <1>1, <1>2, <1>5, <1>8, <2>2 DEF HandlersKept
  <2>3. /\ \A w \in {SWI, IRQ} : w \notin Vectors' \/ ~has_ldr'[w] => handler'[w] = UBoot[w]
        /\ \A w \in Vectors' : has_ldr'[w] =>
             handler'[w] = Restoring(w, restored' - First(w)) /\ saved'[w] = UBoot[w]
    <3>1. ASSUME NEW w \in {SWI, IRQ}, w \notin Vectors' \/ ~has_ldr'[w] PROVE handler'[w] = UBoot[w]
      BY <1>1, <1>2, <2>2, <3>1
    <3>2. ASSUME NEW w \in Vectors', has_ldr'[w]
          PROVE  handler'[w] = Restoring(w, restored' - First(w)) /\ saved'[w] = UBoot[w]
      <4>1. w \in Vectors /\ has_ldr[w]
        BY <1>1, <1>2, <3>2
      <4> QED BY <1>10, <4>1, Zenon
    <3> QED BY <3>1, <3>2
  <2> QED BY <2>1, <2>3 DEF HandlersKept
<1>12. RestorePoints'
  <2>1. /\ has_ldr'[IRQ] \/ restored' < 2 => astray' = 0
        /\ ~has_ldr'[IRQ] /\ restored' >= 2 => astray' = restored' - 2
    <3>1. CASE v = IRQ
      BY <1>1, <1>2, <1>3, <1>4, <1>7, <3>1 DEF RestorePoints
    <3>2. CASE v = SWI
      BY <1>1, <1>2, <1>3, <1>4, <1>5, <1>7, <3>2 DEF RestorePoints
    <3> QED BY <1>5, <3>1, <3>2
  <2>2. /\ pc' \in {"restore", "returned", "reset"}
        /\ pc' = "restore" => restored' < Words' /\ has_ldr'[SWI]
        /\ pc' = "returned" => restored' = Words' /\ has_ldr'[SWI]
    BY <1>1, <1>2, <1>3, <1>4
  <2> QED BY <2>1, <2>2 DEF RestorePoints, InProgram
<1>13. pc' = "reset" => handler'[IRQ] = UBoot[IRQ]
  <2>1. pc' = "reset" => ~has_ldr[v]
    BY <1>1
  <2> QED BY <1>1, <1>2, <1>4, <1>5, <2>1 DEF HandlersKept
<1> QED BY <1>1, <1>2, <1>4, <1>9, <1>11, <1>12, <1>13 DEF BootInv, RestorePoints, InProgram

\* The programs.
LEMMA ProgramsStep ==
  ASSUME BootInv, rot13_main \/ typo_main \/ typehero_main \/ sleeptest_main
  PROVE  BootInv'
<1>1. CASE exit /\ \E label \in {"got", "over", "raised", "awake"} : At(label)
  BY <1>1, ExitStep DEF At, InProgram
<1>2. ASSUME NEW here, NEW next, At(here), Goto(next), UNCHANGED <<boot_vars, program>>,
             {here, next} \cap {"kmain", "restore", "returned", "reset", "undefined"} = {}
      PROVE  BootInv'
  BY <1>2, ProgramStep DEF At, Goto, InProgram
<1>3. CASE rot13_main
  BY <1>1, <1>2, <1>3 DEF rot13_main, Call, Compute
<1>4. CASE typo_main
  BY <1>2, <1>4 DEF typo_main, Call, Compute
<1>5. CASE typehero_main
  BY <1>1, <1>2, <1>5 DEF typehero_main, Call, Compute, lab3_raise
<1>6. CASE sleeptest_main
  BY <1>1, <1>2, <1>6 DEF sleeptest_main, Call, Compute
<1> QED BY <1>3, <1>4, <1>5, <1>6

\* The kernel, its interrupt handler, and time.
LEMMA KernelStep ==
  ASSUME BootInv, \/ lab2_c_swi_handler \/ lab3_c_swi_handler \/ reset
                  \/ Advance \/ c_irq_handler \/ boot_loader_irq
  PROVE  BootInv'
<1>1. CASE lab2_c_swi_handler \/ lab3_c_swi_handler
  <2>1. call' \in {call, "none"}
    BY <1>1 DEF lab2_c_swi_handler, lab3_c_swi_handler, doread, dowrite, read_full, read_eot,
       read_backspace, read_newline, read_letter
  <2> QED BY <1>1, <2>1, ProgramStep DEF lab2_c_swi_handler, lab3_c_swi_handler
<1>2. CASE reset \/ boot_loader_irq
  <2>1. /\ UNCHANGED <<call, handler, saved, has_ldr, restored, astray, program>>
        /\ pc # "kmain" /\ pc' \in {"reset", "undefined"}
    BY <1>2 DEF reset, boot_loader_irq, interrupted, Goto, console_vars, boot_vars
  <2>2. BootTypes' /\ HandlersKept' /\ RestorePoints'
    BY <2>1 DEF BootInv, BootTypes, HandlersKept, RestorePoints, InProgram, Vectors, Words, Lab, Is
  <2>3. pc' = "reset" => handler[IRQ] = UBoot[IRQ] \/ ~has_ldr[SWI]
    <3>1. CASE reset
      BY <3>1, TrapFindsKernel DEF reset, InProgram
    <3>2. CASE boot_loader_irq
      BY <3>2 DEF boot_loader_irq, Goto
    <3> QED BY <1>2, <3>1, <3>2
  <2>4. ASSUME pc' = "undefined" PROVE restored = 3 /\ has_ldr[IRQ]
    <3>1. handler[IRQ] # Patched /\ handler[IRQ] # UBoot[IRQ]
      BY <1>2, <2>4 DEF reset, boot_loader_irq, Goto
    <3>2. IRQ \in Vectors /\ has_ldr[IRQ] /\ First(IRQ) = 2 /\ restored \in Int
      BY <3>1 DEF BootInv, BootTypes, HandlersKept, First, SWI, IRQ, Words
    <3>3. handler[IRQ] = Restoring(IRQ, restored - 2)
      BY <2>1, <3>2 DEF BootInv, HandlersKept
    <3> QED BY <3>1, <3>2, <3>3 DEF Restoring
  <2> QED BY <2>1, <2>2, <2>3, <2>4 DEF BootInv
<1>3. CASE Advance \/ c_irq_handler
  BY <1>3, ProgramStep DEF Advance, c_irq_handler, console_vars
<1> QED BY <1>1, <1>2, <1>3

\* Whatever the vectors hold at the start and whatever the program does: when the
\* kernel returns, the boot loader has its handlers, and until exit every call and
\* interrupt finds the kernel's, where a handler was found; the words that have no
\* place go to ERROR_CASE, and an interrupt that finds half a handler comes at the
\* one point between its words (lab 2: kernel.c, labs 3 and 4: main.c).
THEOREM HandlersRestored == Spec => []BootLoaderRestored
<1>1. BootInv /\ [Next]_vars => BootInv'
  <2>1. CASE UNCHANGED vars
    BY <2>1, ProgramStep DEF vars, console_vars
  <2> QED BY <2>1, StartStep, ProgramsStep, KernelStep, RestoreStep DEF Next
<1>2. BootInv => BootLoaderRestored
  <2> SUFFICES ASSUME BootInv PROVE BootLoaderRestored
    OBVIOUS
  <2>1. ASSUME pc = "returned" PROVE handler = UBoot /\ astray = IF has_ldr[IRQ] THEN 0 ELSE 2
    <3>1. /\ restored = Words
          /\ (Words = 2 /\ Vectors = {SWI}) \/ (Words = 4 /\ Vectors = {SWI, IRQ})
          /\ HandlersKept /\ RestorePoints /\ BootTypes
      BY <2>1 DEF BootInv, RestorePoints, Words, Vectors
    <3>2. ASSUME NEW v \in Vectors, has_ldr[v] PROVE handler[v] = UBoot[v]
      <4>1. restored - First(v) \in Int /\ restored - First(v) >= 2
        BY <3>1 DEF First, SWI, IRQ
      <4>2. handler[v] = Restoring(v, restored - First(v))
        BY <2>1, <3>1, <3>2 DEF HandlersKept
      <4> QED BY <4>1, <4>2 DEF Restoring
    <3>3. handler = UBoot
      BY <3>1, <3>2 DEF HandlersKept, UBoot
    <3>4. ~has_ldr[IRQ] => Words = 4
      BY <3>1 DEF Words, Lab, Is, BootTypes
    <3> QED BY <3>1, <3>3, <3>4 DEF RestorePoints
  <2>2. InProgram => \A v \in Vectors : handler[v] = UBoot[v] <=> ~has_ldr[v]
    <3>1. SUFFICES ASSUME InProgram, NEW v \in Vectors PROVE handler[v] = UBoot[v] <=> ~has_ldr[v]
      OBVIOUS
    <3>2. /\ restored = 0 /\ v \in {SWI, IRQ} /\ has_ldr[v] \in BOOLEAN /\ pc # "kmain"
          /\ restored - First(v) \in Int /\ restored - First(v) < 1
      BY <3>1, VectorsAre DEF BootInv, BootTypes, RestorePoints, First, InProgram
    <3>3. Restoring(v, restored - First(v)) = Patched
      BY <3>2 DEF Restoring
    <3> QED BY <3>2, <3>3, PatchedIsNew DEF BootInv, HandlersKept
  <2>3. pc = "undefined" => handler[IRQ] = << UBoot[IRQ][1], Patched[2] >>
    <3>1. SUFFICES ASSUME pc = "undefined" PROVE handler[IRQ] = << UBoot[IRQ][1], Patched[2] >>
      OBVIOUS
    <3>2. restored = 3 /\ has_ldr[IRQ] /\ IRQ \in Vectors
      BY <3>1 DEF BootInv, BootTypes, Words, Vectors
    <3>3. restored - First(IRQ) = 1
      BY <3>2 DEF First, SWI, IRQ
    <3>4. handler[IRQ] = Restoring(IRQ, restored - First(IRQ))
      BY <3>1, <3>2 DEF BootInv, HandlersKept
    <3> QED BY <3>3, <3>4 DEF Restoring
  <2> QED BY <2>1, <2>2, <2>3 DEF BootInv, BootLoaderRestored, InProgram
<1> QED BY BootInit, <1>1, <1>2, PTL DEF Spec

------------------------------------------------------------------------------
(* typehero.                                                                 *)

\* There are interrupts in sleeptest only.
QuietTimer == ~Is("sleeptest") => ossr_m0 = 0

GameTypes ==
  data \in [target : Letters \cup {Unused}, step : Nat, score : Int, highscore : Int,
            streak : Nat, total_steps : Nat]

GameInv == QuietTimer /\ (Is("typehero") => GameTypes) /\ GameRules

LEMMA GameInit == Init => GameInv
<1> SUFFICES ASSUME Init PROVE GameInv
  OBVIOUS
<1>1. QuietTimer
  BY DEF Init, QuietTimer
<1>2. CASE Is("typehero")
  <2>1. data = [target |-> Unused, step |-> FIRST_STEP, score |-> 0,
                highscore |-> 0, streak |-> 0, total_steps |-> 0]
    BY <1>2 DEF Init, InitialData, Is
  <2>2. GameTypes
    BY <2>1, LabsAssumption DEF GameTypes
  <2> QED BY <1>1, <2>1, <2>2, LabsAssumption DEF GameInv, GameRules, Init
<1> QED BY <1>1, <1>2 DEF GameInv, GameRules

\* A hit, in a step that is not 0.
LEMMA ScoredKeepsRules ==
  ASSUME GameInv, Is("typehero"), program' = program, data.step > 0, data' = scored(data),
         pc' = "round"
  PROVE  GameTypes' /\ GameRules'
<1>1. GameTypes /\ data.streak <= STREAK /\ STREAK \in Nat
  BY LabsAssumption DEF GameInv, GameRules
<1> DEFINE done == data.streak + 1 > STREAK
           score == data.score + (IF done THEN 1 + BONUS ELSE 1)
           high == IF data.score + 1 > data.highscore THEN data.score + 1 ELSE data.highscore
           streak == IF done THEN 0 ELSE data.streak + 1
           step == IF done THEN data.step - 1 ELSE data.step
<1>2. GameTypes'
  <2>1. score \in Int /\ high \in Int /\ streak \in Nat /\ step \in Nat
    BY <1>1 DEF GameTypes, BONUS
  <2>2. data' = [data EXCEPT !.score = score, !.highscore = high, !.streak = streak, !.step = step]
    BY DEF scored
  <2> HIDE DEF score, high, streak, step
  <2> QED BY <1>1, <2>1, <2>2 DEF GameTypes
<1>3. /\ data'.score = data.score + (IF data.streak + 1 > STREAK THEN 1 + BONUS ELSE 1)
      /\ data'.highscore = IF data.score + 1 > data.highscore THEN data.score + 1
                           ELSE data.highscore
      /\ data'.streak = IF data.streak + 1 > STREAK THEN 0 ELSE data.streak + 1
      /\ data'.step = IF data.streak + 1 > STREAK THEN data.step - 1 ELSE data.step
  BY <1>1 DEF GameTypes, scored
<1>4. /\ data.score \in Int /\ data.highscore \in Int /\ data.streak \in Nat
      /\ data.step \in Nat
  BY <1>1 DEF GameTypes
<1> QED BY <1>1, <1>2, <1>3, <1>4 DEF GameRules, BONUS

LEMMA MissedType ==
  ASSUME GameTypes, NEW score \in Int, data' = [data EXCEPT !.score = score, !.streak = 0]
  PROVE  GameTypes'
BY DEF GameTypes

\* A miss, which the rules charge by the step.
LEMMA MissedKeepsRules ==
  ASSUME GameInv, Is("typehero"), program' = program, data.step > 0, NEW diff \in Nat,
         data' = missed(data, diff), pc' \in {"over", "round"},
         pc' = "over" => data'.score < -LOSS
  PROVE  GameTypes' /\ GameRules'
<1>1. GameTypes /\ data.streak <= STREAK /\ STREAK \in Nat
  BY LabsAssumption DEF GameInv, GameRules
<1>2. data.step \in Nat \ {0} /\ data.score \in Int /\ data.highscore \in Int
  BY <1>1 DEF GameTypes
<1> DEFINE charge == diff \div data.step
<1>3. charge \in Nat
  BY <1>2, DivMod
<1> HIDE DEF charge
<1>4. data' = [data EXCEPT !.score = @ - (charge + 1), !.streak = 0]
  BY DEF missed, charge
<1>5. /\ data'.score = data.score - (charge + 1) /\ data'.streak = 0
      /\ data'.highscore = data.highscore /\ data'.step = data.step
  BY <1>1, <1>4 DEF GameTypes
<1>6. GameTypes'
  <2> DEFINE score == data.score - (charge + 1)
  <2>1. score \in Int
    BY <1>2, <1>3
  <2> HIDE DEF score
  <2>2. data' = [data EXCEPT !.score = score, !.streak = 0]
    BY <1>4 DEF score
  <2> QED BY <1>1, <2>1, <2>2, MissedType
<1>7. /\ data.score \in Int /\ data.highscore \in Int /\ LOSS \in Nat
      /\ data'.score < data.score
  BY <1>1, <1>2, <1>3, <1>5, LabsAssumption
<1>8. GameRules'
  <2>1. data'.score > data'.highscore => data'.score <= data'.highscore + BONUS
    <3>1. data.score > data.highscore => data.score <= data.highscore + BONUS
      BY DEF GameInv, GameRules
    <3> QED BY <1>5, <1>7, <1>2, <1>3, <3>1 DEF BONUS
  <2>2. data'.step >= 0 /\ data'.streak <= STREAK /\ ~(data'.streak > 0)
    BY <1>1, <1>2, <1>5
  <2>3. pc' # "raised" /\ pc' # "returned"
    OBVIOUS
  <2> QED BY <1>5, <2>1, <2>2, <2>3 DEF GameRules
<1> QED BY <1>6, <1>8

\* The program.
LEMMA TypeheroStep ==
  ASSUME GameInv, typehero_main
  PROVE  GameInv'
<1>1. Is("typehero") /\ UNCHANGED <<program, ossr_m0>> /\ GameTypes
  BY DEF typehero_main, Call, Compute, exit, lab3_raise, time_vars, GameInv
<1>2. QuietTimer'
  BY <1>1 DEF QuietTimer, GameInv, Is
<1>3. CASE At("main") /\ Call(read(1), "round") /\ UNCHANGED data
  BY <1>1, <1>2, <1>3 DEF Call, Goto, GameInv, GameTypes, GameRules, Is
<1>4. ASSUME NEW c \in Letters,
             data' = [data EXCEPT !.target = c, !.total_steps = @ + 1], Call(read(1), "judge")
      PROVE  GameInv'
  <2>1. /\ GameTypes'
        /\ data'.score = data.score /\ data'.highscore = data.highscore
        /\ data'.streak = data.streak /\ data'.step = data.step
    <3> DEFINE steps == data.total_steps + 1
    <3>1. steps \in Nat
      BY <1>1 DEF GameTypes
    <3> HIDE DEF steps
    <3>2. data' = [data EXCEPT !.target = c, !.total_steps = steps]
      BY <1>4 DEF steps
    <3> QED BY <1>1, <3>1, <3>2 DEF GameTypes
  <2> QED BY <1>1, <1>2, <1>4, <2>1 DEF Call, Goto, GameInv, GameRules, Is
<1>5. ASSUME NEW diff \in Reactions, NEW hit, hit = (diff < data.step /\ mem[0] = data.target),
             Compute(IF ~hit /\ data.step = 0 THEN "raised"
                     ELSE IF ~hit /\ missed(data, diff).score < -LOSS THEN "over"
                     ELSE "round"),
             data' = IF hit THEN scored(data)
                     ELSE IF data.step = 0 THEN data ELSE missed(data, diff)
      PROVE  GameInv'
  <2>1. diff \in Nat /\ data.step \in Nat
    BY <1>1, LabsAssumption DEF Reactions, GameTypes
  <2>2. CASE hit
    <3>1. data' = scored(data) /\ pc' = "round"
      BY <1>5, <2>2 DEF Compute, Goto
    <3>2. diff < data.step
      BY <1>5, <2>2
    <3>3. data.step > 0
      BY <2>1, <3>2
    <3> QED BY <1>1, <1>2, <3>1, <3>3, ScoredKeepsRules DEF GameInv
  <2>3. CASE ~hit /\ data.step = 0
    <3>1. pc' = "raised" /\ data' = data
      BY <1>5, <2>3 DEF Compute, Goto
    <3> QED BY <1>1, <1>2, <2>3, <3>1 DEF GameInv, GameTypes, GameRules, Is
  <2>4. CASE ~hit /\ data.step # 0
    <3>1. /\ data' = missed(data, diff)
          /\ pc' = IF missed(data, diff).score < -LOSS THEN "over" ELSE "round"
      BY <1>5, <2>4 DEF Compute, Goto
    <3> QED BY <1>1, <1>2, <2>1, <2>4, <3>1, MissedKeepsRules DEF GameInv
  <2> QED BY <2>2, <2>3, <2>4
<1>6. CASE (At("over") \/ At("raised")) /\ exit
  BY <1>1, <1>2, <1>6 DEF At, exit, Goto, GameInv, GameTypes, GameRules, Is
<1> QED BY <1>3, <1>4, <1>5, <1>6 DEF typehero_main, lab3_raise

\* A step that leaves the game where it is.
LEMMA GameSame ==
  ASSUME GameInv, QuietTimer', UNCHANGED <<program, data>>,
         pc' = pc \/ pc' \in {"main", "reset"}
  PROVE  GameInv'
BY DEF GameInv, GameTypes, GameRules, Is

\* In every game, whatever the step at the start, the length of a streak and the loss
\* that ends it: the high score keeps up with the score but for a bonus, and the game
\* ends by a loss or, after the streaks have used up the step, by a division by zero
\* (typehero.c:104-124).
THEOREM GameByRules == Spec => []GameRules
<1>1. GameInv /\ [Next]_vars => GameInv'
  <2> SUFFICES ASSUME GameInv, [Next]_vars PROVE GameInv'
    OBVIOUS
  <2>1. CASE lab2_main \/ lab3_kmain \/ lab4_kmain \/ reset \/ UNCHANGED vars
            \/ lab2_c_swi_handler \/ lab3_c_swi_handler
    <3>1. /\ UNCHANGED <<program, data, ossr_m0>>
          /\ pc' = pc \/ pc' \in {"main", "reset"}
      BY <2>1 DEF lab2_main, lab3_kmain, lab4_kmain, started, lab3_init_timer, lab4_init_timer,
         reset, vars, lab2_c_swi_handler, lab3_c_swi_handler, Goto, time_vars
    <3>2. QuietTimer'
      BY <3>1 DEF QuietTimer, GameInv, Is
    <3> QED BY <3>1, <3>2, GameSame
  <2>2. CASE rot13_main \/ typo_main \/ sleeptest_main \/ Advance
    <3>1. ~Is("typehero") /\ UNCHANGED program
      BY <2>2 DEF rot13_main, typo_main, sleeptest_main, Advance, Is, Call, Compute, exit
    <3>2. UNCHANGED ossr_m0 \/ Is("sleeptest")
      BY <2>2 DEF rot13_main, typo_main, sleeptest_main, Advance, Call, Compute, exit, time_vars
    <3> QED BY <3>1, <3>2 DEF GameInv, GameRules, QuietTimer, Is
  <2>3. CASE typehero_main
    BY <2>3, TypeheroStep
  <2>4. CASE c_irq_handler \/ boot_loader_irq
    <3>1. program' = program /\ ossr_m0 = 1
      BY <2>4 DEF c_irq_handler, boot_loader_irq, interrupted
    <3>2. program = "sleeptest"
      BY <3>1 DEF GameInv, QuietTimer, Is
    <3> QED BY <3>1, <3>2 DEF GameInv, GameRules, QuietTimer, Is
  <2>5. CASE restore_old_handlers
    <3>1. /\ UNCHANGED <<program, data, ossr_m0>> /\ pc = "restore"
          /\ pc' \in {"restore", "returned", "reset"}
      BY <2>5 DEF restore_old_handlers, Goto, time_vars
    <3> QED BY <3>1 DEF GameInv, GameTypes, GameRules, QuietTimer, Is
  <2> QED BY <2>1, <2>2, <2>3, <2>4, <2>5 DEF Next
<1>2. GameInv => GameRules
  BY DEF GameInv
<1> QED BY GameInit, <1>1, <1>2, PTL DEF Spec

------------------------------------------------------------------------------
(* sleeptest.                                                                *)

Round(t) == t \div OSCR_RANGE

Record ==
  [millis : Nat, start : Nat \cup {-1}, low : Nat, now : Nat, called : Nat,
   at : Nat, pending : BOOLEAN, taken : BOOLEAN, wrong : BOOLEAN]

TimerTypes ==
  /\ ticks \in Nat /\ rollovercount \in Nat /\ ossr_m0 \in {0, 1}
  /\ start_time \in 0 .. OSCR_RANGE - 1
  /\ data \in Record
  /\ data.called <= data.at /\ data.at <= ticks

\* A round has begun, less than half of it ago.
Recent(t) == t % OSCR_RANGE < OSCR_RANGE \div 2 \/ t % OSCR_RANGE = 0

\* The count, and the bit until it is handled.
CountIsRounds ==
  /\ Round(ticks) = rollovercount + ossr_m0
  /\ ossr_m0 = 1 => Recent(ticks)
  /\ pc = "kmain" => ticks = 0 /\ rollovercount = 0

\* Between the two reads of dotime: less than half a round has passed, so that at most
\* one round has ended, and none if one had just ended before.
CountBetweenReads ==
  pc = "read" =>
    /\ data.low = data.at % OSCR_RANGE
    /\ ticks = data.at \/ ticks - data.at < OSCR_RANGE \div 2
    /\ IF data.pending THEN Recent(data.at) /\ Round(ticks) = Round(data.at)
       ELSE rollovercount = Round(data.at) + IF data.taken THEN 1 ELSE 0

LastReading ==
  pc \in {"sleeping", "awake"} /\ data.start # -1 /\ data.now # data.at =>
    \/ data.now = data.at - OSCR_RANGE /\ data.pending
    \/ data.now = data.at + OSCR_RANGE /\ data.taken /\ ~data.pending

\* A sleep with right readings only.
SleepRight ==
  /\ pc \in {"kmain", "main"} => data.start = -1
  /\ ~data.wrong =>
       /\ data.start # -1 => data.start >= data.called
       /\ pc = "awake" => data.at - data.called >= data.millis

TimeInv == TimerTypes /\ CountIsRounds /\ CountBetweenReads /\ LastReading /\ SleepRight
RoundsInv == Is("sleeptest") => TimeInv

\* A time that is further on in its round, and one less than a round later.
LEMMA SameRound ==
  ASSUME NEW R \in Nat \ {0}, NEW a \in Nat, NEW t \in Nat, a <= t
  PROVE  /\ (a % R) + (t - a) < R => t \div R = a \div R
         /\ t - a < R => t \div R <= (a \div R) + 1
<1> DEFINE p == a \div R
           q == t \div R
           u == a % R
           v == t % R
<1>1. /\ p \in Nat /\ u \in 0 .. R - 1 /\ a = R * p + u
      /\ q \in Nat /\ v \in 0 .. R - 1 /\ t = R * q + v
  BY DivMod
<1> HIDE DEF p, q, u, v
<1>2. p <= q
  BY <1>1, Rounds
<1>3. ASSUME u + (t - a) < R PROVE q = p
  <2>1. R * q + v <= R * p + (u + (t - a)) /\ u + (t - a) \in 0 .. R - 1
    BY <1>1, <1>3
  <2>2. q <= p
    BY <1>1, <2>1, Rounds
  <2> QED BY <1>1, <1>2, <2>2
<1>4. ASSUME t - a < R PROVE q <= p + 1
  <2>1. R * (p + 1) = R * p + R
    BY <1>1
  <2>2. CASE u + (t - a) < R
    BY <1>1, <1>3, <2>2
  <2>3. CASE u + (t - a) >= R
    <3>1. R * q + v <= R * (p + 1) + (u + (t - a) - R) /\ u + (t - a) - R \in 0 .. R - 1
      BY <1>1, <1>4, <2>1, <2>3
    <3> QED BY <1>1, <3>1, Rounds
  <2> QED BY <1>1, <2>2, <2>3
<1> QED BY <1>3, <1>4 DEF p, q, u

\* The half of a round.
LEMMA Half ==
  /\ OSCR_RANGE \in Nat \ {0} /\ OSCR_RANGE \div 2 \in Nat
  /\ 2 * (OSCR_RANGE \div 2) <= OSCR_RANGE
BY LabsAssumption

\* Half a round after a round has begun, or earlier, it has not ended.
LEMMA RecentRound ==
  ASSUME NEW a \in Nat, NEW t \in Nat, a <= t, Recent(a),
         0 < OSCR_RANGE \div 2, t - a <= OSCR_RANGE \div 2
  PROVE  Round(t) = Round(a)
<1> DEFINE u == a % OSCR_RANGE
           half == OSCR_RANGE \div 2
<1>1. (u < half \/ u = 0) /\ u \in Nat
  BY Half, DivMod DEF Recent
<1>2. 0 < half /\ half \in Nat /\ 2 * half <= OSCR_RANGE /\ t - a <= half
  BY Half
<1> HIDE DEF u, half
<1>3. u + (t - a) < OSCR_RANGE
  BY <1>1, <1>2, Half
<1> QED BY <1>3, SameRound, Half DEF u, Round

\* With the next tick either a round begins, and the counter matches, or not.
LEMMA NextMatch ==
  ASSUME NEW t \in Nat, start_time \in 0 .. OSCR_RANGE - 1
  PROVE  /\ oscr(t + 1) = start_time => Round(t + 1) = Round(t) + 1 /\ Recent(t + 1)
         /\ oscr(t + 1) # start_time => Round(t + 1) = Round(t)
<1>1. t + 1 \in Nat
  OBVIOUS
<1>2. (t + 1) \div OSCR_RANGE =
        (t \div OSCR_RANGE) + (IF oscr(t + 1) = start_time THEN 1 ELSE 0)
  BY Half, NextTick DEF oscr
<1> DEFINE v == (t + 1) % OSCR_RANGE
<1>3. v \in 0 .. OSCR_RANGE - 1
  BY <1>1, Half, DivMod
<1>4. oscr(t + 1) = IF v < OSCR_RANGE - start_time THEN start_time + v
                    ELSE start_time + v - OSCR_RANGE
  BY <1>1, Half, CounterAt DEF oscr
<1> HIDE DEF v
<1>5. oscr(t + 1) = start_time => v = 0
  BY <1>3, <1>4, Half
<1>6. oscr(t + 1) = start_time => Recent(t + 1)
  BY <1>5 DEF v, Recent
<1>7. Round(t) \in Nat
  BY Half, DivMod DEF Round
<1> QED BY <1>2, <1>6, <1>7 DEF Round

LEMMA RoundsInit == Init => RoundsInv
<1> SUFFICES ASSUME Init, Is("sleeptest") PROVE TimeInv
  BY DEF RoundsInv
<1>1. data = [millis |-> 0, start |-> -1, low |-> 0, now |-> 0,
              called |-> 0, at |-> 0, pending |-> FALSE, taken |-> FALSE, wrong |-> FALSE]
  BY DEF Init, Is, InitialData
<1>2. /\ ticks = 0 /\ rollovercount = 0 /\ ossr_m0 = 0 /\ pc = "kmain"
      /\ start_time \in 0 .. OSCR_RANGE - 1
  BY DEF Init
<1>3. TimerTypes
  BY <1>1, <1>2 DEF TimerTypes, Record
<1>4. Round(ticks) = 0
  BY <1>2, Half DEF Round
<1> QED BY <1>1, <1>2, <1>3, <1>4
    DEF TimeInv, CountIsRounds, CountBetweenReads, LastReading, SleepRight

\* A tick of the counter.
LEMMA TickStep ==
  ASSUME TimeInv, Advance
  PROVE  TimeInv'
<1>1. /\ ticks \in Nat /\ ticks + 1 \in Nat /\ start_time \in 0 .. OSCR_RANGE - 1
      /\ data.at \in Nat /\ data.at <= ticks /\ rollovercount \in Nat /\ ossr_m0 \in {0, 1}
  BY DEF TimeInv, TimerTypes, Record
<1>2. /\ ticks' = ticks + 1 /\ UNCHANGED <<rollovercount, start_time, data, pc>>
      /\ ossr_m0' = IF oscr(ticks + 1) = start_time THEN 1 ELSE ossr_m0
      /\ pc \in {"main", "sleeping", "read", "restore", "returned"}
  BY DEF Advance
<1>3. /\ ossr_m0 = 1 => (ticks + 1) % OSCR_RANGE < OSCR_RANGE \div 2
      /\ pc = "read" => ticks + 1 - data.at < OSCR_RANGE \div 2
  BY DEF Advance
<1>4. TimerTypes'
  BY <1>1, <1>2 DEF TimeInv, TimerTypes, Record
<1>5. /\ oscr(ticks + 1) = start_time => Round(ticks + 1) = Round(ticks) + 1 /\ Recent(ticks + 1)
      /\ oscr(ticks + 1) # start_time => Round(ticks + 1) = Round(ticks)
  BY <1>1, NextMatch
<1>6. ossr_m0 = 1 => Round(ticks + 1) = Round(ticks) /\ Recent(ticks + 1)
  <2> SUFFICES ASSUME ossr_m0 = 1 PROVE Round(ticks + 1) = Round(ticks) /\ Recent(ticks + 1)
    OBVIOUS
  <2>1. Recent(ticks) /\ Recent(ticks + 1)
    BY <1>3 DEF TimeInv, CountIsRounds, Recent
  <2>2. (ticks + 1) % OSCR_RANGE \in Nat
    BY <1>1, Half, DivMod
  <2>3. 0 < OSCR_RANGE \div 2
    BY <1>3, <2>2, Half
  <2>4. ticks <= ticks + 1 /\ ticks + 1 - ticks <= OSCR_RANGE \div 2
    BY <1>1, <2>3, Half
  <2> QED BY <1>1, <2>1, <2>3, <2>4, RecentRound
<1>7. CountIsRounds'
  <2>1. Round(ticks) = rollovercount + ossr_m0
    BY DEF TimeInv, CountIsRounds
  <2>2. Round(ticks + 1) = rollovercount + ossr_m0'
    BY <1>1, <1>2, <1>5, <1>6, <2>1
  <2>3. ossr_m0' = 1 => Recent(ticks + 1)
    BY <1>1, <1>2, <1>5, <1>6
  <2> QED BY <1>2, <2>2, <2>3 DEF CountIsRounds, Round, Recent
<1>8. CountBetweenReads'
  <2>1. pc = "read" /\ data.pending => Round(ticks + 1) = Round(data.at)
    <3> SUFFICES ASSUME pc = "read", data.pending PROVE Round(ticks + 1) = Round(data.at)
      OBVIOUS
    <3>1. Recent(data.at)
      BY DEF TimeInv, CountBetweenReads
    <3>2. /\ data.at <= ticks + 1 /\ 0 < OSCR_RANGE \div 2
          /\ ticks + 1 - data.at <= OSCR_RANGE \div 2
      BY <1>1, <1>3, Half
    <3> QED BY <1>1, <3>1, <3>2, RecentRound
  <2> SUFFICES ASSUME pc = "read"
               PROVE  /\ data.low = (data.at) % OSCR_RANGE
                      /\ ticks' - data.at < OSCR_RANGE \div 2
                      /\ IF data.pending THEN Recent(data.at) /\ Round(ticks') = Round(data.at)
                         ELSE rollovercount = Round(data.at) + IF data.taken THEN 1 ELSE 0
    BY <1>2 DEF CountBetweenReads, Round, Recent
  <2>2. ticks' - data.at < OSCR_RANGE \div 2
    BY <1>1, <1>2, <1>3
  <2>3. data.pending => Round(ticks') = Round(data.at)
    BY <1>2, <2>1
  <2> QED BY <2>2, <2>3 DEF TimeInv, CountBetweenReads
<1> QED BY <1>2, <1>4, <1>7, <1>8 DEF TimeInv, LastReading, SleepRight

\* An interrupt, between the reads of dotime or elsewhere.
LEMMA TimerStep ==
  ASSUME TimeInv, c_irq_handler
  PROVE  TimeInv'
<1>1. /\ UNCHANGED <<pc, ticks, start_time>> /\ ossr_m0 = 1 /\ ossr_m0' = 0
      /\ rollovercount' = rollovercount + 1 /\ data' = [data EXCEPT !.taken = TRUE]
      /\ pc # "kmain"
  BY DEF c_irq_handler, interrupted
<1>2. /\ data'.taken = TRUE /\ data'.low = data.low /\ data'.at = data.at
      /\ data'.pending = data.pending /\ data'.start = data.start /\ data'.now = data.now
      /\ data'.wrong = data.wrong /\ data'.called = data.called /\ data'.millis = data.millis
  BY <1>1 DEF TimeInv, TimerTypes, Record
<1>3. TimerTypes'
  <2>1. data' \in Record
    BY <1>1 DEF TimeInv, TimerTypes, Record
  <2> QED BY <1>1, <1>2, <2>1 DEF TimeInv, TimerTypes, Record
<1>4. /\ ticks \in Nat /\ data.at \in Nat /\ data.at <= ticks /\ rollovercount \in Nat
      /\ data.taken \in BOOLEAN /\ data.pending \in BOOLEAN
  BY DEF TimeInv, TimerTypes, Record
<1>5. Round(ticks) = rollovercount + 1
  BY <1>1 DEF TimeInv, CountIsRounds
<1>6. CountIsRounds'
  BY <1>1, <1>4, <1>5 DEF TimeInv, CountIsRounds, Round
<1>7. ASSUME pc = "read", ~data.pending PROVE rollovercount = Round(data.at) /\ ~data.taken
  <2>1. ticks - data.at < OSCR_RANGE
    BY <1>4, <1>7, Half DEF TimeInv, CountBetweenReads
  <2>2. Round(ticks) <= Round(data.at) + 1 /\ Round(data.at) \in Nat
    BY <1>4, <2>1, Half, SameRound, DivMod DEF Round
  <2>3. rollovercount = Round(data.at) + IF data.taken THEN 1 ELSE 0
    BY <1>7 DEF TimeInv, CountBetweenReads
  <2> QED BY <1>4, <1>5, <2>2, <2>3
<1>8. CountBetweenReads'
  BY <1>1, <1>2, <1>4, <1>7 DEF TimeInv, CountBetweenReads, Round, Recent
<1>9. LastReading' /\ SleepRight'
  BY <1>1, <1>2 DEF TimeInv, LastReading, SleepRight
<1> QED BY <1>3, <1>6, <1>8, <1>9 DEF TimeInv

\* dotime, which reads the counter ...
LEMMA FirstReadStep ==
  ASSUME TimeInv, pc' = "read", UNCHANGED <<ticks, start_time, rollovercount, ossr_m0>>,
         NEW pending \in BOOLEAN, pending <=> ossr_m0 = 1,
         data' = [data EXCEPT !.low = dotime_low, !.at = ticks,
                              !.pending = pending, !.taken = FALSE]
  PROVE  TimeInv'
<1>1. /\ ticks \in Nat /\ start_time \in 0 .. OSCR_RANGE - 1 /\ data.called \in Nat
      /\ data.at \in Nat /\ data.called <= data.at /\ data.at <= ticks
      /\ ossr_m0 \in {0, 1} /\ rollovercount \in Nat
  BY DEF TimeInv, TimerTypes, Record
<1>2. dotime_low = ticks % OSCR_RANGE
  BY <1>1, Half, LowPart DEF dotime_low, oscr
<1>3. dotime_low \in Nat
  BY <1>1, <1>2, Half, DivMod
<1>4. /\ data'.low = dotime_low /\ data'.at = ticks /\ data'.pending = pending
      /\ data'.taken = FALSE /\ data'.start = data.start /\ data'.wrong = data.wrong
      /\ data'.called = data.called
  BY DEF TimeInv, TimerTypes, Record
<1>5. TimerTypes'
  <2>1. data' \in Record
    BY <1>1, <1>3 DEF TimeInv, TimerTypes, Record
  <2> QED BY <1>1, <1>4, <2>1 DEF TimerTypes
<1>6. Round(ticks) = rollovercount + ossr_m0 /\ (ossr_m0 = 1 => Recent(ticks))
  BY DEF TimeInv, CountIsRounds
<1>7. CountIsRounds'
  BY <1>6 DEF CountIsRounds, Round, Recent
<1>8. CountBetweenReads'
  BY <1>1, <1>2, <1>4, <1>6 DEF CountBetweenReads, Round, Recent
<1> QED BY <1>4, <1>5, <1>7, <1>8 DEF TimeInv, LastReading, SleepRight

\* ... and then the count.
LEMMA SecondReadStep ==
  ASSUME TimeInv, pc = "read", UNCHANGED <<ticks, start_time, rollovercount, ossr_m0>>,
         NEW now, now = dotime(data.low),
         NEW start, start = IF data.start = -1 THEN now ELSE data.start,
         data' = [data EXCEPT !.now = now, !.start = start, !.wrong = @ \/ now # data.at],
         pc' = IF now < start + data.millis THEN "sleeping" ELSE "awake"
  PROVE  TimeInv'
<1> DEFINE R == OSCR_RANGE
           n == Round(data.at)
<1>1. /\ ticks \in Nat /\ data.at \in Nat /\ rollovercount \in Nat /\ ossr_m0 \in {0, 1}
      /\ data.start \in Nat \cup {-1} /\ data.millis \in Nat /\ data.called \in Nat
      /\ data.called <= data.at /\ data.at <= ticks
      /\ data.taken \in BOOLEAN /\ data.pending \in BOOLEAN /\ data.wrong \in BOOLEAN
  BY DEF TimeInv, TimerTypes, Record
<1>2. R \in Nat \ {0} /\ n \in Nat /\ data.low \in Nat /\ data.at = R * n + data.low
  <2> DEFINE u == (data.at) % OSCR_RANGE
  <2>1. n \in Nat /\ u \in Nat /\ data.at = R * n + u
    BY <1>1, Half, DivMod DEF Round
  <2>2. data.low = u
    BY DEF TimeInv, CountBetweenReads
  <2> HIDE DEF u, n
  <2> QED BY <2>1, <2>2, Half
<1>3. now = data.low + rollovercount * R
  BY DEF dotime
<1>4. IF data.pending THEN n = rollovercount + ossr_m0
      ELSE rollovercount = n + IF data.taken THEN 1 ELSE 0
  BY DEF TimeInv, CountBetweenReads, CountIsRounds
<1> HIDE DEF n
<1>5. \/ now = data.at
      \/ now = data.at - R /\ data.pending
      \/ now = data.at + R /\ data.taken /\ ~data.pending
  <2>1. CASE rollovercount = n
    BY <1>1, <1>2, <1>3, <2>1
  <2>2. CASE data.pending /\ n = rollovercount + 1
    <3>1. R * n = R * rollovercount + R
      BY <1>1, <1>2, <2>2
    <3> QED BY <1>1, <1>2, <1>3, <2>2, <3>1
  <2>3. CASE ~data.pending /\ data.taken /\ rollovercount = n + 1
    <3>1. rollovercount * R = R * n + R
      BY <1>1, <1>2, <2>3
    <3> QED BY <1>1, <1>2, <1>3, <2>3, <3>1
  <2> QED BY <1>1, <1>2, <1>4, <2>1, <2>2, <2>3
<1>6. now \in Nat
  BY <1>1, <1>2, <1>3
<1>7. start \in Nat
  BY <1>1, <1>6
<1>8. /\ data'.now = now /\ data'.start = start /\ data'.wrong = (data.wrong \/ now # data.at)
      /\ data'.at = data.at /\ data'.pending = data.pending /\ data'.taken = data.taken
      /\ data'.called = data.called /\ data'.millis = data.millis /\ data'.low = data.low
  BY DEF TimeInv, TimerTypes, Record
<1>9. TimerTypes'
  BY <1>6, <1>7, <1>8 DEF TimeInv, TimerTypes, Record
<1>10. CountIsRounds' /\ CountBetweenReads'
  BY DEF TimeInv, CountIsRounds, CountBetweenReads, Round, Recent
<1>11. LastReading'
  BY <1>5, <1>8 DEF LastReading
<1>12. SleepRight'
  <2> SUFFICES ASSUME ~data'.wrong
               PROVE  /\ start >= data.called
                      /\ pc' = "awake" => data.at - data.called >= data.millis
    BY <1>8 DEF SleepRight
  <2>1. ~data.wrong /\ now = data.at
    BY <1>8
  <2>2. start >= data.called
    BY <1>1, <2>1 DEF TimeInv, SleepRight
  <2> QED BY <1>1, <1>7, <2>1, <2>2
<1> QED BY <1>9, <1>10, <1>11, <1>12 DEF TimeInv

\* The program.
LEMMA SleeptestStep ==
  ASSUME TimeInv, sleeptest_main
  PROVE  TimeInv'
<1>1. UNCHANGED <<ticks, start_time, rollovercount, ossr_m0>>
  BY DEF sleeptest_main, Compute, exit, time_vars
<1>2. ASSUME NEW n \in Sleeps, pc = "main", pc' = IF n = 0 THEN "awake" ELSE "sleeping",
             data' = [data EXCEPT !.millis = n, !.called = ticks, !.now = ticks, !.at = ticks]
      PROVE  TimeInv'
  <2>1. n \in Nat /\ ticks \in Nat
    BY LabsAssumption DEF TimeInv, TimerTypes, Record
  <2>2. /\ data'.millis = n /\ data'.called = ticks /\ data'.now = ticks /\ data'.at = ticks
        /\ data'.start = -1
    BY <1>2 DEF TimeInv, TimerTypes, Record, SleepRight
  <2>3. TimerTypes'
    <3>1. data' \in Record
      BY <1>2, <2>1 DEF TimeInv, TimerTypes, Record
    <3> QED BY <1>1, <2>1, <2>2, <3>1 DEF TimeInv, TimerTypes
  <2>4. CountIsRounds'
    BY <1>1, <1>2 DEF TimeInv, CountIsRounds, Round, Recent
  <2> QED BY <1>2, <2>1, <2>2, <2>3, <2>4
      DEF TimeInv, CountBetweenReads, LastReading, SleepRight
<1>3. CASE /\ At("sleeping") /\ Compute("read")
           /\ data' = [data EXCEPT !.low = dotime_low, !.at = ticks,
                                   !.pending = (ossr_m0 = 1), !.taken = FALSE]
  <2> DEFINE pending == ossr_m0 = 1
  <2>1. /\ pc' = "read"
        /\ data' = [data EXCEPT !.low = dotime_low, !.at = ticks,
                                !.pending = pending, !.taken = FALSE]
    BY <1>3, Zenon DEF Compute, Goto
  <2>2. pending \in BOOLEAN /\ (pending <=> ossr_m0 = 1)
    OBVIOUS
  <2> HIDE DEF pending
  <2> QED BY <1>1, <2>1, <2>2, FirstReadStep
<1>4. CASE /\ At("read")
           /\ LET now == dotime(data.low)
                  start == IF data.start = -1 THEN now ELSE data.start
              IN  /\ data' = [data EXCEPT !.now = now, !.start = start,
                                          !.wrong = @ \/ now # data.at]
                  /\ Compute(IF now < start + data.millis THEN "sleeping" ELSE "awake")
  BY <1>1, <1>4, SecondReadStep DEF Compute, Goto, At
<1>5. CASE At("awake") /\ exit
  BY <1>1, <1>5 DEF exit, Goto, TimeInv, TimerTypes, Record, CountIsRounds, CountBetweenReads,
     LastReading, SleepRight, Round, Recent
<1> QED BY <1>2, <1>3, <1>4, <1>5 DEF sleeptest_main, At, Compute, Goto

\* For every width of the counter, whenever interrupts are taken within half a round and
\* the reads of dotime are less than that apart: the count of rounds is right, a time is
\* off by one round exactly if a round ends at its call, and a sleep whose times are
\* right lasts as long as asked (c_irq.c, c_swi.c:173-174, 196-199).
THEOREM TimeOfLabThree == Spec => []RoundsCounted
<1>1. RoundsInv /\ [Next]_vars => RoundsInv'
  <2> SUFFICES ASSUME RoundsInv, [Next]_vars, Is("sleeptest")' PROVE TimeInv'
    BY DEF RoundsInv
  <2>1. UNCHANGED program
    BY DEF Next, vars, lab2_main, lab3_kmain, lab4_kmain, started, reset, lab2_c_swi_handler,
       lab3_c_swi_handler, rot13_main, typo_main, typehero_main, sleeptest_main, Call, Compute,
       exit, lab3_raise, restore_old_handlers, Advance, c_irq_handler, boot_loader_irq
  <2>2. Is("sleeptest") /\ TimeInv
    BY <2>1 DEF Is, RoundsInv
  <2>3. ~(lab2_main \/ lab4_kmain \/ rot13_main \/ typo_main \/ typehero_main)
    BY <2>2 DEF lab2_main, lab4_kmain, Lab, rot13_main, typo_main, typehero_main, Is
  <2>4. CASE \/ lab3_kmain \/ reset \/ lab2_c_swi_handler \/ lab3_c_swi_handler
            \/ restore_old_handlers \/ boot_loader_irq \/ UNCHANGED vars
    <3>1. /\ UNCHANGED <<ticks, start_time, rollovercount, ossr_m0, data>>
          /\ \/ pc' = pc \/ (pc' = "main" /\ pc = "kmain")
             \/ pc' \in {"reset", "restore", "returned", "undefined"}
      <4>1. CASE lab3_kmain \/ lab2_c_swi_handler \/ lab3_c_swi_handler \/ UNCHANGED vars
        BY <2>2, <4>1 DEF lab3_kmain, lab3_init_timer, started, Goto, lab2_c_swi_handler,
           lab3_c_swi_handler, vars, time_vars, TimeInv, CountIsRounds
      <4>2. CASE reset \/ restore_old_handlers \/ boot_loader_irq
        BY <4>2 DEF reset, restore_old_handlers, boot_loader_irq, Goto, time_vars
      <4> QED BY <2>4, <4>1, <4>2
    <3> QED BY <2>2, <3>1 DEF TimeInv, TimerTypes, Record, CountIsRounds, CountBetweenReads,
               LastReading, SleepRight, Round, Recent
  <2>5. CASE sleeptest_main
    BY <2>2, <2>5, SleeptestStep
  <2>6. CASE Advance
    BY <2>2, <2>6, TickStep
  <2>7. CASE c_irq_handler
    BY <2>2, <2>7, TimerStep
  <2> QED BY <2>3, <2>4, <2>5, <2>6, <2>7 DEF Next
<1>2. RoundsInv => RoundsCounted
  <2> SUFFICES ASSUME TimeInv
               PROVE  /\ ticks \div OSCR_RANGE = rollovercount + ossr_m0
                      /\ pc \in {"sleeping", "awake"} /\ data.start # -1 /\ data.now # data.at =>
                           \/ data.now = data.at - OSCR_RANGE /\ data.pending
                           \/ data.now = data.at + OSCR_RANGE /\ data.taken /\ ~data.pending
                      /\ pc = "awake" /\ ~data.wrong => ticks - data.called >= data.millis
    BY DEF RoundsInv, RoundsCounted
  <2>1. pc = "awake" /\ ~data.wrong => ticks - data.called >= data.millis
    BY DEF TimeInv, SleepRight, TimerTypes, Record
  <2> QED BY <2>1 DEF TimeInv, CountIsRounds, Round, LastReading
<1> QED BY RoundsInit, <1>1, <1>2, PTL DEF Spec

------------------------------------------------------------------------------
(* Lines.                                                                    *)

\* The powers of ten that a time is compared with.
LEMMA Powers == 10 ^ 0 = 1 /\ \A j \in 0 .. 9 : 10 ^ j \in Nat \ {0}
<1>1. /\ 10 ^ 0 \in Nat \ {0} /\ 10 ^ 1 \in Nat \ {0} /\ 10 ^ 2 \in Nat \ {0}
      /\ 10 ^ 3 \in Nat \ {0} /\ 10 ^ 4 \in Nat \ {0} /\ 10 ^ 5 \in Nat \ {0}
      /\ 10 ^ 6 \in Nat \ {0} /\ 10 ^ 7 \in Nat \ {0} /\ 10 ^ 8 \in Nat \ {0}
      /\ 10 ^ 9 \in Nat \ {0}
  BY SMT
<1>2. ASSUME NEW j \in 0 .. 9 PROVE 10 ^ j \in Nat \ {0}
  <2>1. j = 0 \/ j = 1 \/ j = 2 \/ j = 3 \/ j = 4 \/ j = 5 \/ j = 6 \/ j = 7 \/ j = 8 \/ j = 9
    OBVIOUS
  <2> QED BY <1>1, <2>1
<1>3. 10 ^ 0 = 1
  BY SMT
<1> QED BY <1>2, <1>3

\* The number of the digits of a time; no digits for zero.
LEMMA LengthIs ==
  ASSUME NEW t \in Times
  PROVE  /\ t \in Nat /\ Length(t) \in 0 .. 9 /\ Length(t) + 2 <= BUFSIZE
         /\ Length(t) = 0 <=> t = 0
<1>1. t \in 0 .. 10 ^ 9 - 1 /\ Length(t) + 2 <= BUFSIZE
  BY TimesAssumption
<1>2. t \in Nat /\ t < 10 ^ 9
  BY <1>1, Powers
<1> DEFINE P(n) == 10 ^ n > t /\ (n > 0 => 10 ^ (n - 1) <= t)
           Above == {n \in 0 .. 9 : 10 ^ n > t}
<1>3. Above \in SUBSET Nat /\ 9 \in Above
  BY <1>2
<1>4. PICK m \in Above : \A n \in Above : m <= n
  BY <1>3, LeastExists
<1>5. P(m)
  <2>1. CASE m = 0
    BY <1>4, <2>1
  <2>2. CASE m > 0
    <3>1. m - 1 \in 0 .. 9 /\ m - 1 \notin Above
      BY <1>4, <2>2
    <3>2. ~(10 ^ (m - 1) > t)
      BY <3>1
    <3>3. 10 ^ (m - 1) \in Nat
      BY <3>1, Powers
    <3> QED BY <1>2, <1>4, <3>2, <3>3
  <2> QED BY <1>4, <2>1, <2>2
<1>6. \E n \in 0 .. 9 : P(n)
  BY <1>5
<1> HIDE DEF P
<1>7. (CHOOSE n \in 0 .. 9 : P(n)) \in 0 .. 9 /\ P(CHOOSE n \in 0 .. 9 : P(n))
  BY <1>6
<1>8. Length(t) \in 0 .. 9 /\ P(Length(t))
  BY <1>7 DEF Length, P
<1>9. Length(t) = 0 => t = 0
  BY <1>2, <1>8, Powers DEF P
<1>10. ASSUME Length(t) # 0 PROVE t # 0
  <2>1. Length(t) - 1 \in 0 .. 9
    BY <1>8, <1>10
  <2>2. 10 ^ (Length(t) - 1) \in Nat \ {0}
    BY <2>1, Powers, Zenon
  <2>3. 10 ^ (Length(t) - 1) <= t
    BY <1>8, <1>10 DEF P
  <2> QED BY <2>2, <2>3
<1> QED BY <1>1, <1>2, <1>8, <1>9, <1>10

\* The character of the line that cell k - 1 holds, until a time is shown.
Typed(k) == IF Is("rot13") /\ pc \in {"put", "written"} THEN Rot(line[k]) ELSE line[k]

\* What typo shows in cell k for time t.
Shown(t, k) ==
  IF k = Length(t) - 1 THEN "."
  ELSE Digit((t \div 10 ^ (IF k >= Length(t) THEN 0 ELSE Length(t) - 1 - k)) % 10)

LineTypes ==
  /\ DOMAIN mem = Cells /\ mem[BUFSIZE + 1] = "NUL"
  /\ line \in Seq(Letters \cup {"\n"}) /\ Len(line) <= BUFSIZE
  /\ call \in {"none", "read", "write"}
  /\ Is("typo") => DOMAIN data = {"lines", "t"}

\* While a line is read it has no end yet, and there is no result.
Reading ==
  call = "read" =>
    /\ pc \in {"got", "round", "judge"}
    /\ count \in 1 .. BUFSIZE /\ ret = STDIN_FILENO
    /\ line \in Seq(Letters) /\ LineIsEdited

\* The line is in the buffer, behind which its end puts a zero, until it is sent.
LineKept ==
  call # "read" /\ pc \in {"got", "put", "written"} =>
    /\ \A k \in 1 .. Len(line) : mem[k - 1] = Typed(k)
    /\ line # << >> /\ Last(line) = "\n" => mem[Len(line)] = "NUL"

\* What is sent is the buffer up to its first zero.
Sending ==
  /\ call = "write" => pc \in {"written", "shown"}
  /\ pc \in {"written", "shown"} =>
       /\ buf \in Cells /\ out = [k \in 1 .. buf |-> mem[k - 1]]
       /\ \A k \in 0 .. buf - 1 : mem[k] # "NUL"
       /\ call = "none" => mem[buf] = "NUL"

\* Then the buffer holds the time or, if it has no digits, a letter of the line.
TimeKept ==
  pc \in {"converted", "shown"} =>
    /\ Is("typo") /\ data.t \in Times
    /\ data.t > 0 => /\ \A k \in 0 .. Length(data.t) : mem[k] = Shown(data.t, k)
                     /\ mem[Length(data.t) + 1] = "NUL"
    /\ data.t = 0 => mem[1] = "NUL" /\ (line # << >> => mem[0] = line[1])

\* Of a read that filled the buffer the result is what it was before.
ReadResult ==
  call = "none" /\ pc \in {"got", "judge"} =>
    ret = IF pcount <= count THEN Len(line) ELSE STDIN_FILENO

LineInv == LineTypes /\ Reading /\ LineKept /\ Sending /\ TimeKept /\ ReadResult

\* A digit is no zero byte.
LEMMA DigitIs == \A d \in 0 .. 9 : Digit(d) # "NUL"
BY DEF Digit, Digits

LEMMA ShownIsWritten ==
  ASSUME NEW t \in Times, NEW k \in 0 .. Length(t)
  PROVE  Shown(t, k) # "NUL"
<1> DEFINE j == IF k >= Length(t) THEN 0 ELSE Length(t) - 1 - k
<1>1. t \in Nat /\ Length(t) \in 0 .. 9 /\ j \in 0 .. 9
  BY LengthIs
<1>2. 10 ^ j \in Nat \ {0}
  <2> HIDE DEF j
  <2> QED BY <1>1, Powers, Zenon
<1>3. (t \div 10 ^ j) % 10 \in 0 .. 9
  <2> HIDE DEF j
  <2> DEFINE q == t \div (10 ^ j)
  <2>1. q \in Nat
    BY <1>1, <1>2, DivMod
  <2> HIDE DEF q
  <2>2. q % 10 \in 0 .. 9
    BY <2>1
  <2> QED BY <2>2 DEF q
<1> QED BY <1>3, DigitIs, Zenon DEF Shown

\* convert, as far as what it shows goes.
LEMMA ConvertIs ==
  ASSUME NEW t \in Times, NEW m, DOMAIN m = Cells
  PROVE  /\ DOMAIN convert(t, m) = Cells /\ convert(t, m)[BUFSIZE + 1] = m[BUFSIZE + 1]
         /\ convert(t, m)[Length(t) + 1] = "NUL"
         /\ t > 0 => \A k \in 0 .. Length(t) : convert(t, m)[k] = Shown(t, k)
         /\ t = 0 => convert(t, m)[0] = m[0]
<1> DEFINE n == Length(t)
<1>1. t \in Nat /\ n \in 0 .. 9 /\ n + 2 <= BUFSIZE /\ (n = 0 <=> t = 0) /\ BUFSIZE \in Nat
  BY LengthIs, ConsoleAssumption
<1>2. \A k \in Cells :
        convert(t, m)[k] = IF k = n + 1 THEN "NUL"
                           ELSE IF n = 0 \/ k > n THEN m[k]
                           ELSE IF k = n THEN Digit(t % 10)
                           ELSE IF k = n - 1 THEN "."
                           ELSE Digit((t \div 10 ^ (n - 1 - k)) % 10)
  BY DEF convert
<1>3. DOMAIN convert(t, m) = Cells
  BY DEF convert
<1>4. t \div 10 ^ 0 = t
  BY <1>1, Powers
<1> HIDE DEF n
<1>5. n + 1 \in Cells /\ BUFSIZE + 1 \in Cells /\ 0 \in Cells /\ BUFSIZE + 1 # n + 1
      /\ BUFSIZE + 1 > n /\ 0 # n + 1 /\ 0 .. n \subseteq Cells
  BY <1>1 DEF Cells
<1>6. convert(t, m)[BUFSIZE + 1] = m[BUFSIZE + 1] /\ convert(t, m)[n + 1] = "NUL"
  BY <1>2, <1>5, Zenon
<1>7. t = 0 => convert(t, m)[0] = m[0]
  BY <1>1, <1>2, <1>5, Zenon
<1>8. ASSUME t > 0, NEW k \in 0 .. n PROVE convert(t, m)[k] = Shown(t, k)
  <2>0. k \in Cells /\ k # n + 1 /\ n # 0 /\ ~(k > n) /\ (k >= n <=> k = n) /\ n # n - 1
    BY <1>1, <1>5, <1>8
  <2>1. CASE k = n
    <3>1. convert(t, m)[k] = Digit(t % 10)
      BY <1>2, <2>0, <2>1, Zenon
    <3>2. Shown(t, k) = Digit((t \div 10 ^ 0) % 10)
      BY <2>0, <2>1 DEF Shown, n
    <3> QED BY <1>4, <3>1, <3>2
  <2>2. CASE k = n - 1
    BY <1>2, <2>0, <2>2, Zenon DEF Shown, n
  <2>3. CASE k # n /\ k # n - 1
    BY <1>2, <2>0, <2>3, Zenon DEF Shown, n
  <2> QED BY <2>1, <2>2, <2>3
<1> QED BY <1>3, <1>6, <1>7, <1>8 DEF n

\* Where the programs depend on the line or the time.
Points == {"got", "judge", "put", "written", "converted", "shown"}

LEMMA LineInit == Init => LineInv
<1> SUFFICES ASSUME Init PROVE LineInv
  OBVIOUS
<1>1. pc = "kmain" /\ call = "none" /\ line = << >> /\ program \in DOMAIN InitialData
  BY DEF Init, InitConsole
<1>2. DOMAIN mem = Cells /\ mem[BUFSIZE + 1] = "NUL"
  BY DEF Init, InitConsole
<1>3. Is("typo") => DOMAIN data = {"lines", "t"}
  BY DEF Init, InitialData, Is
<1>4. Len(line) <= BUFSIZE /\ line \in Seq(Letters \cup {"\n"})
  BY <1>1, ConsoleAssumption
<1> QED BY <1>1, <1>2, <1>3, <1>4
        DEF LineInv, LineTypes, Reading, LineKept, Sending, TimeKept, ReadResult

\* Steps that have nothing to do with lines.
LEMMA Elsewhere ==
  ASSUME LineInv, UNCHANGED <<console_vars, program>>,
         pc' = pc \/ (call = "none" /\ pc' \notin Points),
         Is("typo") => DOMAIN data' = DOMAIN data /\ data'.t = data.t
  PROVE  LineInv'
<1>1. UNCHANGED <<mem, call, count, buf, pcount, ret, line, out, program>>
  BY DEF console_vars
<1>2. LineTypes'
  BY <1>1 DEF LineInv, LineTypes, Is
<1>3. CASE pc' = pc
  <2>1. Reading' /\ LineKept' /\ Sending' /\ ReadResult'
    BY <1>1, <1>3 DEF LineInv, Reading, LineIsEdited, LineKept, Typed, Sending, ReadResult, Is
  <2>2. TimeKept'
    BY <1>1, <1>3 DEF LineInv, TimeKept, Is, Shown
  <2> QED BY <1>2, <2>1, <2>2 DEF LineInv
<1>4. CASE call = "none" /\ pc' \notin Points
  <2>1. call' = "none" /\ pc' \notin {"got", "judge", "put", "written", "converted", "shown"}
    BY <1>1, <1>4 DEF Points
  <2> QED BY <1>2, <2>1 DEF LineInv, Reading, LineKept, Sending, TimeKept, ReadResult
<1> QED BY <1>3, <1>4

\* A call of read, and each of its steps.
LEMMA StartRead ==
  ASSUME LineInv, NEW n \in 1 .. BUFSIZE, read(n), pc' \in {"got", "round", "judge"},
         UNCHANGED program, Is("typo") => DOMAIN data' = DOMAIN data
  PROVE  LineInv'
<1>1. /\ call' = "read" /\ count' = n /\ buf' = 0 /\ pcount' = 0 /\ ret' = STDIN_FILENO
      /\ line' = << >> /\ mem' = mem
  BY DEF read
<1>2. LineTypes'
  <2>1. line' \in Seq(Letters \cup {"\n"}) /\ Len(line') <= BUFSIZE
    BY <1>1, ConsoleAssumption
  <2> QED BY <1>1, <2>1 DEF LineInv, LineTypes, Is
<1>3. Reading'
  <2>1. line' \in Seq(Letters) /\ Len(line') = 0
    BY <1>1
  <2> QED BY <1>1, <2>1 DEF Reading, LineIsEdited
<1> QED BY <1>1, <1>2, <1>3 DEF LineInv, LineKept, Sending, TimeKept, ReadResult

\* What a step of read keeps of the rest.
LEMMA ReadKeeps ==
  ASSUME LineInv, call = "read", UNCHANGED <<program, pc, data>>, call' \in {"read", "none"},
         LineTypes', Reading',
         call' = "none" => /\ \A k \in 1 .. Len(line') : mem'[k - 1] = line'[k]
                           /\ line' # << >> /\ Last(line') = "\n" => mem'[Len(line')] = "NUL"
                           /\ ReadResult'
  PROVE  LineInv'
<1>1. pc' \in {"got", "round", "judge"}
  BY DEF LineInv, Reading
<1>2. LineKept'
  <2>1. SUFFICES ASSUME call' = "none" PROVE LineKept'
    BY DEF LineKept
  <2>2. \A k \in 1 .. Len(line') : Typed(k)' = line'[k]
    BY <1>1 DEF Typed
  <2> QED BY <2>1, <2>2 DEF LineKept
<1> QED BY <1>1, <1>2 DEF LineInv, Sending, TimeKept, ReadResult

LEMMA ReadStep ==
  ASSUME LineInv, doread, UNCHANGED <<program, pc, data>>
  PROVE  LineInv'
<1>1. /\ call = "read" /\ count \in 1 .. BUFSIZE /\ ret = STDIN_FILENO /\ line \in Seq(Letters)
      /\ pcount = Len(line) /\ buf = Len(line) /\ Len(line) <= count
      /\ \A k \in 1 .. Len(line) : mem[k - 1] = line[k]
      /\ pc \in {"got", "round", "judge"}
  BY DEF LineInv, Reading, LineIsEdited, doread, read_full, read_eot, read_backspace, read_newline,
     read_letter, getc
<1>2. BUFSIZE \in Nat /\ Len(line) \in Nat /\ "\n" \notin Letters
  BY <1>1, ConsoleAssumption
<1>3. DOMAIN mem = Cells /\ mem[BUFSIZE + 1] = "NUL" /\ LineTypes
  BY DEF LineInv, LineTypes
<1>4. line # << >> => Last(line) # "\n"
  <2>1. line # << >> => line[Len(line)] \in Letters
    BY <1>1
  <2> QED BY <1>2, <2>1 DEF Last
<1>5. CASE read_full
  <2>1. UNCHANGED <<mem, count, buf, ret, line, out>> /\ call' = "none" /\ ~(pcount' <= count)
    BY <1>1, <1>2, <1>5 DEF read_full
  <2>2. LineTypes' /\ Reading'
    BY <1>3, <2>1 DEF LineTypes, Reading, Is
  <2>3. ReadResult'
    BY <1>1, <2>1 DEF ReadResult
  <2> QED BY <1>1, <1>4, <2>1, <2>2, <2>3, ReadKeeps
<1>6. CASE read_eot
  <2>1. UNCHANGED <<mem, count, buf, line, out>> /\ call' = "none" /\ ret' = Len(line)
        /\ pcount' <= count
    BY <1>1, <1>2, <1>6 DEF read_eot, getc
  <2>2. LineTypes' /\ Reading'
    BY <1>3, <2>1 DEF LineTypes, Reading, Is
  <2>3. ReadResult'
    BY <2>1 DEF ReadResult
  <2> QED BY <1>1, <1>4, <2>1, <2>2, <2>3, ReadKeeps
<1>7. CASE read_backspace
  <2>1. UNCHANGED <<mem, call, count, ret, out>>
    BY <1>7 DEF read_backspace
  <2>2. /\ line' \in Seq(Letters) /\ Len(line') <= Len(line)
        /\ pcount' = Len(line') /\ buf' = Len(line')
        /\ \A k \in 1 .. Len(line') : line'[k] = line[k]
    <3>1. CASE line = << >>
      BY <1>1, <1>7, <3>1 DEF read_backspace, uncount
    <3>2. CASE line # << >>
      <4>1. Len(line) > 0
        BY <1>1, <3>2
      <4>2. line' = SubSeq(line, 1, Len(line) - 1) /\ pcount' = Len(line) - 1 /\ buf' = Len(line) - 1
        BY <1>1, <1>2, <1>7, <3>2, <4>1 DEF read_backspace, uncount, Front
      <4> QED BY <1>1, <1>2, <4>1, <4>2
    <3> QED BY <3>1, <3>2
  <2>3. LineTypes'
    BY <1>2, <1>3, <2>1, <2>2 DEF LineTypes, Is
  <2>4. Reading'
    BY <1>1, <1>2, <2>1, <2>2 DEF Reading, LineIsEdited
  <2> QED BY <1>1, <2>1, <2>3, <2>4, ReadKeeps
<1>8. CASE read_newline
  <2>1. /\ mem' = ended(mem) /\ pcount' = Len(line) + 1 /\ ret' = Len(line) + 1 /\ count' = count
        /\ line' = Append(line, "\n") /\ call' = "none" /\ Len(line) < count
    BY <1>1, <1>8 DEF read_newline, getc
  <2>2. Len(line) \in Cells /\ Len(line) + 1 \in Cells /\ BUFSIZE + 1 \in Cells
        /\ BUFSIZE + 1 # Len(line) /\ BUFSIZE + 1 # Len(line) + 1
    BY <1>1, <1>2, <2>1 DEF Cells
  <2>3. /\ DOMAIN mem' = Cells /\ mem'[BUFSIZE + 1] = "NUL"
        /\ mem'[Len(line)] = "\n" /\ mem'[Len(line) + 1] = "NUL"
        /\ \A k \in Cells : k < Len(line) => mem'[k] = mem[k]
    BY <1>1, <1>2, <1>3, <2>1, <2>2 DEF ended
  <2>4. /\ line' \in Seq(Letters \cup {"\n"}) /\ Len(line') = Len(line) + 1
        /\ line'[Len(line) + 1] = "\n" /\ \A k \in 1 .. Len(line) : line'[k] = line[k]
    BY <1>1, <1>2, <2>1
  <2>5. \A k \in 1 .. Len(line') : mem'[k - 1] = line'[k]
    <3>1. ASSUME NEW k \in 1 .. Len(line') PROVE mem'[k - 1] = line'[k]
      <4>1. CASE k = Len(line) + 1
        BY <1>2, <2>3, <2>4, <4>1
      <4>2. CASE k \in 1 .. Len(line)
        <5>1. k - 1 \in Cells /\ k - 1 < Len(line)
          BY <1>1, <1>2, <4>2 DEF Cells
        <5> QED BY <1>1, <2>3, <2>4, <4>2, <5>1
      <4> QED BY <1>2, <2>4, <4>1, <4>2
    <3> QED BY <3>1
  <2>6. LineTypes' /\ Reading'
    BY <1>1, <1>2, <1>3, <2>1, <2>3, <2>4 DEF LineTypes, Reading, Is
  <2>7. ReadResult' /\ mem'[Len(line')] = "NUL"
    BY <1>1, <1>2, <2>1, <2>3, <2>4 DEF ReadResult
  <2> QED BY <1>1, <2>1, <2>5, <2>6, <2>7, ReadKeeps
<1>9. ASSUME NEW c \in Letters, read_letter(c) PROVE LineInv'
  <2>1. /\ mem' = [mem EXCEPT ![Len(line)] = c] /\ pcount' = Len(line) + 1 /\ buf' = Len(line) + 1
        /\ UNCHANGED <<call, count, ret, out>>
        /\ line' = Append(line, c) /\ Len(line) < count
    BY <1>1, <1>9 DEF read_letter, getc
  <2>2. Len(line) \in Cells /\ BUFSIZE + 1 \in Cells /\ BUFSIZE + 1 # Len(line)
    BY <1>1, <1>2, <2>1 DEF Cells
  <2>3. /\ DOMAIN mem' = Cells /\ mem'[BUFSIZE + 1] = "NUL" /\ mem'[Len(line)] = c
        /\ \A k \in Cells : k < Len(line) => mem'[k] = mem[k]
    BY <1>1, <1>2, <1>3, <2>1, <2>2
  <2>4. /\ line' \in Seq(Letters) /\ line' \in Seq(Letters \cup {"\n"}) /\ Len(line') = Len(line) + 1
        /\ line'[Len(line) + 1] = c /\ \A k \in 1 .. Len(line) : line'[k] = line[k]
    BY <1>1, <1>2, <2>1
  <2>5. \A k \in 1 .. Len(line') : mem'[k - 1] = line'[k]
    <3>1. ASSUME NEW k \in 1 .. Len(line') PROVE mem'[k - 1] = line'[k]
      <4>1. CASE k = Len(line) + 1
        BY <1>2, <2>3, <2>4, <4>1
      <4>2. CASE k \in 1 .. Len(line)
        <5>1. k - 1 \in Cells /\ k - 1 < Len(line)
          BY <1>1, <1>2, <4>2 DEF Cells
        <5> QED BY <1>1, <2>3, <2>4, <4>2, <5>1
      <4> QED BY <1>2, <2>4, <4>1, <4>2
    <3> QED BY <3>1
  <2>6. LineTypes'
    BY <1>1, <1>2, <1>3, <2>1, <2>3, <2>4 DEF LineTypes, Is
  <2>7. Reading'
    BY <1>1, <1>2, <2>1, <2>4, <2>5 DEF Reading, LineIsEdited
  <2> QED BY <1>1, <2>1, <2>6, <2>7, ReadKeeps
<1> QED BY <1>5, <1>6, <1>7, <1>8, <1>9 DEF doread

\* A call of write, and each of its steps.
LEMMA StartWrite ==
  ASSUME LineInv, NEW n, write(n), UNCHANGED <<program, data>>,
         \/ pc = "got" /\ pc' = "written" /\ Is("typo")
         \/ pc = "put" /\ pc' = "written"
         \/ pc = "converted" /\ pc' = "shown"
  PROVE  LineInv'
<1>1. call = "none" /\ call' = "write" /\ buf' = 0 /\ out' = << >> /\ mem' = mem /\ line' = line
  BY DEF write
<1>2. LineTypes' /\ Reading'
  BY <1>1 DEF LineInv, LineTypes, Reading, Is
<1>3. LineKept'
  <2>1. pc' = "written" => \A k \in 1 .. Len(line) : Typed(k)' = Typed(k)
    BY <1>1 DEF Typed, Is
  <2> QED BY <1>1, <2>1 DEF LineInv, LineKept
<1>4. Sending'
  <2>1. 0 \in Cells
    BY ConsoleAssumption DEF Cells
  <2>2. << >> = [k \in 1 .. 0 |-> mem'[k - 1]]
    OBVIOUS
  <2> QED BY <1>1, <2>1, <2>2 DEF Sending
<1>5. TimeKept'
  BY <1>1 DEF LineInv, TimeKept, Is, Shown
<1> QED BY <1>1, <1>2, <1>3, <1>4, <1>5 DEF LineInv, ReadResult

LEMMA WriteStep ==
  ASSUME LineInv, dowrite, UNCHANGED <<program, pc, data>>
  PROVE  LineInv'
<1>1. call = "write" /\ pc \in {"written", "shown"} /\ mem' = mem /\ line' = line
      /\ call' \in {"write", "none"}
  BY DEF LineInv, Sending, dowrite
<1>2. /\ buf \in Cells /\ out = [k \in 1 .. buf |-> mem[k - 1]]
      /\ \A k \in 0 .. buf - 1 : mem[k] # "NUL"
      /\ mem[BUFSIZE + 1] = "NUL" /\ BUFSIZE \in Nat
  BY <1>1, ConsoleAssumption DEF LineInv, Sending, LineTypes
<1>3. LineTypes' /\ Reading'
  BY <1>1 DEF LineInv, LineTypes, Reading, Is
<1>4. LineKept'
  BY <1>1 DEF LineInv, LineKept, Typed, Is
<1>5. TimeKept'
  BY <1>1 DEF LineInv, TimeKept, Is, Shown
<1>6. CASE mem[buf] # "NUL"
  <2>1. out' = Append(out, mem[buf]) /\ buf' = buf + 1 /\ call' = "write"
    BY <1>6 DEF dowrite
  <2>2. buf \in 0 .. BUFSIZE /\ buf + 1 \in Cells
    BY <1>2, <1>6 DEF Cells
  <2>3. Append(out, mem[buf]) = [k \in 1 .. buf + 1 |-> mem[k - 1]]
    <3>1. DOMAIN out = 1 .. buf /\ Len(out) = buf
      BY <1>2, <2>2
    <3> QED BY <1>2, <2>2, <3>1
  <2>4. \A k \in 0 .. buf + 1 - 1 : mem[k] # "NUL"
    BY <1>2, <1>6, <2>2
  <2>5. Sending'
    BY <1>1, <2>1, <2>2, <2>3, <2>4 DEF Sending
  <2> QED BY <1>1, <1>3, <1>4, <1>5, <2>1, <2>5 DEF LineInv, ReadResult
<1>7. CASE mem[buf] = "NUL"
  <2>1. out' = out /\ buf' = buf /\ call' = "none"
    BY <1>7 DEF dowrite
  <2>2. Sending'
    BY <1>1, <1>2, <1>7, <2>1 DEF Sending
  <2> QED BY <1>1, <1>3, <1>4, <1>5, <2>1, <2>2 DEF LineInv, ReadResult
<1> QED BY <1>6, <1>7

\* rot13 writes over as many cells as the line has.
LEMMA CipherStep ==
  ASSUME LineInv, At("got"), Is("rot13"), ret > 0, mem' = rot13(mem, ret), Goto("put"),
         UNCHANGED <<program, call, line>>
  PROVE  LineInv'
<1>1. /\ call = "none" /\ pc = "got" /\ pc' = "put"
      /\ DOMAIN mem = Cells /\ mem[BUFSIZE + 1] = "NUL" /\ line \in Seq(Letters \cup {"\n"})
      /\ Len(line) <= BUFSIZE /\ BUFSIZE \in Nat
  BY ConsoleAssumption DEF At, Goto, LineInv, LineTypes
<1>2. ret = Len(line) /\ Len(line) \in Nat
  BY <1>1 DEF LineInv, ReadResult, STDIN_FILENO
<1>3. /\ \A k \in 1 .. Len(line) : mem[k - 1] = line[k]
      /\ line # << >> /\ Last(line) = "\n" => mem[Len(line)] = "NUL"
  BY <1>1 DEF LineInv, LineKept, Typed
<1>4. DOMAIN mem' = Cells /\ \A k \in Cells : mem'[k] = IF k < Len(line) THEN Rot(mem[k]) ELSE mem[k]
  BY <1>2 DEF rot13
<1>5. LineTypes'
  <2>1. BUFSIZE + 1 \in Cells /\ ~(BUFSIZE + 1 < Len(line))
    BY <1>1, <1>2 DEF Cells
  <2> QED BY <1>1, <1>4, <2>1 DEF LineTypes, LineInv, Is
<1>6. ASSUME NEW k \in 1 .. Len(line) PROVE mem'[k - 1] = Typed(k)'
  <2>1. k - 1 \in Cells /\ k - 1 < Len(line)
    BY <1>1, <1>2 DEF Cells
  <2>2. Typed(k)' = Rot(line[k])
    BY <1>1 DEF Typed, Is
  <2> QED BY <1>3, <1>4, <2>1, <2>2
<1>7. line # << >> /\ Last(line) = "\n" => mem'[Len(line)] = "NUL"
  <2>1. Len(line) \in Cells /\ ~(Len(line) < Len(line))
    BY <1>1, <1>2 DEF Cells
  <2> QED BY <1>3, <1>4, <2>1
<1>8. LineKept'
  BY <1>6, <1>7 DEF LineKept
<1> QED BY <1>1, <1>5, <1>8 DEF LineInv, Reading, Sending, TimeKept, ReadResult

\* typo writes a time into its buffer.
LEMMA ConvertStep ==
  ASSUME LineInv, At("written"), Is("typo"), Goto("converted"), UNCHANGED <<program, call, line>>,
         NEW t \in Times, mem' = convert(t, mem), data' = [data EXCEPT !.t = t]
  PROVE  LineInv'
<1>1. call = "none" /\ pc = "written" /\ pc' = "converted" /\ DOMAIN mem = Cells
      /\ mem[BUFSIZE + 1] = "NUL" /\ DOMAIN data = {"lines", "t"}
  BY DEF At, Goto, LineInv, LineTypes
<1>2. DOMAIN data' = {"lines", "t"} /\ data'.t = t
  BY <1>1
<1>3. LineTypes'
  BY <1>1, <1>2, ConvertIs DEF LineInv, LineTypes, Is
<1>4. line # << >> => mem[0] = line[1]
  <2>1. ASSUME line # << >> PROVE 1 \in 1 .. Len(line) /\ 1 - 1 = 0
    BY <2>1 DEF LineInv, LineTypes
  <2>2. \A k \in 1 .. Len(line) : mem[k - 1] = line[k]
    BY <1>1 DEF LineInv, LineKept, Typed, Is
  <2> QED BY <2>1, <2>2
<1>5. TimeKept'
  <2>1. t > 0 => /\ \A k \in 0 .. Length(t) : mem'[k] = Shown(t, k)
                 /\ mem'[Length(t) + 1] = "NUL"
    BY <1>1, ConvertIs
  <2>2. t = 0 => mem'[1] = "NUL" /\ (line' # << >> => mem'[0] = line'[1])
    <3>1. t = 0 => Length(t) + 1 = 1
      BY LengthIs
    <3> QED BY <1>1, <1>4, <3>1, ConvertIs
  <2> QED BY <1>1, <1>2, <2>1, <2>2 DEF TimeKept, Is
<1> QED BY <1>1, <1>3, <1>5 DEF LineInv, Reading, LineKept, Sending, ReadResult

\* What the invariant says of what was sent.
LEMMA LinesFollow ==
  ASSUME LineInv
  PROVE  LinesWritten
<1> DEFINE typed == IF Is("rot13") THEN [k \in DOMAIN line |-> Rot(line[k])] ELSE line
           t == data.t
<1>1. LineIsEdited /\ (call = "none" /\ pc \in {"got", "judge"} => ResultIsLength)
  BY DEF LineInv, LineTypes, Reading, LineIsEdited, ReadResult, ResultIsLength
<1> SUFFICES ASSUME call = "none", line # << >>
             PROVE  /\ pc = "written" /\ (Last(line) = "\n" \/ Is("rot13")) => IsPrefix(typed, out)
                    /\ pc = "written" /\ Last(line) = "\n" => out = typed
                    /\ pc = "shown" /\ t > 0 =>
                         out = [k \in 1 .. Length(t) + 1 |->
                                  IF k = Length(t) THEN "." ELSE
                                    Digit((t \div 10 ^ (IF k > Length(t) THEN 0
                                                        ELSE Length(t) - k)) % 10)]
                    /\ pc = "shown" /\ t = 0 => out \in {<< >>, <<line[1]>>}
  BY <1>1 DEF LinesWritten
<1>2. /\ DOMAIN mem = Cells /\ line \in Seq(Letters \cup {"\n"}) /\ Len(line) \in Nat \ {0}
      /\ Len(line) <= BUFSIZE /\ BUFSIZE \in Nat
  BY ConsoleAssumption DEF LineInv, LineTypes
<1>3. pc \in {"written", "shown"} =>
        /\ buf \in Cells /\ out = [k \in 1 .. buf |-> mem[k - 1]] /\ Len(out) = buf
        /\ \A k \in 0 .. buf - 1 : mem[k] # "NUL"
        /\ mem[buf] = "NUL"
  BY DEF LineInv, Sending, Cells
<1>4. ASSUME pc = "written"
      PROVE  /\ IsPrefix(typed, out)
             /\ Last(line) = "\n" => out = typed
  <2>1. /\ \A k \in 1 .. Len(line) : mem[k - 1] = Typed(k)
        /\ Last(line) = "\n" => mem[Len(line)] = "NUL"
    BY <1>4 DEF LineInv, LineKept
  <2>2. typed \in Seq(Letters \cup {"\n"}) /\ Len(typed) = Len(line)
        /\ \A k \in 1 .. Len(line) : typed[k] = Typed(k)
    <3>1. CASE Is("rot13")
      <4>1. \A k \in 1 .. Len(line) : Rot(line[k]) \in Letters \cup {"\n"}
        BY <1>2, LabsAssumption, ConsoleAssumption DEF Rot
      <4> QED BY <1>2, <1>4, <3>1, <4>1 DEF Typed
    <3>2. CASE ~Is("rot13")
      BY <1>2, <3>2 DEF Typed
    <3> QED BY <3>1, <3>2
  <2>3. ASSUME NEW k \in 1 .. Len(line) PROVE mem[k - 1] # "NUL"
    <3>1. typed[k] \in Letters \cup {"\n"}
      BY <2>2
    <3> QED BY <2>1, <2>2, <3>1, ConsoleAssumption
  <2>4. buf \in Nat /\ buf >= Len(line)
    <3>1. buf \in Nat
      BY <1>2, <1>3, <1>4 DEF Cells
    <3>2. ~(buf < Len(line))
      <4>1. SUFFICES ASSUME buf < Len(line) PROVE FALSE
        OBVIOUS
      <4>2. buf + 1 \in 1 .. Len(line) /\ (buf + 1) - 1 = buf
        BY <1>2, <3>1, <4>1
      <4> QED BY <1>3, <1>4, <2>3, <4>2
    <3> QED BY <1>2, <3>1, <3>2
  <2> HIDE DEF typed
  <2>5. ASSUME NEW k \in 1 .. Len(line) PROVE out[k] = typed[k]
    <3>1. k \in 1 .. buf
      BY <1>2, <2>4
    <3> QED BY <1>3, <1>4, <2>1, <2>2, <3>1
  <2>6. IsPrefix(typed, out)
    <3>1. SubSeq(typed, 1, Len(typed)) = [k \in 1 .. Len(typed) |-> typed[k]]
      BY <1>2, <2>2
    <3>2. SubSeq(out, 1, Len(typed)) = [k \in 1 .. Len(typed) |-> out[k]]
      BY <1>2, <1>3, <1>4, <2>2, <2>4
    <3> QED BY <1>3, <1>4, <2>2, <2>4, <2>5, <3>1, <3>2 DEF IsPrefix
  <2>7. Last(line) = "\n" => out = typed
    <3>1. SUFFICES ASSUME Last(line) = "\n" PROVE out = typed
      OBVIOUS
    <3>2. ~(Len(line) \in 0 .. buf - 1)
      BY <1>3, <1>4, <2>1, <3>1
    <3>3. buf = Len(line)
      BY <1>2, <2>4, <3>2
    <3>4. out = [k \in 1 .. Len(line) |-> typed[k]]
      BY <1>3, <1>4, <2>1, <2>2, <3>3
    <3> QED BY <2>2, <3>4
  <2> QED BY <2>6, <2>7
<1>5. ASSUME pc = "shown", t > 0
      PROVE  out = [k \in 1 .. Length(t) + 1 |->
                      IF k = Length(t) THEN "." ELSE
                        Digit((t \div 10 ^ (IF k > Length(t) THEN 0 ELSE Length(t) - k)) % 10)]
  <2>1. t \in Times /\ (\A k \in 0 .. Length(t) : mem[k] = Shown(t, k)) /\ mem[Length(t) + 1] = "NUL"
    BY <1>5 DEF LineInv, TimeKept
  <2> HIDE DEF t
  <2> DEFINE n == Length(t)
  <2>2. n \in Nat /\ buf \in Nat
    BY <1>2, <1>3, <1>5, <2>1, LengthIs DEF Cells
  <2>3. \A k \in 0 .. n : mem[k] # "NUL"
    BY <2>1, ShownIsWritten
  <2> HIDE DEF n
  <2>4. buf = n + 1
    <3>1. ~(buf \in 0 .. n) /\ ~(n + 1 \in 0 .. buf - 1)
      BY <1>3, <1>5, <2>1, <2>3 DEF n
    <3> QED BY <2>2, <3>1
  <2>5. ASSUME NEW k \in 1 .. n + 1
        PROVE  mem[k - 1] = IF k = n THEN "." ELSE
                              Digit((t \div 10 ^ (IF k > n THEN 0 ELSE n - k)) % 10)
    <3>1. k - 1 \in 0 .. n /\ (k - 1 = n - 1 <=> k = n) /\ (k - 1 >= n <=> k > n)
          /\ n - 1 - (k - 1) = n - k
      BY <2>2
    <3>2. mem[k - 1] = Shown(t, k - 1)
      BY <2>1, <3>1 DEF n
    <3> QED BY <3>1, <3>2, Zenon DEF Shown, n
  <2> QED BY <1>3, <1>5, <2>4, <2>5, Zenon DEF n
<1>6. ASSUME pc = "shown", t = 0
      PROVE  out \in {<< >>, <<line[1]>>}
  <2>1. mem[1] = "NUL" /\ mem[0] = line[1]
    BY <1>6 DEF LineInv, TimeKept
  <2>2. buf \in Nat /\ ~(1 \in 0 .. buf - 1)
    BY <1>2, <1>3, <1>6, <2>1 DEF Cells
  <2>3. CASE buf = 0
    BY <1>3, <1>6, <2>3
  <2>4. CASE buf = 1
    <3>1. [k \in 1 .. 1 |-> mem[k - 1]] = <<mem[0]>>
      OBVIOUS
    <3> QED BY <1>3, <1>6, <2>1, <2>4, <3>1
  <2> QED BY <2>2, <2>3, <2>4
<1> QED BY <1>4, <1>5, <1>6

\* The programs.
LEMMA RotStep ==
  ASSUME LineInv, rot13_main
  PROVE  LineInv'
<1>0. Is("rot13") /\ ~Is("typo") /\ BUFSIZE \in 1 .. BUFSIZE
  BY LabsAssumption, ConsoleAssumption DEF rot13_main, Is
<1>1. CASE At("main") /\ Call(read(BUFSIZE), "got")
  BY <1>0, <1>1, StartRead DEF Call, Goto
<1>2. CASE At("got") /\ ret > 0 /\ Compute("put") /\ mem' = rot13(mem, ret)
  BY <1>0, <1>2, CipherStep DEF Compute
<1>3. CASE At("got") /\ exit
  BY <1>0, <1>3, Elsewhere DEF At, exit, Goto, Points
<1>4. CASE At("put") /\ Call(write(data.res), "written") /\ UNCHANGED data
  BY <1>4, StartWrite DEF At, Call, Goto
<1>5. CASE At("written") /\ Compute("main") /\ UNCHANGED <<mem, data>>
  BY <1>5, Elsewhere DEF At, Compute, Goto, Points, console_vars
<1> QED BY <1>1, <1>2, <1>3, <1>4, <1>5 DEF rot13_main

LEMMA TypoStep ==
  ASSUME LineInv, typo_main
  PROVE  LineInv'
<1>0. Is("typo") /\ BUFSIZE \in 1 .. BUFSIZE
  BY LabsAssumption, ConsoleAssumption DEF typo_main
<1>1. CASE At("main") /\ Call(read(BUFSIZE), "got") /\ data' = [data EXCEPT !.lines = @ + 1]
  <2>1. DOMAIN data' = DOMAIN data
    BY <1>1
  <2> QED BY <1>0, <1>1, <2>1, StartRead DEF Call, Goto
<1>2. CASE At("got") /\ Call(write(ret), "written") /\ UNCHANGED data
  BY <1>0, <1>2, StartWrite DEF At, Call, Goto
<1>3. ASSUME At("written"), Compute("converted"), NEW t \in Times,
             mem' = convert(t, mem), data' = [data EXCEPT !.t = t]
      PROVE  LineInv'
  <2>1. Goto("converted") /\ UNCHANGED <<program, call, line>>
    BY <1>3 DEF Compute
  <2> QED BY <1>0, <1>3, <2>1, ConvertStep
<1>4. CASE At("converted") /\ Call(write(BUFSIZE), "shown") /\ UNCHANGED data
  BY <1>4, StartWrite DEF At, Call, Goto
<1>5. CASE At("shown") /\ Compute("main") /\ UNCHANGED <<mem, data>>
  BY <1>5, Elsewhere DEF At, Compute, Goto, Points, console_vars
<1> QED BY <1>1, <1>2, <1>3, <1>4, <1>5 DEF typo_main

LEMMA GameStep ==
  ASSUME LineInv, typehero_main
  PROVE  LineInv'
<1>0. ~Is("typo") /\ 1 \in 1 .. BUFSIZE
  <2>1. ~Is("typo")
    BY DEF typehero_main, Is
  <2> QED BY <2>1, LabsAssumption, ConsoleAssumption
<1>1. CASE Call(read(1), "round") \/ Call(read(1), "judge")
  BY <1>0, <1>1, StartRead DEF Call, Goto
<1>2. ASSUME NEW next \in {"raised", "over", "round"}, At("judge"), Compute(next), UNCHANGED mem
      PROVE  LineInv'
  BY <1>0, <1>2, Elsewhere DEF At, Compute, Goto, Points, console_vars
<1>3. CASE (At("over") \/ At("raised")) /\ exit
  BY <1>0, <1>3, Elsewhere DEF At, exit, Goto, Points
<1> QED BY <1>1, <1>2, <1>3 DEF typehero_main, lab3_raise

LEMMA SleepStep ==
  ASSUME LineInv, sleeptest_main
  PROVE  LineInv'
<1>0. ~Is("typo")
  BY DEF sleeptest_main, Is
<1>1. ASSUME NEW here, NEW next \in {"awake", "sleeping", "read"}, At(here), Compute(next), UNCHANGED mem
      PROVE  LineInv'
  BY <1>0, <1>1, Elsewhere DEF At, Compute, Goto, Points, console_vars
<1>2. CASE At("awake") /\ exit
  BY <1>0, <1>2, Elsewhere DEF At, exit, Goto, Points
<1> QED BY <1>1, <1>2 DEF sleeptest_main

\* Only sleeptest has interrupts, and it does not read or write.
QuietCalls == QuietTimer /\ (Is("sleeptest") => call = "none")

LEMMA QuietStep ==
  ASSUME QuietCalls, [Next]_vars
  PROVE  QuietCalls'
<1>1. CASE \/ lab2_main \/ lab3_kmain \/ lab4_kmain \/ reset \/ restore_old_handlers
           \/ boot_loader_irq \/ UNCHANGED vars
  BY <1>1 DEF QuietCalls, QuietTimer, Is, lab2_main, lab3_kmain, lab4_kmain, started,
     lab3_init_timer, lab4_init_timer, reset, restore_old_handlers, boot_loader_irq, vars,
     time_vars, console_vars
<1>2. CASE lab2_c_swi_handler \/ lab3_c_swi_handler
  <2>1. call # "none" /\ UNCHANGED <<program, ossr_m0>>
    BY <1>2 DEF lab2_c_swi_handler, lab3_c_swi_handler, doread, dowrite, read_full, read_eot,
       read_backspace, read_newline, read_letter, getc, time_vars
  <2> QED BY <2>1 DEF QuietCalls, QuietTimer, Is
<1>3. CASE rot13_main \/ typo_main \/ typehero_main
  BY <1>3 DEF QuietCalls, QuietTimer, Is, rot13_main, typo_main, typehero_main, Call, Compute, exit,
     lab3_raise, time_vars
<1>4. CASE sleeptest_main \/ Advance \/ c_irq_handler
  BY <1>4 DEF QuietCalls, QuietTimer, Is, sleeptest_main, Compute, exit, Advance, c_irq_handler,
     time_vars, console_vars
<1> QED BY <1>1, <1>2, <1>3, <1>4 DEF Next

\* Whatever was in the buffer before, and however the line was corrected: the program
\* gets what was typed, and its length; what it sends is the line, in rot13 its
\* cipher, and then, in typo, the time (io.c:53-75, io.c:112, typo.c:47-61).
THEOREM LinesAsTyped == Spec => []LinesWritten
<1>1. LineInv /\ QuietCalls /\ [Next]_vars => LineInv'
  <2> SUFFICES ASSUME LineInv, QuietCalls, [Next]_vars PROVE LineInv'
    OBVIOUS
  <2>1. CASE lab2_main \/ lab3_kmain \/ lab4_kmain
    <3>1. pc = "kmain" /\ pc' = "main" /\ UNCHANGED <<console_vars, program, data>>
      BY <2>1 DEF lab2_main, lab3_kmain, lab4_kmain, started, Goto
    <3>2. call = "none"
      BY <3>1 DEF LineInv, LineTypes, Reading, Sending
    <3> QED BY <3>1, <3>2, Elsewhere DEF Points
  <2>2. CASE reset
    <3>1. pc = "main" /\ pc' = "reset" /\ UNCHANGED <<console_vars, program, data>>
      BY <2>2 DEF reset, Goto
    <3>2. call = "none"
      BY <3>1 DEF LineInv, LineTypes, Reading, Sending
    <3> QED BY <3>1, <3>2, Elsewhere DEF Points
  <2>3. CASE lab2_c_swi_handler \/ lab3_c_swi_handler
    BY <2>3, ReadStep, WriteStep DEF lab2_c_swi_handler, lab3_c_swi_handler
  <2>4. CASE Advance
    BY <2>4, Elsewhere DEF Advance
  <2>7. CASE restore_old_handlers \/ boot_loader_irq
    <3>1. pc' \notin Points /\ UNCHANGED <<console_vars, program, data>>
      BY <2>7 DEF restore_old_handlers, boot_loader_irq, Goto, Points
    <3>2. CASE restore_old_handlers
      <4>1. call = "none"
        BY <3>2 DEF restore_old_handlers, LineInv, LineTypes, Reading, Sending
      <4> QED BY <3>1, <4>1, Elsewhere
    <3>3. CASE boot_loader_irq
      <4>1. ossr_m0 = 1
        BY <3>3 DEF boot_loader_irq, interrupted
      <4>2. call = "none"
        BY <4>1 DEF QuietCalls, QuietTimer
      <4> QED BY <3>1, <4>2, Elsewhere
    <3> QED BY <2>7, <3>2, <3>3
  <2>5. CASE c_irq_handler
    <3>1. data' = [data EXCEPT !.taken = TRUE] /\ UNCHANGED <<console_vars, program, pc>>
      BY <2>5 DEF c_irq_handler
    <3>2. Is("typo") => DOMAIN data = {"lines", "t"}
      BY DEF LineInv, LineTypes
    <3>3. Is("typo") => DOMAIN data' = DOMAIN data /\ data'.t = data.t
      BY <3>1, <3>2, Zenon
    <3> QED BY <3>1, <3>3, Elsewhere
  <2>6. CASE UNCHANGED vars
    BY <2>6, Elsewhere DEF vars
  <2> QED BY <2>1, <2>2, <2>3, <2>4, <2>5, <2>6, <2>7, RotStep, TypoStep, GameStep, SleepStep DEF Next
<1>2. LineInv => LinesWritten
  BY LinesFollow
<1>3. Init => QuietCalls
  BY DEF Init, InitConsole, QuietCalls, QuietTimer
<1> QED BY LineInit, QuietStep, <1>1, <1>2, <1>3, PTL DEF Spec
==============================================================================
