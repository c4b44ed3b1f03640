------------------------------- MODULE Console --------------------------------
(***************************************************************************)
(* doread and dowrite, the same in the kernels of labs 2, 3 and 4, for a   *)
(* program that has one buffer.  One step for each character.              *)
(*                                                                         *)
(* Memory is what the buffer pointer can reach: the buffer starts at cell  *)
(* 0, and what follows belongs to somebody else and has a zero byte at its *)
(* end.  The checks of the arguments at the start of both calls (EBADF,    *)
(* EFAULT) are left out: the calls they reject do nothing.                 *)
(***************************************************************************)
EXTENDS Integers, Sequences, SequencesExt

CONSTANTS Letters,    \* characters that stand for themselves
          Unused,     \* what cells may hold before the first read
          BUFSIZE     \* size of the buffer

ASSUME ConsoleAssumption ==
  BUFSIZE \in Nat /\ {"\n", "NUL"} \cap (Letters \cup {Unused}) = {}

VARIABLES
  mem,
  call,      \* "read", "write", or "none" when the program runs
  count,     \* args[2]
  buf,       \* the position of the pointer in the buffer
  pcount,
  ret,       \* *ret, which is args[0] before it is set
  line,      \* what the user means to have typed
  out        \* the characters that the last write has sent

console_vars == <<mem, call, count, buf, pcount, ret, line, out>>

STDIN_FILENO == 0
STDOUT_FILENO == 1
Cells == 0 .. BUFSIZE + 1

InitConsole ==
  /\ mem \in {m \in [Cells -> {Unused, "NUL"}] : m[BUFSIZE + 1] = "NUL"}
  /\ call = "none"
  /\ count = 0 /\ buf = 0 /\ pcount = 0 /\ ret = 0
  /\ line = << >>
  /\ out = << >>

------------------------------------------------------------------------------
(* doread.                                                                   *)

read(n) ==
  /\ call = "none" /\ call' = "read"
  /\ count' = n /\ buf' = 0 /\ pcount' = 0 /\ ret' = STDIN_FILENO
  /\ line' = << >>
  /\ UNCHANGED <<mem, out>>

\* The loop ends without a result when the buffer is full.
read_full ==
  /\ call = "read" /\ pcount >= count
  /\ call' = "none"
  /\ pcount' = pcount + 1
  /\ UNCHANGED <<mem, count, buf, ret, line, out>>

getc == call = "read" /\ pcount < count

read_eot ==
  /\ getc
  /\ pcount' = pcount + 1
  /\ ret' = pcount
  /\ call' = "none"
  /\ UNCHANGED <<mem, count, buf, line, out>>

\* pcount counts the backspace and is then lowered by it and, if something was
\* counted before, by what it deletes.  (What the terminal shows is left out.)
\* (Mutated: the backspace itself is never discounted.)
uncount_deleted(n) == IF n > 1 THEN n - 1 ELSE n
uncount(n) == IF n > 1 THEN n - 2 ELSE n - 1

read_backspace ==
  /\ getc
  /\ buf' = IF buf > 0 THEN buf - 1 ELSE buf
  /\ pcount' = uncount(pcount + 1)
  /\ line' = IF line = << >> THEN line ELSE Front(line)
  /\ UNCHANGED <<mem, call, count, ret, out>>

ended(m) == [m EXCEPT ![buf] = "\n", ![buf + 1] = "NUL"]

read_newline ==
  /\ getc
  /\ mem' = ended(mem)
  /\ buf' = buf + 1
  /\ pcount' = pcount + 1
  /\ ret' = pcount + 1
  /\ line' = Append(line, "\n")
  /\ call' = "none"
  /\ UNCHANGED <<count, out>>

read_letter(c) ==
  /\ getc
  /\ mem' = [mem EXCEPT ![buf] = c]
  /\ buf' = buf + 1
  /\ pcount' = pcount + 1
  /\ line' = Append(line, c)
  /\ UNCHANGED <<call, count, ret, out>>

doread ==
  \/ read_full \/ read_eot \/ read_backspace \/ read_newline
  \/ \E c \in Letters : read_letter(c)

------------------------------------------------------------------------------
(* dowrite, which does not look at count.                                    *)

write(n) ==
  /\ call = "none" /\ call' = "write"
  /\ count' = n /\ buf' = 0 /\ pcount' = 0 /\ ret' = STDOUT_FILENO
  /\ out' = << >>
  /\ UNCHANGED <<mem, line>>

dowrite ==
  /\ call = "write"
  /\ IF mem[buf] # "NUL"
     THEN /\ out' = Append(out, mem[buf])
          /\ buf' = buf + 1 /\ pcount' = pcount + 1
          /\ UNCHANGED <<call, ret>>
     ELSE /\ ret' = pcount /\ call' = "none"
          /\ UNCHANGED <<out, buf, pcount>>
  /\ UNCHANGED <<mem, count, line>>

------------------------------------------------------------------------------
\* While a line is read, the buffer up to the pointer is the line as the user
\* edits it, and pcount is its length: the corrections of pcount for backspaces
\* keep step with the pointer, at the start of the line too (io.c:59-63).
LineIsEdited ==
  call = "read" =>
    /\ pcount = Len(line) /\ buf = Len(line)
    /\ Len(line) <= count
    /\ \A k \in 1 .. Len(line) : mem[k - 1] = line[k]

\* The result of a read that the user has ended is the length of the line, with
\* the line end if there is one (io.c:56, 74).
ResultIsLength == pcount <= count => ret = Len(line)
==============================================================================
