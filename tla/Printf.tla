-------------------------------- MODULE Printf --------------------------------
(***************************************************************************)
(* Formatted output of the user library: _doprnt and what printf and       *)
(* sprintf do with its characters (tasks/libc/stdio).                      *)
(*                                                                         *)
(* Text is a sequence of ASCII codes.  An argument is an integer, for %s a *)
(* text, for %b a record of a base and of the fields that the description  *)
(* names, for %t a record of the parts of a thread id.                     *)
(***************************************************************************)
EXTENDS CNumbers, Functions, FiniteSetsExt

CONSTANT PRINTF_BUFMAX   \* size of the buffer of printf (128)

ASSUME BufferAssumption == PRINTF_BUFMAX \in Nat \ {0}

NL == 10   Blank == 32   Hash == 35   Percent == 37   Star == 42   Dot == 46

\* In place of a character: the division by zero has called raise, which prints
\* a line and loops.
RAISED == -1

Repeat(c, n) == [k \in 1 .. n |-> c]
Padding(n) == IF n > 0 THEN n ELSE 0

------------------------------------------------------------------------------
(* A directive.                                                              *)

\* The length of the longest prefix of text in class.
Span(text, class) ==
  CHOOSE n \in 0 .. Len(text) :
    /\ \A k \in 1 .. n : text[k] \in class
    /\ n = Len(text) \/ text[n + 1] \notin class

Drop(text, n) == SubSeq(text, n + 1, Len(text))
Begins(text, c) == text # << >> /\ Head(text) = c

\* A number in text: given by digits, by an argument, or not at all.
Count(text, args, default) ==
  LET n == Span(text, 48 .. 57)
  IN  IF n > 0
      THEN [v |-> FoldLeft(LAMBDA v, c : 10 * v + c - Zero, 0, SubSeq(text, 1, n)),
            rest |-> Drop(text, n), args |-> args]
      ELSE IF Begins(text, Star)
           THEN [v |-> Head(args), rest |-> Tail(text), args |-> Tail(args)]
           ELSE [v |-> default, rest |-> text, args |-> args]

\* What follows a percent sign, read part by part: what is known of it, the
\* arguments that are left, and the rest of the text.
read_flags(text, args) ==
  LET n == Span(text, {Hash, Minus, Plus, Blank})
      flags == Range(SubSeq(text, 1, n))
      zero == Begins(Drop(text, n), Zero)
  IN  [altfmt |-> Hash \in flags,
       plus_sign |-> IF Plus \in flags THEN <<Plus>>
                     ELSE IF Blank \in flags THEN <<Blank>> ELSE << >>,
       ladjust |-> Minus \in flags,
       padc |-> IF zero THEN Zero ELSE Blank,
       length |-> 0, prec |-> -1, longopt |-> 0, conv |-> 0,
       args |-> args,
       rest |-> Drop(text, IF zero THEN n + 1 ELSE n)]

read_width(d) ==
  LET width == Count(d.rest, d.args, 0)
  IN  [d EXCEPT !.length = IF width.v < 0 THEN -width.v ELSE width.v,
                !.ladjust = @ # (width.v < 0),
                !.args = width.args, !.rest = width.rest]

read_prec(d) ==
  IF ~Begins(d.rest, Dot) THEN d
  ELSE LET prec == Count(Tail(d.rest), d.args, -1)
       IN  [d EXCEPT !.prec = prec.v, !.args = prec.args, !.rest = prec.rest]

read_conv(d) ==
  LET longs == Span(d.rest, {108})
      conv == Drop(d.rest, longs)
  IN  [d EXCEPT !.longopt = longs,
                !.conv = IF conv = << >> THEN 0 ELSE Head(conv),
                !.rest = Drop(conv, 1)]

directive(text, args) == read_conv(read_prec(read_width(read_flags(text, args))))

------------------------------------------------------------------------------
(* Numbers.                                                                  *)

digit(k) == IF k < 10 THEN Zero + k ELSE 97 + k - 10

RECURSIVE printnum(_, _)
printnum(u, base) ==
  IF u < base THEN <<digit(u)>> ELSE Append(printnum(u \div base, base), digit(u % base))

printnum_16(u) == [k \in 1 .. 8 |-> digit((u \div 16 ^ (8 - k)) % 16)]

\* (Mutated: the sign is not counted.)
print_num_sign_uncounted(d, u, base, sign) ==
  LET num == printnum(u, base)
      pad == Padding(d.length - Len(num))
  IN  IF d.ladjust THEN sign \o num \o Repeat(Blank, pad)
      ELSE Repeat(d.padc, pad) \o sign \o num
print_num(d, u, base, sign) ==
  IF base = 0 THEN <<RAISED>>
  ELSE
  LET num == printnum(u, base)
      prefix == IF u = 0 \/ ~d.altfmt THEN << >>
                ELSE IF base = 8 THEN <<Zero>>
                ELSE IF base = 16 THEN <<Zero, 120>> ELSE << >>
      pad == Padding(d.length - Len(sign) - Len(prefix) - Len(num))
      side == IF d.padc = Zero THEN "zeros" ELSE IF d.ladjust THEN "right" ELSE "left"
  IN  Repeat(Blank, IF side = "left" THEN pad ELSE 0)
        \o sign \o prefix \o Repeat(Zero, IF side = "zeros" THEN pad ELSE 0)
        \o num \o Repeat(Blank, IF side = "right" THEN pad ELSE 0)

RangeOf(d) == IF d.longopt > 1 THEN ULONG_RANGE * ULONG_RANGE ELSE ULONG_RANGE

print_unsigned(d, v, base) == print_num(d, v % RangeOf(d), base, << >>)

\* What va_arg reads as a long or a long long.
Signed(d, v) ==
  LET half == RangeOf(d) \div 2 IN ((v + half) % RangeOf(d)) - half

print_signed(d, v, base) ==
  LET n == Signed(d, v)
  IN  IF n >= 0 THEN print_num(d, n, base, d.plus_sign)
      ELSE print_num(d, -n, base, <<Minus>>)

print_pointer(d, v) ==
  <<Zero, 120>>
    \o print_unsigned([d EXCEPT !.padc = Zero, !.length = 8], v, 16)

------------------------------------------------------------------------------
(* The other conversions.                                                    *)

\* The name of each field that is set, or its value; fields have a first bit,
\* counted from 1, a last bit or 0, and a name.
print_bits(u, desc) ==
  LET value(f) == (u \div 2 ^ (f.low - 1)) % 2 ^ (f.bit - f.low + 1)
      shown == SelectSeq(desc.fields,
                 LAMBDA f : f.low # 0 \/ (u \div 2 ^ (f.bit - 1)) % 2 = 1)
      item(f) == f.name \o (IF f.low = 0 THEN << >> ELSE printnum(value(f), desc.base))
      list == FlattenSeq([k \in DOMAIN shown |->
                           <<IF k = 1 THEN 60 ELSE 44>> \o item(shown[k])])
  IN  printnum(u, desc.base)
        \o (IF u = 0 \/ shown = << >> THEN << >> ELSE Append(list, 62))

\* A thread id, as two words or as task and thread number.
print_thread_long(d, tid) ==
  LET text == printnum_16(tid.high) \o <<58>> \o printnum_16(tid.low)
      pad == Repeat(Blank, Padding(d.length - Len(text) - (IF d.altfmt THEN 2 ELSE 0)))
  IN  (IF d.ladjust THEN << >> ELSE pad)
        \o (IF d.altfmt THEN <<91>> \o text \o <<93>> ELSE text)
        \o (IF d.ladjust THEN pad ELSE << >>)

\* The padding goes before the task, but for as much as the thread number is
\* shorter than two digits.
print_thread(d, tid) ==
  LET m == 1 + (IF tid.lthread >= 16 THEN 1 ELSE 0)
      n == (IF d.altfmt THEN 4 ELSE 2)
             + (IF tid.task >= 16 THEN 1 ELSE 0) + (IF tid.task >= 256 THEN 1 ELSE 0)
      lead == IF d.ladjust THEN 0 ELSE Padding(d.length - 2 - n)
      mid == IF d.ladjust \/ d.length = 0 THEN 0 ELSE Padding(d.length - m - n - lead)
      tail == IF d.ladjust THEN Padding(d.length - n - m) ELSE 0
  IN  Repeat(Blank, IF d.padc = Blank THEN lead ELSE 0)
        \o (IF d.altfmt THEN <<91>> ELSE << >>)
        \o Repeat(Zero, IF d.padc = Zero THEN lead ELSE 0)
        \o printnum(tid.task, 16) \o <<Dot>>
        \o Repeat(d.padc, mid) \o printnum(tid.lthread, 16)
        \o (IF d.altfmt THEN <<93>> ELSE << >>)
        \o Repeat(Blank, tail)

\* A string of text up to the precision.  On the left the counter of the loop
\* is one too high when the precision has ended it.
\* (Mutated: the precision is not looked at.)
print_string_whole(d, text) ==
  LET pad == Repeat(Blank, Padding(d.length - Len(text)))
  IN  IF d.ladjust THEN text \o pad ELSE pad \o text
print_string(d, text) ==
  LET n == IF d.prec = -1 THEN Len(text) ELSE Min({Padding(d.prec), Len(text)})
      over == IF n < Len(text) THEN 1 ELSE 0
  IN  IF d.ladjust
      THEN SubSeq(text, 1, n) \o Repeat(Blank, Padding(d.length - n - over))
      ELSE Repeat(Blank, Padding(d.length - n)) \o SubSeq(text, 1, n)

------------------------------------------------------------------------------
\* The text of a directive: d D z Z r R are signed, o O u U p x X n N are not.
converted(d, radix) ==
  LET v == Head(d.args)
  IN  CASE d.conv \in {98, 66}   -> print_bits(v, d.args[2])
        [] d.conv = 99           -> <<v % 256>>
        [] d.conv = 116 /\ d.longopt > 0 -> print_thread_long(d, v)
        [] d.conv = 116 /\ d.longopt = 0 -> print_thread(d, v)
        [] d.conv = 115          -> print_string(d, v)
        [] d.conv \in {100, 68}  -> print_signed(d, v, 10)
        [] d.conv \in {122, 90}  -> print_signed(d, v, 16)
        [] d.conv \in {114, 82}  -> print_signed(d, v, radix)
        [] d.conv \in {111, 79}  -> print_unsigned(d, v, 8)
        [] d.conv \in {117, 85}  -> print_unsigned(d, v, 10)
        [] d.conv \in {120, 88}  -> print_unsigned(d, v, 16)
        [] d.conv \in {110, 78}  -> print_unsigned(d, v, radix)
        [] d.conv = 112          -> print_pointer(d, v)
        [] d.conv = 0            -> << >>
        [] OTHER                 -> <<d.conv>>

\* How many arguments it takes.
Taken(conv) ==
  IF conv \in {98, 66} THEN 2
  ELSE IF conv \in {99, 116, 115, 100, 68, 122, 90, 114, 82, 111, 79, 117, 85,
                    120, 88, 110, 78, 112} THEN 1 ELSE 0

raised(text) == text # << >> /\ Last(text) = RAISED

RECURSIVE doprnt(_, _, _)
doprnt(fmt, args, radix) ==
  IF fmt = << >> THEN << >>
  ELSE IF Head(fmt) # Percent
  THEN <<Head(fmt)>> \o doprnt(Tail(fmt), args, radix)
  ELSE LET go_on(d, text) ==
             IF raised(text) THEN text
             ELSE text \o doprnt(d.rest, Drop(d.args, Taken(d.conv)), radix)
           format(d) == go_on(d, converted(d, radix))
       IN  format(directive(Tail(fmt), args))

------------------------------------------------------------------------------
(* sprintf and its kin, which store text at address s of a memory.           *)

\* The first max characters are stored, and the zero byte behind them: behind
\* the buffer, when there are as many as it can hold.
savechars(m, s, text, max) ==
  LET n == Min({max, Len(text)})
  IN  [mem |-> [a \in DOMAIN m |-> IF a \in s .. s + n - 1 THEN text[a - s + 1]
                                   ELSE IF a = s + n THEN 0 ELSE m[a]],
       len |-> n]

sprintf(m, s, fmt, args) ==
  LET whole(text) == savechars(m, s, text, Len(text)) IN whole(doprnt(fmt, args, 0))
snprintf(m, s, size, fmt, args) == savechars(m, s, doprnt(fmt, args, 0), size)

------------------------------------------------------------------------------
(* printf, as the calls of write that it makes: each is the bytes at the     *)
(* pointer that it passes.                                                   *)

puts(text) == <<Append(text, 0), <<NL, 0>>>>
putchar(c) == <<<<c, 0, 0, 0>>>>
flush(buf) == <<Append(buf, 0)>>

\* The buffer and the calls so far, after one more character.
\* (Mutated: a full buffer is flushed without the character.)
printf_char_lossy(st, c) ==
  IF c = NL THEN [buf |-> << >>, calls |-> st.calls \o puts(st.buf)]
  ELSE IF Len(st.buf) >= PRINTF_BUFMAX - 1
  THEN [buf |-> << >>, calls |-> st.calls \o flush(st.buf)]
  ELSE [st EXCEPT !.buf = Append(@, c)]
printf_char(st, c) ==
  IF c = NL THEN [buf |-> << >>, calls |-> st.calls \o puts(st.buf)]
  ELSE IF c = 0 \/ Len(st.buf) >= PRINTF_BUFMAX - 1
  THEN [buf |-> << >>, calls |-> st.calls \o flush(st.buf) \o putchar(c)]
  ELSE [st EXCEPT !.buf = Append(@, c)]

\* "Divide by zero\n"
raise ==
  puts(<<68, 105, 118, 105, 100, 101, Blank, 98, 121, Blank, 122, 101, 114, 111, NL>>)

\* What is in the buffer when raise is called is lost.
printed(text) ==
  LET st == FoldLeft(printf_char, [buf |-> << >>, calls |-> << >>],
                     IF raised(text) THEN Front(text) ELSE text)
  IN  IF raised(text) THEN st.calls \o raise
      ELSE IF st.buf = << >> THEN st.calls ELSE st.calls \o flush(st.buf)
printf(fmt, args) == printed(doprnt(fmt, args, 0))

\* What dowrite shows of a call: the bytes up to a zero byte.
Shown(calls) ==
  FlattenSeq([k \in DOMAIN calls |-> SubSeq(calls[k], 1, SelectInSeq(calls[k], LAMBDA c : c = 0) - 1)])

------------------------------------------------------------------------------
\* The rows of a dump of the bytes, without the frame: address, hexadecimal
\* digits in groups of four bytes, and the characters that can be shown.
hexdump(bytes) ==
  LET fmt_address == <<Percent, Zero, 56, 108, 120>>
      fmt_byte == <<Percent, Zero, 50, 120>>
      cell(j) ==
        (IF j % 4 = 0 THEN <<Blank>> ELSE << >>)
          \o (IF j < Len(bytes) THEN doprnt(fmt_byte, <<bytes[j + 1]>>, 0)
              ELSE <<Blank, Blank>>)
      char(j) == IF j >= Len(bytes) THEN Blank
                 ELSE IF isgraph(bytes[j + 1]) THEN bytes[j + 1] ELSE Dot
      row(i) == [address |-> doprnt(fmt_address, <<16 * i>>, 0),
                 bytes |-> FlattenSeq([j \in 1 .. 16 |-> cell(16 * i + j - 1)]),
                 chars |-> [j \in 1 .. 16 |-> char(16 * i + j - 1)]]
  IN  [k \in 1 .. (Len(bytes) + 15) \div 16 |-> row(k - 1)]
==============================================================================
