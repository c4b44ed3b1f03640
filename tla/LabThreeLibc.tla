------------------------------ MODULE LabThreeLibc -----------------------------
(***************************************************************************)
(* The library of lab 3 and twister, the program of that lab which tries   *)
(* it.  The files of the library are the same, byte for byte, as those of  *)
(* lab 4 in CString, CNumbers and Printf, so a function is the other's;    *)
(* raise alone is not.                                                     *)
(***************************************************************************)
EXTENDS CString, Printf

lab3_strlen(m, s) == strlen(m, s)
lab3_isupper(c) == isupper(c)
lab3_atoi(m, p) == atoi(m, p)
lab3_strtol(m, p, base) == strtol(m, p, base)

lab3_directive(text, args) == directive(text, args)
lab3_print_bits(u, desc) == print_bits(u, desc)
lab3_print_thread(d, tid) ==
  IF d.longopt > 0 THEN print_thread_long(d, tid) ELSE print_thread(d, tid)
lab3_print_string(d, text) == print_string(d, text)
lab3_print_num(d, u, base, sign) == print_num(d, u, base, sign)
lab3_doprnt(fmt, args, radix) == doprnt(fmt, args, radix)

lab3_putchar(c) == putchar(c)
lab3_puts(text) == puts(text)
lab3_printf_char(st, c) == printf_char(st, c)
lab3_printf(fmt, args) == printf(fmt, args)

\* The same line as in lab 4, but then the program ends.
lab3_raise == [calls |-> raise, exit |-> 0]

------------------------------------------------------------------------------
(* The words of twister's texts are left out, what it has in its variables   *)
(* is given.                                                                 *)

FORTY == 40
THREE == 3
Sizes == <<1, 2, 4, 4, 4>>
S == <<Percent, 115>>   D == <<Percent, 100>>   Line == <<NL>>   Space == <<Blank>>
X == <<Zero, 120, Percent, Zero, 56, 120>>

\* hello, goodbye and mynum are texts, at is where the first two are in memory.
twister(hello, goodbye, mynum, at, expected) ==
  LET m == Append(hello, 0)
      num == lab3_atoi(Append(mynum, 0), 1)
      letter(k) == lab3_putchar(IF lab3_isupper(m[k]) THEN 85 ELSE 76)
  IN  lab3_printf(S \o Line, <<hello>>)
        \o lab3_printf(S \o Space \o S \o Space \o S \o Space \o S \o Line,
                       <<hello, goodbye, hello, goodbye>>)
        \o lab3_printf(X \o <<9>> \o X \o Line, at)
        \o lab3_printf(D \o Space \o D \o Space \o D \o Space \o D \o Space \o D \o Line, Sizes)
        \o lab3_printf(S \o <<Percent, 108, 117, NL>>, <<hello, lab3_strlen(m, 1)>>)
        \o FlattenSeq([k \in DOMAIN hello |-> lab3_printf(<<hello[k]>>, << >>)])
        \o lab3_printf(Line, << >>)
        \o lab3_putchar(34) \o FlattenSeq([k \in 1 .. lab3_strlen(m, 1) |-> letter(k)])
        \o lab3_putchar(34) \o lab3_putchar(NL)
        \o lab3_printf(D \o <<47>> \o D \o <<61>> \o D \o <<44>> \o D,
                       <<FORTY, THREE, FORTY \div THREE, FORTY % THREE>>)
        \o (IF num # expected THEN lab3_printf(<<33, NL>>, << >>) ELSE << >>)
        \o lab3_printf(D \o Line, <<num>>)
==============================================================================
