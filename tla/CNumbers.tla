------------------------------- MODULE CNumbers -------------------------------
(***************************************************************************)
(* Characters and numbers of the user library: ctype.h and the conversions *)
(* of tasks/libc/stdlib.  Characters are their ASCII codes; a string is    *)
(* read from a memory m, as in CString.  Integers are not bounded here,    *)
(* but for unsigned long, of ULONG_RANGE values.                           *)
(***************************************************************************)
EXTENDS Integers, Sequences, SequencesExt

CONSTANT ULONG_RANGE   \* values of an unsigned long (2^32)

ASSUME ULongAssumption == ULONG_RANGE \in Nat \ {0}

------------------------------------------------------------------------------
(* ctype.h.                                                                  *)

isascii(c) == c \in 0 .. 127
iscntrl(c) == c < 32 \/ c > 126
isdigit(c) == c \in 48 .. 57
isgraph(c) == c \in 33 .. 126
islower(c) == c \in 97 .. 122
isprint(c) == c \in 32 .. 126
isspace(c) == c \in {32, 12, 10, 13, 9, 11}
isupper(c) == c \in 65 .. 90
isxdigit(c) == isdigit(c) \/ c \in 65 .. 70 \/ c \in 97 .. 102
isalpha(c) == islower(c) \/ isupper(c)
isalnum(c) == isalpha(c) \/ isdigit(c)
ispunct(c) == isgraph(c) /\ ~isalnum(c)
toupper(c) == IF islower(c) THEN c - 97 + 65 ELSE c
tolower(c) == IF isupper(c) THEN c - 65 + 97 ELSE c

Minus == 45
Plus == 43
Zero == 48

------------------------------------------------------------------------------
\* The first address from p on whose character is not in class.
Skip(m, p, class(_)) ==
  CHOOSE q \in DOMAIN m :
    /\ q >= p /\ ~class(m[q])
    /\ \A r \in DOMAIN m : p <= r /\ r < q => class(m[r])

\* The value of a character as a digit.
DigitValue(c) ==
  IF isdigit(c) THEN c - Zero ELSE IF isalpha(c) THEN tolower(c) - 97 + 10 ELSE 99

\* The value of the digits from p on, and where they end.
Digits(m, p, base, range) ==
  LET digit(c) == DigitValue(c) < base
      end == Skip(m, p, digit)
  IN  [v |-> FoldLeft(LAMBDA v, c : (v * base + DigitValue(c)) % range, 0,
                      [k \in 1 .. end - p |-> m[p + k - 1]]),
       end |-> end]

\* The base and the first digit, from the prefix and the base that is asked for.
Prefix(m, p, base) ==
  IF base \in {16, 0} /\ m[p] = Zero /\ m[p + 1] \in {120, 88}
  THEN [base |-> 16, p |-> p + 2]
  ELSE [base |-> IF base # 0 THEN base ELSE IF m[p] = Zero THEN 8 ELSE 10, p |-> p]

\* What no number of a run reaches: overflow of long is undefined.
LONG_UNBOUNDED == 1000000

\* A plus is seen but not skipped.
strtol(m, p, base) ==
  LET start == Skip(m, p, isspace)
      is_neg == m[start] = Minus
      pre == Prefix(m, IF is_neg THEN start + 1 ELSE start, base)
      n == Digits(m, pre.p, pre.base, LONG_UNBOUNDED)
  IN  [n EXCEPT !.v = IF is_neg THEN -@ ELSE @]

strtoul(m, p, base) ==
  LET pre == Prefix(m, Skip(m, p, isspace), base)
  IN  Digits(m, pre.p, pre.base, ULONG_RANGE)

\* Neither space nor a sign is skipped.
atol(m, p) == Digits(m, p, 10, LONG_UNBOUNDED).v
atoi(m, p) == atol(m, p)
==============================================================================
