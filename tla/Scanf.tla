--------------------------------- MODULE Scanf --------------------------------
(***************************************************************************)
(* sscanf of the user library (tasks/libc/stdio): the formats of _doscan,  *)
(* on a string at address s of a memory.                                   *)
(***************************************************************************)
EXTENDS CNumbers

\* A scan: the next character, the count of conversions, what they have stored,
\* and whether a character has mismatched.
Scan(p, vals, stored, mismatch) ==
  [p |-> p, vals |-> vals, stored |-> stored, mismatch |-> mismatch]

\* A literal of the format: white space skips any amount of it.
literal(m, st, c) ==
  IF isspace(c) THEN [st EXCEPT !.p = Skip(m, st.p, isspace)]
  ELSE [st EXCEPT !.p = @ + 1, !.mismatch = (m[st.p] # c)]

\* What a conversion reads, and where the next one goes on.  A number may be
\* without digits; a word is ended by white space only.
read_number(m, p, base) ==
  LET neg == m[p] = Minus
      n == Digits(m, IF neg THEN p + 1 ELSE p, base, LONG_UNBOUNDED)
  IN  [v |-> IF neg THEN -n.v ELSE n.v, end |-> n.end]

read_word(m, p) ==
  LET inword(c) == ~isspace(c)
      end == Skip(m, p, inword)
  IN  [v |-> [k \in 1 .. end - p |-> m[p + k - 1]], end |-> end]

conversion(m, st, conv, discard) ==
  LET keep(r) == Scan(r.end, IF discard THEN st.vals ELSE st.vals + 1,
                      IF discard THEN st.stored ELSE Append(st.stored, r.v), FALSE)
  IN  CASE conv = 100 -> keep(read_number(m, st.p, 10))
        [] conv = 120 -> keep(read_number(m, st.p, 16))
        [] conv = 115 -> keep(read_word(m, st.p))
        [] OTHER -> [st EXCEPT !.vals = IF discard THEN @ ELSE @ + 1]

\* Stars, of which one is as good as many, discard what is read.
RECURSIVE doscan(_, _, _)
doscan(m, fmt, st) ==
  IF fmt = << >> \/ st.mismatch THEN st
  ELSE IF Head(fmt) # 37 THEN doscan(m, Tail(fmt), literal(m, st, Head(fmt)))
  ELSE LET k == CHOOSE k \in 2 .. Len(fmt) :
                  fmt[k] # 42 /\ \A j \in 2 .. k - 1 : fmt[j] = 42
       IN  doscan(m, SubSeq(fmt, k + 1, Len(fmt)), conversion(m, st, fmt[k], k > 2))

sscanf(m, s, fmt) == doscan(m, fmt, Scan(s, 0, << >>, FALSE))
==============================================================================
