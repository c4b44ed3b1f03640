------------------------------ MODULE KernelUtil ------------------------------
(***************************************************************************)
(* Utilities of the l4/lab4 kernel: memcheck.c, which tells whether a      *)
(* buffer lies in a segment of the address space, and math.c.              *)
(***************************************************************************)
EXTENDS Integers, SequencesExt

CONSTANT ADDR_RANGE   \* addresses, and values of a size_t (2^32)

ASSUME AddrAssumption == ADDR_RANGE \in Nat \ {0}

Addresses == 0 .. ADDR_RANGE - 1

\* (Mutated: the wrap of the end is not looked for.)
valid_addr_wrapping(start, count, base, bound) ==
  LET end == (start + count) % ADDR_RANGE
  IN  start >= base /\ start < bound /\ end <= bound
valid_addr(start, count, base, bound) ==
  LET end == (start + count) % ADDR_RANGE
  IN  /\ start >= base /\ start < bound
      /\ end >= start /\ end <= bound

\* The position of the highest bit of x; 0 for 0.  The debug version counts
\* shifts, the other one tests fields of 16, 8, 4, 2 and 1 bits.
ilog2_debug(x) ==
  IF x = 0 THEN 0 ELSE CHOOSE r \in 0 .. 30 : 2 ^ r <= x /\ x \div 2 < 2 ^ r

ilog2(x) ==
  FoldLeft(LAMBDA st, S : IF (st.v \div 2 ^ S) % 2 ^ S # 0
                          THEN [v |-> st.v \div 2 ^ S, r |-> st.r + S] ELSE st,
           [v |-> x, r |-> 0], <<16, 8, 4, 2, 1>>).r

sum_region(buf) == FoldLeft(LAMBDA sum, word : (sum + word) % ADDR_RANGE, 0, buf)
==============================================================================
