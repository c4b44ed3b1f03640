------------------------------ MODULE PrioUnmap -------------------------------
(***************************************************************************)
(* prio_unmap_table of kernel/sched/run_queue.c: the position of the       *)
(* lowest bit of a byte.  Elsewhere a byte of run bits is the set of its   *)
(* high bits.                                                              *)
(***************************************************************************)
EXTENDS Integers

\* The index of a row is the high nibble; row 0 starts with the entry of 0.
RowTail == <<0, 1, 0, 2, 0, 1, 0, 3, 0, 1, 0, 2, 0, 1, 0>>
RowHeads == <<0, 4, 5, 4, 6, 4, 5, 4, 7, 4, 5, 4, 6, 4, 5, 4>>

prio_unmap_table(byte) ==
  IF byte % 16 = 0 THEN RowHeads[byte \div 16 + 1] ELSE RowTail[byte % 16]

Bit(i, bits) == IF i \in bits THEN 1 ELSE 0
Nibble(i, bits) ==
  Bit(i, bits) + 2 * Bit(i + 1, bits) + 4 * Bit(i + 2, bits) + 8 * Bit(i + 3, bits)
Byte(bits) == Nibble(0, bits) + 16 * Nibble(4, bits)

lookup(bits) == prio_unmap_table(Byte(bits))

\* What a lookup is for; the entry of byte 0 is 0.
Lowest(bits) ==
  IF bits = {} THEN 0 ELSE CHOOSE i \in bits : \A j \in bits : i <= j
==============================================================================
