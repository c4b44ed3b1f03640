------------------------------- MODULE CString --------------------------------
(***************************************************************************)
(* The string functions of the user library (tasks/libc/string), over a    *)
(* memory m that maps addresses to bytes.  A pointer is an address, 0 ends *)
(* a string.  The functions that store return the memory they leave; where *)
(* a loop runs past the end of m it stops there.                           *)
(***************************************************************************)
EXTENDS Integers, FiniteSetsExt

\* The null pointer.
Null == -1

\* The first address from s on whose byte is in B.
scan(m, s, B) ==
  CHOOSE a \in DOMAIN m :
    /\ a >= s /\ m[a] \in B
    /\ \A b \in DOMAIN m : s <= b /\ b < a => m[b] \notin B

Bytes(m) == {m[a] : a \in DOMAIN m} \cup {0}

strlen(m, s) == scan(m, s, {0}) - s

\* The characters of a string.
Chars(m, s) == {m[a] : a \in s .. scan(m, s, {0}) - 1}

------------------------------------------------------------------------------
(* Searching.                                                                *)

strchr(m, s, c) ==
  LET a == scan(m, s, {0, c}) IN IF m[a] = c THEN a ELSE Null

\* Unlike strchr it does not find the end of the string.
strrchr(m, s, c) ==
  LET P == {a \in s .. scan(m, s, {0}) - 1 : m[a] = c}
  IN  IF P = {} THEN Null ELSE Max(P)

strspn(m, s1, s2) == scan(m, s1, Bytes(m) \ Chars(m, s2)) - s1
strcspn(m, s1, s2) == scan(m, s1, {0} \cup Chars(m, s2)) - s1
strpbrk(m, s1, s2) ==
  LET a == scan(m, s1, {0} \cup Chars(m, s2)) IN IF m[a] = 0 THEN Null ELSE a

\* The difference at the first offset below n at which stop(k) holds.
CompareUpTo(m, s1, s2, n, stop(_)) ==
  IF \E k \in 0 .. n - 1 : stop(k)
  THEN LET k == CHOOSE k \in 0 .. n - 1 :
                  stop(k) /\ \A j \in 0 .. k - 1 : ~stop(j)
       IN  m[s1 + k] - m[s2 + k]
  ELSE 0

memcmp(m, s1, s2, size) ==
  LET stop(k) == m[s1 + k] # m[s2 + k]
  IN  CompareUpTo(m, s1, s2, size, stop)

strncmp(m, s1, s2, n) ==
  LET stop(k) == m[s1 + k] # m[s2 + k] \/ m[s1 + k] = 0
  IN  CompareUpTo(m, s1, s2, n, stop)

strcmp(m, s1, s2) ==
  LET stop(k) == m[s1 + k] = 0 \/ m[s2 + k] = 0 \/ m[s1 + k] # m[s2 + k]
  IN  CompareUpTo(m, s1, s2, strlen(m, s1) + 1, stop)

\* (Mutated: the last place where the needle fits is left out.)
strstr_short(m, haystack, needle) ==
  LET nlen == strlen(m, needle)
      found == {h \in haystack .. haystack + strlen(m, haystack) - nlen - 1 :
                  memcmp(m, h, needle, nlen) = 0}
  IN  IF found = {} THEN Null ELSE Min(found)
strstr(m, haystack, needle) ==
  LET nlen == strlen(m, needle)
      found == {h \in haystack .. haystack + strlen(m, haystack) - nlen :
                  memcmp(m, h, needle, nlen) = 0}
  IN  IF found = {} THEN Null ELSE Min(found)

------------------------------------------------------------------------------
(* Copying.  The stores are made one by one, as source and destination may   *)
(* overlap.                                                                  *)

RECURSIVE strcpy(_, _, _)
strcpy(m, to, from) ==
  IF {to, from} \subseteq DOMAIN m
  THEN LET stored == [m EXCEPT ![to] = m[from]]
       IN  IF m[from] = 0 THEN stored ELSE strcpy(stored, to + 1, from + 1)
  ELSE m

strcat(m, s, add) == strcpy(m, scan(m, s, {0}), add)

memset(m, to, c, len) ==
  [a \in DOMAIN m |-> IF a \in to .. to + len - 1 THEN c ELSE m[a]]

\* When the first loop ends because count is 0, the decrement makes count the
\* largest size_t, and the second loop clears all that follows.
RECURSIVE strncpy(_, _, _, _)
strncpy(m, to, from, count) ==
  IF count = 0 THEN memset(m, to, 0, Max(DOMAIN m) + 1 - to)
  ELSE LET stored == [m EXCEPT ![to] = m[from]]
       IN  IF m[from] = 0 THEN memset(stored, to + 1, 0, count - 1)
           ELSE strncpy(stored, to + 1, from + 1, count - 1)

\* The loop of strncat from d on.
RECURSIVE AppendUpTo(_, _, _, _)
AppendUpTo(m, d, src, n) ==
  IF n = 0 \/ m[src] = 0 THEN [m EXCEPT ![d] = 0]
  ELSE AppendUpTo([m EXCEPT ![d] = m[src]], d + 1, src + 1, n - 1)

strncat(m, dst, src, n) ==
  IF n = 0 THEN m ELSE AppendUpTo(m, scan(m, dst, {0}), src, n)

\* Bytes 0 .. count - 1 in ascending order, or in descending order.
RECURSIVE CopyUp(_, _, _, _), CopyDown(_, _, _, _)
CopyUp(m, d, s, count) ==
  IF count = 0 THEN m
  ELSE CopyUp([m EXCEPT ![d] = m[s]], d + 1, s + 1, count - 1)
CopyDown(m, d, s, count) ==
  IF count = 0 THEN m
  ELSE CopyDown([m EXCEPT ![d + count - 1] = m[s + count - 1]], d, s, count - 1)

\* (Mutated: always in ascending order.)
memmove_up(m, dest, src, count) == CopyUp(m, dest, src, count)
memmove(m, dest, src, count) ==
  IF dest < src THEN CopyUp(m, dest, src, count) ELSE CopyDown(m, dest, src, count)

memcpy(m, dest, src, count) == memmove(m, dest, src, count)
==============================================================================
