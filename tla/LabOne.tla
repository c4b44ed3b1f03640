-------------------------------- MODULE LabOne --------------------------------
(***************************************************************************)
(* l1/part2c: three ways to find the one number of an array that occurs    *)
(* once, and the generator of the arrays.  An array is a function of its   *)
(* indices 0 .. len - 1.                                                   *)
(***************************************************************************)
EXTENDS Integers, FiniteSetsExt

\* What randGenerator can leave in arr: a number is drawn again until it occurs
\* less than twice in what is there.
randGenerator(len) ==
  {arr \in [0 .. len - 1 -> 1 .. len \div 2 + 1] :
     \A i \in 0 .. len - 1 : Cardinality({j \in 0 .. i - 1 : arr[j] = arr[i]}) < 2}

\* The last element that occurs nowhere else.
oddball(arr, len) ==
  LET alone == {i \in 0 .. len - 1 :
                  \A j \in 0 .. len - 1 : i # j => arr[i] # arr[j]}
  IN  IF alone = {} THEN 0 ELSE arr[Max(alone)]

\* With a counter for each number.
oddball_counting(arr, len) ==
  LET data == [num \in 0 .. ((len + 1) \div 2) - 1 |->
                 Cardinality({i \in 0 .. len - 1 : arr[i] - 1 = num})]
  IN  Min({num \in DOMAIN data : data[num] = 1}) + 1

------------------------------------------------------------------------------
swap(arr, x, y) == [arr EXCEPT ![x] = arr[y], ![y] = arr[x]]

\* The loop of part, from i on: what is below the pivot goes before store.
RECURSIVE part(_, _, _, _)
part(arr, i, store, right) ==
  IF i = right THEN [arr |-> swap(arr, store, right), pivot |-> store]
  ELSE IF arr[i] < arr[right] THEN part(swap(arr, i, store), i + 1, store + 1, right)
  ELSE part(arr, i + 1, store, right)

RECURSIVE quicksort(_, _, _)
quicksort(arr, base, limit) ==
  IF base >= limit THEN arr
  ELSE LET p == part(arr, base, base, limit)
       IN  quicksort(quicksort(p.arr, base, p.pivot - 1), p.pivot + 1, limit)

\* Pairs of the sorted array are compared up to the last element, which is
\* compared with what lies behind the array.
oddball2(arr, len, behind) ==
  LET sorted == quicksort(arr, 0, len - 1)
      at(i) == IF i < len THEN sorted[i] ELSE behind
      unequal == {i \in 0 .. len - 1 : i % 2 = 0 /\ at(i) # at(i + 1)}
      i == IF unequal = {} THEN len + 1 ELSE Min(unequal)
  IN  (i \div 2) + 1

==============================================================================
