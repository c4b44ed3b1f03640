----------------------------- MODULE MCTaskCreate -----------------------------
(* A small instance of TaskCreate for TLC. *)
EXTENDS TaskCreate

\* A set of each size, one that is not in order, and one that is not admitted.
MCLaterTimes ==
  LET task(c, t) == [C |-> c, T |-> t, B |-> 0]
  IN  {(0 :> task(1, 2)),
       (0 :> task(1, 6) @@ 1 :> task(1, 3)),
       (0 :> task(2, 2) @@ 1 :> task(1, 3)),
       (0 :> task(1, 4) @@ 1 :> task(1, 6) @@ 2 :> task(1, 6)),
       (0 :> task(1, 6) @@ 1 :> task(1, 6) @@ 2 :> task(1, 6) @@ 3 :> task(1, 6))}
==============================================================================
