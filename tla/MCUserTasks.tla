----------------------------- MODULE MCUserTasks ------------------------------
(* A small instance of UserTasks for TLC: periods of 100, 200, 300 and 50 ms *)
(* (the third for 500 ms) in units of 25 ms.                                 *)
EXTENDS UserTasks, TLC
MCdev_freq == (0 :> 4) @@ (1 :> 8) @@ (2 :> 12) @@ (3 :> 2)
==============================================================================
