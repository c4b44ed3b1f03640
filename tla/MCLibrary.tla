------------------------------- MODULE MCLibrary ------------------------------
(* Numbers to print, of an 8-bit long: a configuration has no negative ones. *)
EXTENDS Library
MCValues == {-100, -8, -1, 0, 1, 7, 8, 9, 16, 100, 127}
==============================================================================
