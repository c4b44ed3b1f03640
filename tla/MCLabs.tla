-------------------------------- MODULE MCLabs ---------------------------------
(* A small instance of Labs for TLC: an alphabet of two letters. *)
EXTENDS Labs, TLC
MCROT13 == ("a" :> "n") @@ ("n" :> "a")
==============================================================================
