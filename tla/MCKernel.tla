------------------------------- MODULE MCKernel -------------------------------
(* A small instance of Kernel for TLC. *)
EXTENDS Kernel
MCdev_freq == [d \in Devices |-> 3 + d]
==============================================================================
