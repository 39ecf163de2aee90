------------------------------- MODULE MCKernel --------------------------------
(* Instances of Kernel for TLC. *)
EXTENDS Kernel

CONSTANTS b1, b2
===============================================================================
