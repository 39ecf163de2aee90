--------------------------- MODULE MCDeferParkResume ---------------------------
(* Instances of DeferParkResume for TLC. *)
EXTENDS DeferParkResume

CONSTANTS p1, p2, p3, d1, d2, i1, i2, s1, s2
===============================================================================
