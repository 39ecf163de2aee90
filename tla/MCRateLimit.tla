------------------------------ MODULE MCRateLimit ------------------------------
(* Instances of RateLimit for TLC. *)
EXTENDS RateLimit, TLC

\* Requests are interchangeable.
Symmetry == Permutations(Requests)
===============================================================================
