------------------------- MODULE MCAdjudicateAndAudit -------------------------
(* Instances of AdjudicateAndAudit for TLC. *)
EXTENDS AdjudicateAndAudit, TLC

\* Attempts and hashes are interchangeable.
Symmetry == Permutations(Calls) \cup Permutations(Hashes)
===============================================================================
