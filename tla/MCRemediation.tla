----------------------------- MODULE MCRemediation -----------------------------
(* Instances of Remediation for TLC. *)
EXTENDS Remediation

CONSTANTS h1, h2, r1, r2, n1
InterestingRadii == {-1, AutoCap, ConfirmAt, EscalateAt}
===============================================================================
