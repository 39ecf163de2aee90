--------------------------- MODULE MCApprovalEngine ---------------------------
(* Instances of ApprovalEngine for TLC. *)
EXTENDS ApprovalEngine

CONSTANTS r1, r2, maker, a, b
===============================================================================
