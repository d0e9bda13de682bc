--------------------------- MODULE MCDisbursement ---------------------------
(* Disbursement on small instances, for TLC.                               *)
EXTENDS Disbursement

CONSTANTS r1, w1, w2
=============================================================================
