------------------------------ MODULE MCSitting ------------------------------
(* Sitting on small instances, for TLC.                                    *)
EXTENDS Sitting, TLC

CONSTANTS q1, q2, a, b
=============================================================================
