----------------------------- MODULE MCEarnBack -----------------------------
(* EarnBack on small instances, for TLC.                                   *)
EXTENDS EarnBack, TLC

CONSTANTS a, b, w1, w2, l1, l2

\* Orders are not interchangeable (their terms differ), resolvers and
\* deadline requests are.
Symmetry == Permutations(Resolvers) \cup Permutations(Learners)
=============================================================================
