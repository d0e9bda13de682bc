---------------------------- MODULE MCSettlement ----------------------------
(* Settlement on small instances, for TLC.                                 *)
EXTENDS Settlement, TLC

CONSTANTS o1, o2, s1, s2, r1, r2, cheap, dear

\* Orders, sessions and request slots are interchangeable.
Symmetry == Permutations(Orders) \cup Permutations(Sessions)
              \cup Permutations(Requests)
============================================================================
