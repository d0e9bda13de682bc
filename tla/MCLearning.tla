----------------------------- MODULE MCLearning -----------------------------
(* Learning on small instances, for TLC.                                    *)
EXTENDS Learning

CONSTANTS p, q, g1, tab, copy, unmonitored, fast,
          l1, l2, l3, creator, nobody, lesson, w1, w2

\* A ladder of two rungs, a day and two days after completion.
TwoRungs == <<1, 2>>

\* The requests, reports, handlers and sweeps under way are alike.
Symmetry == Permutations({p, q})

\* One request at a time is followed through all attempts and all hours; what
\* two at once do, and what comes of it, to the second attempt and second hour.
OverlapsAreShort ==
  part = "attempts" =>
    \/ /\ \E r \in Requests : request[r] = Idle
       /\ \A i \in Ids : ~attempts[i].stale
    \/ Len(attempts) <= 2 /\ now <= 2
=============================================================================
