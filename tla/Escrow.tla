------------------------------- MODULE Escrow -------------------------------
(***************************************************************************)
(* What the Earn-Back promises of the escrow of each paid order, whoever   *)
(* resolves it: it is held until one step distributes it, to the last      *)
(* unit, between the learner, the creator and the platform, for ever.      *)
(* EarnBack.tla is shown to implement this specification.                  *)
(***************************************************************************)
EXTENDS Naturals

CONSTANTS Orders, Held      \* Held: the escrow is not distributed yet

VARIABLES base,             \* base[o]: the escrow of order o, minor units
          shares            \* shares[o]: Held, or who got what of it

Init == /\ base \in [Orders -> Nat]
        /\ shares = [o \in Orders |-> Held]

\* No unit is handed out twice: the three shares re-sum to the escrow.
Distribute(o) ==
  /\ shares[o] = Held
  /\ \E learner \in 0..base[o] : \E creator \in 0..(base[o] - learner) :
       shares' = [shares EXCEPT ![o] =
                    [learner |-> learner, creator |-> creator,
                     platform |-> base[o] - learner - creator]]
  /\ UNCHANGED base

Next == \E o \in Orders : Distribute(o)

Spec == Init /\ [][Next]_<<base, shares>>
=============================================================================
