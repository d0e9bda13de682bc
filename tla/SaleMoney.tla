----------------------------- MODULE SaleMoney -----------------------------
(***************************************************************************)
(* One sale's money from the day it is due: the price is split into pools  *)
(* at checkout, and every day the learner finishes later moves some of the *)
(* escrow from the refund to the creator and the platform.  The operators  *)
(* are Pools'; the only step is the passing of a day.                      *)
(***************************************************************************)
EXTENDS Pools

CONSTANTS Prices,     \* prices in minor units
          Rates,      \* <<platform fee, Earn-Back, instructor share>> percents
          LastDay     \* bound on the days late

ASSUME SaleMoneyAssumption ==
  /\ Prices \subseteq Nat
  /\ Rates \subseteq (0..100) \X (0..100) \X (0..100)
  /\ LastDay \in Nat

VARIABLES price, rates, platformOwned,  \* the snapshot frozen on the order
          late                          \* days past the deadline

vars == <<price, rates, platformOwned, late>>

Init == /\ price \in Prices
        /\ rates \in Rates
        /\ platformOwned \in BOOLEAN
        /\ late = 0

DayPasses == /\ late < LastDay
             /\ late' = late + 1
             /\ UNCHANGED <<price, rates, platformOwned>>

Next == DayPasses

Spec == Init /\ [][Next]_vars

Split == CalculateRevenueSplit(price, rates[1], rates[2], rates[3], platformOwned)

EarnBack == CalculateEarnBack(Split.base, late, rates[3], platformOwned)

----------------------------------------------------------------------------

\* No money is lost or created at checkout: fee, escrow and guaranteed
\* revenue re-sum to the price, and so do escrow and the two settled cuts
\* ("the two cuts always re-sum to N", revenue-split.calculator.ts:12).
PriceConserved ==
  /\ Split.fee + Split.base + Split.guaranteed = price
  /\ Split.base + Split.instructor + Split.platform = price
  /\ \A part \in {"fee", "base", "guaranteed", "instructor", "platform"} :
       Split[part] >= 0

\* The escrow is distributed to the last unit whenever the learner finishes,
\* and nobody's part is negative ("Forfeited + Earn-Back always re-sum to the
\* base B exactly", earn-back.calculator.ts:8).
EscrowConserved ==
  /\ EarnBack.refund + EarnBack.instructor + EarnBack.platform = Split.base
  /\ \A part \in {"refund", "instructor", "platform"} : EarnBack[part] >= 0

\* The deduction is the exact 2 percent a day to within half a unit, nothing
\* on time and everything from the fiftieth day (earn-back.calculator.ts:12).
DeductionExact ==
  LET exact == Split.base * DeductionPctPerDay * late
  IN  IF late >= MaxLateDays
      THEN EarnBack.refund = 0
      ELSE 100 * EarnBack.forfeited \in (exact - 50)..(exact + 50)

\* The creator's ledger reads the learner's behaviour off the resolution right
\* ("finished_on_time", "finished_late", "deadline_missed" of earn-back-ledger
\* .calculator.ts:29-35) for every escrow above 25 units, whoever owns the
\* content; up to 25 units the last day already rounds to the whole escrow.
LedgerTellsLateness ==
  LET outcome == SaleOutcome(Split.base, TRUE, EarnBack)
  IN  Split.base > 25 =>
        /\ outcome = "finished_on_time" <=> late = 0
        /\ outcome = "deadline_missed" <=> late >= MaxLateDays

\* Finishing later never pays the learner more, nor the creator less.
LatenessNeverPays ==
  [][/\ EarnBack'.refund <= EarnBack.refund
     /\ EarnBack'.instructor >= EarnBack.instructor]_vars
============================================================================
