------------------------------- MODULE Pools -------------------------------
(***************************************************************************)
(* The money arithmetic of the payments context, in integer minor units:   *)
(* what a price is split into when it is paid (revenue-split.calculator)   *)
(* and what becomes of the escrowed part (earn-back.calculator, and the    *)
(* creator's view of it in earn-back-ledger.calculator).  Percentages are  *)
(* 0..100; the callers pass whole minor units, so the rounding of inputs   *)
(* in the code is the identity here and only the divisions round.          *)
(***************************************************************************)
EXTENDS Integers

AtLeastZero(n) == IF n < 0 THEN 0 ELSE n
AtMost(max, n) == IF n > max THEN max ELSE n
Clamp(n, max) == AtMost(max, AtLeastZero(n))

\* Math.round and Math.floor of amount * pct / 100, for amounts >= 0.
RoundPct(amount, pct) == (amount * pct + 50) \div 100
FloorPct(amount, pct) == (amount * pct) \div 100

\* Mutant: both cuts are rounded to the nearest unit.
SplitRevenueRounded(n, share, platformOwned) ==
  IF n <= 0 \/ platformOwned
  THEN [instructor |-> 0, platform |-> AtLeastZero(n)]
  ELSE [instructor |-> RoundPct(n, share), platform |-> RoundPct(n, 100 - share)]

\* "Round the instructor cut DOWN, platform takes the remainder."
SplitRevenue(n, share, platformOwned) ==
  IF n <= 0 \/ platformOwned
  THEN [instructor |-> 0, platform |-> AtLeastZero(n)]
  ELSE [instructor |-> FloorPct(n, share), platform |-> n - FloorPct(n, share)]

\* Mutant: the escrow is taken of the price, not of what the fee leaves.
CalculateRevenueSplitOfPrice(price, feePct, pct, share, platformOwned) ==
  LET fee == RoundPct(price, Clamp(feePct, 100))
      base == FloorPct(price, Clamp(pct, 100))
      cuts == SplitRevenue(price - fee - base, share, platformOwned)
  IN  [fee |-> fee, base |-> base, guaranteed |-> price - fee - base,
       instructor |-> cuts.instructor, platform |-> fee + cuts.platform]

\* Fee off the top, escrow off the rest, and the guaranteed remainder split.
\* pct is the frozen Earn-Back percentage; 0 stands for "not eligible".
CalculateRevenueSplit(price, feePct, pct, share, platformOwned) ==
  LET fee == RoundPct(price, Clamp(feePct, 100))
      rest == price - fee
      base == IF rest > 0 THEN FloorPct(rest, Clamp(pct, 100)) ELSE 0
      cuts == SplitRevenue(rest - base, share, platformOwned)
  IN  [fee |-> fee, base |-> base, guaranteed |-> rest - base,
       instructor |-> cuts.instructor, platform |-> fee + cuts.platform]

----------------------------------------------------------------------------

MaxLateDays == 50
DeductionPctPerDay == 2

\* Whole days after the deadline, instants being counted unitsPerDay a day.
DaysLate(deadline, finishedAt, unitsPerDay) ==
  AtLeastZero(finishedAt - deadline) \div unitsPerDay

\* Mutant: a lateness beyond the cap is taken for a mistake.
ForfeitedInRange(base, late) ==
  IF late > MaxLateDays THEN 0
                        ELSE RoundPct(base * DeductionPctPerDay, AtLeastZero(late))

Forfeited(base, late) ==
  AtMost(base, RoundPct(base * DeductionPctPerDay, Clamp(late, MaxLateDays)))

CalculateEarnBack(base, late, share, platformOwned) ==
  LET forfeited == Forfeited(base, late)
      cuts == SplitRevenue(forfeited, share, platformOwned)
  IN  [late |-> Clamp(late, MaxLateDays), refund |-> base - forfeited,
       forfeited |-> forfeited, instructor |-> cuts.instructor,
       platform |-> cuts.platform, noPayout |-> base - forfeited <= 0]

\* Mutant: on time is decided by "earned nothing".
SaleOutcomeByEarning(base, resolved, r) ==
  CASE base <= 0 -> "settled"
    [] base > 0 /\ ~resolved -> "at_stake"
    [] base > 0 /\ resolved /\ r.instructor = 0 -> "finished_on_time"
    [] base > 0 /\ resolved /\ r.instructor > 0 /\ r.forfeited >= base -> "deadline_missed"
    [] OTHER -> "finished_late"

\* The creator's view of a sale whose resolution r exists once it is resolved.
SaleOutcome(base, resolved, r) ==
  CASE base <= 0 -> "settled"
    [] base > 0 /\ ~resolved -> "at_stake"
    [] base > 0 /\ resolved /\ r.late <= 0 -> "finished_on_time"
    [] base > 0 /\ resolved /\ r.late > 0 /\ r.forfeited >= base -> "deadline_missed"
    [] OTHER -> "finished_late"
============================================================================
