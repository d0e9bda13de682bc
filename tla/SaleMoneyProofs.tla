-------------------------- MODULE SaleMoneyProofs --------------------------
(***************************************************************************)
(* The money arithmetic, for every price and every percentage.             *)
(***************************************************************************)
EXTENDS SaleMoney, PoolsProofs

----------------------------------------------------------------------------
(* The snapshot of the sale.                                               *)

Snapshot == /\ price \in Nat
            /\ rates \in (0..100) \X (0..100) \X (0..100)
            /\ platformOwned \in BOOLEAN
            /\ late \in Nat

LEMMA SnapshotAlways == Spec => []Snapshot
<1>1. Init => Snapshot
  BY SaleMoneyAssumption DEF Init, Snapshot
<1>2. Snapshot /\ [Next]_vars => Snapshot'
  BY DEF Snapshot, Next, DayPasses, vars
<1>3. QED
  BY <1>1, <1>2, PTL DEF Spec

\* The pools of a sale, each between nothing and the price.
LEMMA PoolsOfASale ==
  ASSUME Snapshot
  PROVE  /\ Split.fee \in Nat /\ Split.base \in Nat /\ Split.guaranteed \in Nat
         /\ Split.platform \in Nat
         /\ Split.fee + Split.base + Split.guaranteed = price
         /\ Split.instructor \in Nat
         /\ Split.platform - Split.fee \in Nat
         /\ Split.instructor + (Split.platform - Split.fee) = Split.guaranteed
<1> DEFINE fee == RoundPct(price, Clamp(rates[1], 100))
           rest == price - fee
           base == IF rest > 0 THEN FloorPct(rest, Clamp(rates[2], 100)) ELSE 0
           cuts == SplitRevenue(rest - base, rates[3], platformOwned)
<1>1. /\ price \in Nat /\ rates[1] \in 0..100 /\ rates[2] \in 0..100
      /\ rates[3] \in 0..100 /\ platformOwned \in BOOLEAN
  BY DEF Snapshot
<1>2. Clamp(rates[1], 100) \in 0..100 /\ Clamp(rates[2], 100) \in 0..100
  BY <1>1 DEF Clamp, AtMost, AtLeastZero
<1>3. fee \in 0..price
  BY <1>1, <1>2, PctBounds
<1> HIDE DEF fee
<1>4. rest \in Nat /\ fee + rest = price
  BY <1>1, <1>3
<1> HIDE DEF rest
<1>5. base \in 0..rest
  <2>1. FloorPct(rest, Clamp(rates[2], 100)) \in 0..rest
    BY <1>2, <1>4, PctBounds
  <2>2. QED
    BY <1>4, <2>1
<1> HIDE DEF base
<1>6. rest - base \in Nat
  BY <1>4, <1>5
<1>7. /\ cuts.instructor \in 0..(rest - base)
      /\ cuts.platform \in 0..(rest - base)
      /\ cuts.instructor + cuts.platform = rest - base
  BY <1>1, <1>6, SplitConserves
<1> HIDE DEF cuts
<1>8. Split = [fee |-> fee, base |-> base, guaranteed |-> rest - base,
               instructor |-> cuts.instructor, platform |-> fee + cuts.platform]
  BY DEF Split, CalculateRevenueSplit, fee, rest, base, cuts
<1>9. /\ Split.fee = fee /\ Split.base = base /\ Split.guaranteed = rest - base
      /\ Split.instructor = cuts.instructor
      /\ Split.platform = fee + cuts.platform
  BY <1>8
<1>10. QED
  BY <1>1, <1>3, <1>4, <1>5, <1>6, <1>7, <1>9

\* The resolution of its escrow.
LEMMA EscrowOfASale ==
  ASSUME Snapshot
  PROVE  /\ EarnBack.refund \in Nat /\ EarnBack.forfeited \in Nat
         /\ EarnBack.instructor \in Nat /\ EarnBack.platform \in Nat
         /\ EarnBack.refund + EarnBack.forfeited = Split.base
         /\ EarnBack.instructor + EarnBack.platform = EarnBack.forfeited
<1> DEFINE f == Forfeited(Split.base, late)
           cuts == SplitRevenue(f, rates[3], platformOwned)
<1>1. Split.base \in Nat
  BY PoolsOfASale
<1>2. rates[3] \in 0..100 /\ platformOwned \in BOOLEAN /\ late \in Nat
  BY DEF Snapshot
<1>3. f \in 0..Split.base
  BY <1>1, <1>2, ForfeitedBounds
<1>f. f \in Nat
  BY <1>1, <1>3
<1>4. /\ cuts.instructor \in 0..f /\ cuts.platform \in 0..f
      /\ cuts.instructor + cuts.platform = f
  <2> HIDE DEF f
  <2>1. QED
    BY <1>2, <1>f, SplitConserves
<1>5. /\ EarnBack.refund = Split.base - f /\ EarnBack.forfeited = f
      /\ EarnBack.instructor = cuts.instructor
      /\ EarnBack.platform = cuts.platform
  BY DEF EarnBack, CalculateEarnBack
<1> HIDE DEF f, cuts
<1>6. QED
  BY <1>1, <1>3, <1>4, <1>5

(***************************************************************************)
(* Checkout neither loses nor creates money, at any price and any rates.   *)
(***************************************************************************)
THEOREM NoMoneyLostAtCheckout == Spec => []PriceConserved
<1>1. Snapshot => PriceConserved
  <2> SUFFICES ASSUME Snapshot PROVE PriceConserved
    OBVIOUS
  <2>1. /\ Split.fee \in Nat /\ Split.base \in Nat /\ Split.guaranteed \in Nat
        /\ Split.fee + Split.base + Split.guaranteed = price
        /\ Split.instructor \in Nat
        /\ Split.platform - Split.fee \in Nat
        /\ Split.instructor + (Split.platform - Split.fee) = Split.guaranteed
    BY PoolsOfASale
  <2>2. Split.platform \in Nat
    BY PoolsOfASale
  <2> DEFINE s == Split
  <2>3. /\ s.fee + s.base + s.guaranteed = price
        /\ s.base + s.instructor + s.platform = price
        /\ s.fee >= 0 /\ s.base >= 0 /\ s.guaranteed >= 0
        /\ s.instructor >= 0 /\ s.platform >= 0
    BY <2>1, <2>2
  <2>4. QED
    BY <2>3 DEF PriceConserved
<1>2. QED
  BY <1>1, SnapshotAlways, PTL

(***************************************************************************)
(* Nor does the resolution of the escrow, however late the learner is.     *)
(***************************************************************************)
THEOREM NoMoneyLostAtResolution == Spec => []EscrowConserved
<1>1. Snapshot => EscrowConserved
  <2> SUFFICES ASSUME Snapshot PROVE EscrowConserved
    OBVIOUS
  <2>1. QED
    BY EscrowOfASale, PoolsOfASale DEF EscrowConserved
<1>2. QED
  BY <1>1, SnapshotAlways, PTL

LEMMA CreatorCutMonotone ==
  ASSUME NEW n \in Nat, NEW m \in Nat, n <= m, NEW share \in 0..100,
         NEW owned \in BOOLEAN
  PROVE  SplitRevenue(n, share, owned).instructor
           <= SplitRevenue(m, share, owned).instructor
<1>1. FloorPct(n, share) <= FloorPct(m, share)
  BY FloorPctMonotone
<1>2. FloorPct(n, share) \in 0..n /\ FloorPct(m, share) \in 0..m
  BY PctBounds
<1>3. QED
  BY <1>1, <1>2 DEF SplitRevenue

LEMMA DayLater ==
  ASSUME Snapshot, DayPasses
  PROVE  EarnBack'.refund <= EarnBack.refund
           /\ EarnBack'.instructor >= EarnBack.instructor
<1> DEFINE base == Split.base
           f == Forfeited(base, late)
           g == Forfeited(base, late + 1)
<1>1. base \in Nat /\ late \in Nat /\ rates[3] \in 0..100
        /\ platformOwned \in BOOLEAN
  BY PoolsOfASale DEF Snapshot
<1>2. UNCHANGED <<price, rates, platformOwned>> /\ late' = late + 1
  BY DEF DayPasses
<1>3. Split' = Split
  BY <1>2 DEF Split
<1>4. /\ EarnBack.refund = base - f
      /\ EarnBack.instructor = SplitRevenue(f, rates[3], platformOwned).instructor
  BY DEF EarnBack, CalculateEarnBack
<1>5. /\ EarnBack'.refund = base - g
      /\ EarnBack'.instructor = SplitRevenue(g, rates[3], platformOwned).instructor
  BY <1>2, <1>3 DEF EarnBack, CalculateEarnBack
<1> HIDE DEF base
<1>6. f \in 0..base /\ g \in 0..base /\ f <= g
  <2>1. late + 1 \in Nat /\ late <= late + 1
    BY <1>1
  <2>2. f \in 0..base /\ g \in 0..base
    BY <1>1, <2>1, ForfeitedBounds
  <2>3. f <= g
    BY <1>1, <2>1, ForfeitedMonotone
  <2>4. QED
    BY <2>2, <2>3
<1> HIDE DEF f, g
<1>7. f \in Nat /\ g \in Nat
  BY <1>1, <1>6
<1> DEFINE x == SplitRevenue(f, rates[3], platformOwned).instructor
           y == SplitRevenue(g, rates[3], platformOwned).instructor
<1>8. x <= y /\ x \in 0..f /\ y \in 0..g
  BY <1>1, <1>6, <1>7, CreatorCutMonotone, SplitConserves
<1> HIDE DEF x, y
<1>9. QED
  BY <1>1, <1>4, <1>5, <1>6, <1>7, <1>8 DEF x, y

(***************************************************************************)
(* Finishing a day later never pays the learner more or the creator less.  *)
(***************************************************************************)
THEOREM LaterNeverPays == Spec => LatenessNeverPays
<1>1. Snapshot /\ [Next]_vars
        => [/\ EarnBack'.refund <= EarnBack.refund
            /\ EarnBack'.instructor >= EarnBack.instructor]_vars
  BY DayLater DEF Next
<1>2. QED
  BY <1>1, SnapshotAlways, PTL DEF Spec, LatenessNeverPays

----------------------------------------------------------------------------
(* The deduction, and what the ledger reads off it.                        *)

\* Before the cap, the forfeit is the nearest unit to two percent a day, and
\* leaves something of every escrow above 25 units.
LEMMA ForfeitedBeforeCap ==
  ASSUME NEW escrow \in Nat, NEW days \in Nat, days < MaxLateDays
  PROVE  LET exact == escrow * DeductionPctPerDay * days
         IN  /\ exact \in Nat
             /\ 100 * Forfeited(escrow, days) \in (exact - 50)..(exact + 50)
             /\ escrow > 25 => Forfeited(escrow, days) < escrow
<1> DEFINE b == escrow * DeductionPctPerDay
           m == b * days
<1>1. b \in Nat /\ b = 2 * escrow /\ days <= 49
  BY DEF DeductionPctPerDay, MaxLateDays
<1>2. m \in Nat /\ m <= 98 * escrow
  <2>1. b * days \in Nat /\ b * days <= b * 49
    BY <1>1, TimesMonotone
  <2>2. b * 49 = 98 * escrow
    BY <1>1
  <2>3. QED
    BY <2>1, <2>2
<1>3. Clamp(days, MaxLateDays) = days
  BY <1>1 DEF Clamp, AtMost, AtLeastZero, MaxLateDays
<1> HIDE DEF m
<1> DEFINE q == (m + 50) \div 100
<1>4. /\ q \in Nat /\ 100 * q <= m + 50 /\ m + 50 < 100 * q + 100
      /\ q <= escrow
      /\ escrow > 25 => q < escrow
  BY <1>2
<1>5. Forfeited(escrow, days) = AtMost(escrow, q)
  BY <1>3 DEF Forfeited, RoundPct, q, m
<1> HIDE DEF q
<1>6. Forfeited(escrow, days) = q
  BY <1>4, <1>5 DEF AtMost
<1>7. 100 * q \in (m - 50)..(m + 50)
  BY <1>2, <1>4
<1>8. QED
  BY <1>2, <1>4, <1>6, <1>7 DEF m

LEMMA ResolutionOfASale ==
  ASSUME Snapshot
  PROVE  /\ Split.base \in Nat /\ late \in Nat
         /\ EarnBack.refund = Split.base - EarnBack.forfeited
         /\ EarnBack.forfeited = Forfeited(Split.base, late)
         /\ EarnBack.late = Clamp(late, MaxLateDays)
<1>1. Split.base \in Nat /\ late \in Nat
  BY PoolsOfASale DEF Snapshot
<1>2. QED
  BY <1>1 DEF EarnBack, CalculateEarnBack

(***************************************************************************)
(* Two percent a day to within half a unit, and everything at the cap, at  *)
(* any price and any rates.                                                *)
(***************************************************************************)
THEOREM DeductionIsExact == Spec => []DeductionExact
<1>1. Snapshot => DeductionExact
  <2> SUFFICES ASSUME Snapshot PROVE DeductionExact
    OBVIOUS
  <2> DEFINE b == Split.base
             f == EarnBack.forfeited
  <2>1. /\ b \in Nat /\ late \in Nat /\ EarnBack.refund = b - f
        /\ f = Forfeited(b, late)
    BY ResolutionOfASale
  <2> HIDE DEF b, f
  <2>2. CASE late >= MaxLateDays
    <3>1. EarnBack.refund = 0
      BY <2>1, <2>2, ForfeitedAtCap
    <3>2. QED
      BY <2>2, <3>1 DEF DeductionExact
  <2>3. CASE late < MaxLateDays
    <3>1. 100 * f \in (b * DeductionPctPerDay * late - 50)
                        ..(b * DeductionPctPerDay * late + 50)
      BY <2>1, <2>3, ForfeitedBeforeCap
    <3>2. ~(late >= MaxLateDays)
      BY <2>1, <2>3 DEF MaxLateDays
    <3>3. QED
      BY <3>1, <3>2 DEF DeductionExact, b, f
  <2>4. QED
    BY <2>1, <2>2, <2>3 DEF MaxLateDays
<1>2. QED
  BY <1>1, SnapshotAlways, PTL

(***************************************************************************)
(* Above 25 units the creator's ledger tells on time, late and missed      *)
(* apart, whoever owns the content.                                        *)
(***************************************************************************)
THEOREM LedgerIsRight == Spec => []LedgerTellsLateness
<1>1. Snapshot => LedgerTellsLateness
  <2> SUFFICES ASSUME Snapshot, Split.base > 25 PROVE
                 LET outcome == SaleOutcome(Split.base, TRUE, EarnBack)
                 IN  /\ outcome = "finished_on_time" <=> late = 0
                     /\ outcome = "deadline_missed" <=> late >= MaxLateDays
    BY DEF LedgerTellsLateness
  <2> DEFINE b == Split.base
             r == EarnBack
             outcome == SaleOutcome(b, TRUE, r)
  <2>1. /\ b \in Nat /\ b > 25 /\ late \in Nat
        /\ r.forfeited = Forfeited(b, late)
        /\ r.late = Clamp(late, MaxLateDays)
    BY ResolutionOfASale
  <2> HIDE DEF b, r
  <2>2. r.late \in Nat /\ (r.late <= 0 <=> late = 0)
    BY <2>1 DEF Clamp, AtMost, AtLeastZero, MaxLateDays
  <2>3. r.forfeited \in 0..b /\ (r.forfeited >= b <=> late >= MaxLateDays)
    <3>1. Forfeited(b, late) \in 0..b
      BY <2>1, ForfeitedBounds
    <3>2. late >= MaxLateDays => Forfeited(b, late) = b
      BY <2>1, ForfeitedAtCap
    <3>3. late < MaxLateDays => Forfeited(b, late) < b
      BY <2>1, ForfeitedBeforeCap
    <3>4. QED
      BY <2>1, <3>1, <3>2, <3>3 DEF MaxLateDays
  <2>4. /\ outcome = "finished_on_time" <=> late = 0
        /\ outcome = "deadline_missed" <=> late >= MaxLateDays
    <3>1. CASE late = 0
      <4>1. outcome = "finished_on_time"
        BY <2>1, <2>2, <3>1 DEF SaleOutcome
      <4>2. ~(late >= MaxLateDays)
        BY <3>1 DEF MaxLateDays
      <4> HIDE DEF outcome
      <4>3. QED
        BY <3>1, <4>1, <4>2
    <3>2. CASE late # 0 /\ late >= MaxLateDays
      <4>1. outcome = "deadline_missed"
        BY <2>1, <2>2, <2>3, <3>2 DEF SaleOutcome
      <4>2. QED
        BY <3>2, <4>1
    <3>3. CASE late # 0 /\ ~(late >= MaxLateDays)
      <4>1. outcome = "finished_late"
        BY <2>1, <2>2, <2>3, <3>3 DEF SaleOutcome
      <4>2. QED
        BY <3>3, <4>1
    <3>4. QED
      BY <3>1, <3>2, <3>3
  <2>5. QED
    BY <2>4 DEF b, r
<1>2. QED
  BY <1>1, SnapshotAlways, PTL
============================================================================
