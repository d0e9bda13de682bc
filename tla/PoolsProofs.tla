---------------------------- MODULE PoolsProofs ----------------------------
(***************************************************************************)
(* What the money arithmetic of Pools returns, for every amount and every  *)
(* percentage: the lemmas the proofs about its users cite.                 *)
(***************************************************************************)
EXTENDS Pools, TLAPS

LEMMA TimesMonotone ==
  ASSUME NEW a \in Nat, NEW b \in Nat, NEW c \in Nat, b <= c
  PROVE  a * b \in Nat /\ a * b <= a * c
OBVIOUS

\* A percentage of an amount is a whole amount between nothing and all of it.
LEMMA PctBounds ==
  ASSUME NEW n \in Nat, NEW pct \in 0..100
  PROVE  RoundPct(n, pct) \in 0..n /\ FloorPct(n, pct) \in 0..n
<1>1. n * pct \in Nat /\ n * pct <= n * 100
  BY TimesMonotone
<1> DEFINE m == n * pct
<1>2. m \in Nat /\ m <= 100 * n
  BY <1>1
<1> HIDE DEF m
<1>3. (m + 50) \div 100 \in 0..n /\ m \div 100 \in 0..n
  BY <1>2
<1>4. QED
  BY <1>3 DEF RoundPct, FloorPct, m

LEMMA ClampBounds ==
  ASSUME NEW n \in Int, NEW max \in Nat
  PROVE  Clamp(n, max) \in 0..max
BY DEF Clamp, AtMost, AtLeastZero

\* Both cuts of a pool are whole amounts and re-sum to the pool.
LEMMA SplitConserves ==
  ASSUME NEW n \in Nat, NEW share \in 0..100, NEW owned \in BOOLEAN
  PROVE  /\ SplitRevenue(n, share, owned).instructor \in 0..n
         /\ SplitRevenue(n, share, owned).platform \in 0..n
         /\ SplitRevenue(n, share, owned).instructor
              + SplitRevenue(n, share, owned).platform = n
<1>1. FloorPct(n, share) \in 0..n
  BY PctBounds
<1>2. QED
  BY <1>1 DEF SplitRevenue, AtLeastZero

\* A day more never forfeits less, and never more than the escrow.
LEMMA ForfeitedBounds ==
  ASSUME NEW escrow \in Nat, NEW days \in Nat
  PROVE  Forfeited(escrow, days) \in 0..escrow
<1> DEFINE b == escrow * DeductionPctPerDay
           i == Clamp(days, MaxLateDays)
           m == b * i
<1>0. b \in Nat /\ i \in Nat
  BY DEF DeductionPctPerDay, MaxLateDays, Clamp, AtMost, AtLeastZero
<1>1. m \in Nat
  BY <1>0, TimesMonotone
<1> HIDE DEF m
<1>2. (m + 50) \div 100 \in Nat
  BY <1>1
<1>3. QED
  BY <1>2 DEF Forfeited, AtMost, RoundPct, m

LEMMA ForfeitedMonotone ==
  ASSUME NEW escrow \in Nat, NEW d \in Nat, NEW e \in Nat, d <= e
  PROVE  Forfeited(escrow, d) <= Forfeited(escrow, e)
<1> DEFINE b == escrow * DeductionPctPerDay
           i == Clamp(d, MaxLateDays)
           j == Clamp(e, MaxLateDays)
<1>1. b \in Nat /\ i \in Nat /\ j \in Nat /\ i <= j
  BY DEF DeductionPctPerDay, MaxLateDays, Clamp, AtMost, AtLeastZero
<1>2. b * i \in Nat /\ b * j \in Nat /\ b * i <= b * j
  BY <1>1, TimesMonotone
<1>3. \A x, y \in Nat : x <= y => (x + 50) \div 100 <= (y + 50) \div 100
  OBVIOUS
<1>4. RoundPct(b, i) <= RoundPct(b, j) /\ RoundPct(b, i) \in Nat
        /\ RoundPct(b, j) \in Nat
  BY <1>2, <1>3 DEF RoundPct
<1>5. QED
  BY <1>4 DEF Forfeited, AtMost

LEMMA FloorPctMonotone ==
  ASSUME NEW n \in Nat, NEW m \in Nat, n <= m, NEW share \in 0..100
  PROVE  FloorPct(n, share) <= FloorPct(m, share)
<1>1. share * n \in Nat /\ share * m \in Nat /\ share * n <= share * m
  BY TimesMonotone
<1>2. n * share = share * n /\ m * share = share * m
  OBVIOUS
<1>3. \A x, y \in Nat : x <= y => x \div 100 <= y \div 100
  OBVIOUS
<1>4. QED
  BY <1>1, <1>2, <1>3 DEF FloorPct

\* A resolution hands out the escrow, to the last unit; its creator's cut and
\* its platform's cut re-sum to the forfeit; and a platform-owned sale has no
\* creator to pay.
Conserves(r, escrow, owned) ==
  /\ r.refund \in 0..escrow /\ r.forfeited \in 0..escrow
  /\ r.instructor \in 0..escrow /\ r.platform \in 0..escrow
  /\ r.refund + r.forfeited = escrow
  /\ r.instructor + r.platform = r.forfeited
  /\ owned => r.instructor = 0

LEMMA ResolutionConserves ==
  ASSUME NEW escrow \in Nat, NEW days \in Nat, NEW share \in 0..100,
         NEW owned \in BOOLEAN
  PROVE  Conserves(CalculateEarnBack(escrow, days, share, owned), escrow, owned)
<1> DEFINE f == Forfeited(escrow, days)
           cuts == SplitRevenue(f, share, owned)
           r == CalculateEarnBack(escrow, days, share, owned)
<1>1. f \in 0..escrow
  BY ForfeitedBounds
<1>2. owned => cuts.instructor = 0
  BY DEF SplitRevenue
<1>3. /\ r.refund = escrow - f /\ r.forfeited = f
      /\ r.instructor = cuts.instructor /\ r.platform = cuts.platform
  BY DEF CalculateEarnBack
<1> HIDE DEF f, r
<1>4. f \in Nat
  BY <1>1
<1>5. /\ cuts.instructor \in 0..f /\ cuts.platform \in 0..f
      /\ cuts.instructor + cuts.platform = f
  BY <1>4, SplitConserves
<1> HIDE DEF cuts
<1>6. Conserves(r, escrow, owned)
  BY <1>1, <1>2, <1>3, <1>4, <1>5 DEF Conserves
<1>7. QED
  BY <1>6 DEF r

\* Whole days late are a natural number.
LEMMA DaysLateNat ==
  ASSUME NEW deadline \in Int, NEW finished \in Int, NEW units \in Nat \ {0}
  PROVE  DaysLate(deadline, finished, units) \in Nat
<1>1. AtLeastZero(finished - deadline) \in Nat
  BY DEF AtLeastZero
<1>2. QED
  BY <1>1 DEF DaysLate

\* From the fiftieth day on the whole escrow is forfeited.
LEMMA ForfeitedAtCap ==
  ASSUME NEW escrow \in Nat, NEW days \in Nat, days >= MaxLateDays
  PROVE  Forfeited(escrow, days) = escrow
<1>1. Clamp(days, MaxLateDays) = 50
  BY DEF Clamp, AtMost, AtLeastZero, MaxLateDays
<1>2. (escrow * 2 * 50 + 50) \div 100 = escrow
  OBVIOUS
<1>3. QED
  BY <1>1, <1>2 DEF Forfeited, RoundPct, AtMost, DeductionPctPerDay

\* Division by whole units is monotone, and knows the multiples it passed.
LEMMA DivisionBounds ==
  ASSUME NEW x \in Nat, NEW units \in Nat \ {0}
  PROVE  /\ x \div units \in Nat
         /\ units * (x \div units) \in Nat
         /\ units * (x \div units) <= x
         /\ x < units * (x \div units) + units
OBVIOUS

LEMMA DivisionPasses ==
  ASSUME NEW x \in Nat, NEW n \in Nat, NEW units \in Nat \ {0}, units * n <= x
  PROVE  n <= x \div units
<1> DEFINE q == x \div units
<1>1. q \in Nat /\ units * q \in Nat /\ x < units * q + units
  BY DivisionBounds
<1> HIDE DEF q
<1>2. ASSUME n > q PROVE FALSE
  <2>1. units * (q + 1) <= units * n
    BY <1>1, <1>2, TimesMonotone
  <2>2. units * (q + 1) = units * q + units
    BY <1>1
  <2>3. units * n \in Nat
    OBVIOUS
  <2>4. QED
    BY <1>1, <2>1, <2>2, <2>3
<1>3. n <= q
  BY <1>1, <1>2
<1>4. QED
  BY <1>3 DEF q

LEMMA DaysLateMonotone ==
  ASSUME NEW d \in Nat, NEW e \in Nat, d <= e, NEW finished \in Nat,
         NEW units \in Nat \ {0}
  PROVE  DaysLate(e, finished, units) <= DaysLate(d, finished, units)
<1> DEFINE x == AtLeastZero(finished - e)
           y == AtLeastZero(finished - d)
<1>1. x \in Nat /\ y \in Nat /\ x <= y
  BY DEF AtLeastZero
<1> HIDE DEF x, y
<1>2. units * (x \div units) <= y /\ x \div units \in Nat
  BY <1>1, DivisionBounds
<1>3. x \div units <= y \div units
  BY <1>1, <1>2, DivisionPasses
<1>4. QED
  BY <1>3 DEF DaysLate, x, y
============================================================================
