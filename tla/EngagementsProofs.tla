-------------------------- MODULE EngagementsProofs -------------------------
(***************************************************************************)
(* Theorems about hourly work, for any rate, fee, windows, number of       *)
(* weeks, callers, lost receipts and crashes. The account pays in parts    *)
(* that add up to the last unit; the backend's row is true of the chain.   *)
(* The invariant has four parts. WorkInv is the chain's own: the cycles    *)
(* and the account. TypesInv keeps each call's copy of the row and what    *)
(* the call checked in it. TruthInv says that the row, and every copy a    *)
(* call still holds, is true of the chain: this is what makes a late       *)
(* write of a whole row harmless, since the chain never takes back what a  *)
(* copy says (Goes). HoldInv says that one call at a time answers the      *)
(* offer, so that no answer overwrites another.                            *)
(* The last part shows that the work's money is an account as DealAccount  *)
(* describes it.                                                           *)
(***************************************************************************)
EXTENDS Engagements, FiniteSums, TLAPS

\* The cycle's own numbers: what it paid is the price of what is approved.
CycleOK(c) ==
    /\ c.state = "none" => c = NoCycle
    /\ c.state = "Funded" => c.approved <= c.claimed /\ c.paid = Gross(c.approved)
    /\ c.state = "Disputed" => /\ c.approved + c.disputed = c.claimed /\ c.disputed > 0
                               /\ c.paid = Gross(c.approved)
    /\ c.paid <= Gross(MaxUnits)

\* Cycles are funded in order, none is worked on before it starts, and none runs past the last.
CyclesInv ==
    /\ \A k \in Weeks : CycleOK(cycles[k]) /\ (cycles[k].claimed > 0 => CycleStart(k) <= now)
    /\ engagement.next <= engagement.runs
    /\ \A k \in Weeks : k >= engagement.next => cycles[k].state \notin {"Funded", "Disputed"}
    /\ \A k \in Weeks : engagement.next <= k /\ k < engagement.runs => cycles[k] = NoCycle
    /\ engagement.state = "None" => engagement.next = 0 /\ engagement.runs = Periods

Parts == [k \in Weeks |-> Net(cycles[k].paid)]
Holdings == [k \in Weeks |-> HeldFor(cycles[k])]
MoneyInv ==
    /\ earned = SumOn(Parts, Weeks)
    /\ balance = IF engagement.state \in {"None", "Closed"} THEN 0 ELSE SumOn(Holdings, Weeks)

WorkInv == WorkTypeOK /\ CyclesInv /\ MoneyInv

-----------------------------------------------------------------------------
(***************************************************************************)
(* Prices and fees.                                                        *)
(***************************************************************************)
LEMMA Constants ==
    /\ BPS \in Nat /\ BPS > 0 /\ FeeBps \in 0..BPS /\ FallbackBps \in 0..BPS /\ Rulings \subseteq 0..BPS
    /\ Rate \in Nat /\ Rate > 0 /\ MaxUnits \in Nat /\ MaxUnits > 0 /\ Periods \in Nat /\ Periods > 0
    /\ Start \in Nat /\ Start > 0 /\ Cycle \in Nat /\ Cycle > 0 /\ Review \in Nat /\ Review > 0
    /\ RulingPeriod \in Nat /\ RulingPeriod > 0 /\ Grace \in Nat /\ NoticeCycles \in Nat
    /\ UnitScale \in Nat /\ UnitScale > 0 /\ UnitScale <= Rate * MaxUnits
<1>1. \A c \in {Rate, UnitScale, MaxUnits, Periods, Start, Cycle, Review, RulingPeriod} : c \in Nat \ {0}
  BY WorkAssumption
<1>2. {Grace, NoticeCycles} \subseteq Nat /\ BPS \in Nat \ {0} /\ FeeBps \in 0..BPS
      /\ FallbackBps \in 0..BPS /\ Rulings \subseteq 0..BPS
  BY WorkAssumption
<1>3. /\ Rate \in Nat \ {0} /\ MaxUnits \in Nat \ {0} /\ Periods \in Nat \ {0} /\ Start \in Nat \ {0}
      /\ Cycle \in Nat \ {0} /\ Review \in Nat \ {0} /\ RulingPeriod \in Nat \ {0} /\ UnitScale \in Nat \ {0}
  BY <1>1
<1>4. Grace \in Nat /\ NoticeCycles \in Nat
  BY <1>2
<1>5. \A n \in Nat \ {0} : n \in Nat /\ n > 0
  OBVIOUS
<1>6. BPS > 0 /\ UnitScale <= Rate * MaxUnits
  BY <1>2, WorkAssumption
<1> QED BY <1>2, <1>3, <1>4, <1>5, <1>6, Zenon

LEMMA WeeksFinite == IsFiniteSet(Weeks) /\ Weeks \subseteq Nat /\ 0 \in Weeks
<1>1. Periods \in Nat /\ Periods > 0 /\ Periods - 1 \in Int
  BY Constants
<1> QED BY <1>1, FS_Interval DEF Weeks

LEMMA ProductGrows ==
    ASSUME NEW a \in Nat, NEW x \in Nat, NEW y \in Nat, x <= y
    PROVE  a * x \in Nat /\ a * y \in Nat /\ a * x <= a * y
OBVIOUS

LEMMA GrossGrows ==
    ASSUME NEW x \in Nat, NEW y \in Nat, x <= y
    PROVE  Gross(x) \in Nat /\ Gross(y) \in Nat /\ Gross(x) <= Gross(y) /\ Gross(0) = 0
<1> DEFINE p == Rate * x
           q == Rate * y
<1>1. UnitScale \in Nat /\ UnitScale > 0 /\ Rate \in Nat
  BY Constants
<1>2. p \in Nat /\ q \in Nat /\ p <= q
  BY <1>1, ProductGrows
<1>3. Gross(x) = p \div UnitScale /\ Gross(y) = q \div UnitScale
  BY DEF Gross
<1>4. Gross(0) = 0
  <2>1. Rate * 0 = 0 /\ 0 \div UnitScale = 0
    BY <1>1
  <2> QED BY <2>1 DEF Gross
<1> HIDE DEF p, q
<1> QED BY <1>1, <1>2, <1>3, <1>4, QuotientBounds, QuotientMonotone

\* A cycle's budget, rounded down, is still something.
LEMMA BudgetPositive == Gross(MaxUnits) \in Nat /\ Gross(MaxUnits) > 0
<1> DEFINE p == Rate * MaxUnits
<1>1. UnitScale \in Nat /\ UnitScale > 0 /\ Rate \in Nat /\ MaxUnits \in Nat /\ UnitScale <= p
  BY Constants
<1>2. p \in Nat
  BY <1>1
<1>3. Gross(MaxUnits) = p \div UnitScale
  BY DEF Gross
<1> HIDE DEF p
<1>4. UnitScale \div UnitScale = 1
  BY <1>1
<1> QED BY <1>1, <1>2, <1>3, <1>4, QuotientBounds, QuotientMonotone

LEMMA FeesGrow ==
    ASSUME NEW x \in Nat, NEW y \in Nat, x <= y
    PROVE  /\ Fee(x) \in Nat /\ HalfFee(x) \in Nat /\ HalfFee(y) \in Nat /\ HalfFee(x) <= HalfFee(y)
           /\ HalfFee(x) <= Fee(x) /\ Fee(x) <= x
<1> DEFINE p == x * FeeBps
           q == y * FeeBps
           f == p \div BPS
           g == q \div BPS
<1>1. FeeBps \in Nat /\ FeeBps <= BPS /\ BPS \in Nat /\ BPS > 0
  BY Constants
<1>2. p \in Nat /\ q \in Nat /\ p <= q
  BY <1>1
<1>3. p <= x * BPS /\ x * BPS \in Nat
  BY <1>1
<1>4. (x * BPS) \div BPS = x
  BY <1>1
<1> HIDE DEF p, q
<1>5. f \in Nat /\ g \in Nat /\ f <= g
  BY <1>1, <1>2, QuotientBounds, QuotientMonotone
<1>6. f <= x
  BY <1>1, <1>2, <1>3, <1>4, QuotientMonotone
<1>7. Fee(x) = f /\ Fee(y) = g
  BY DEF Fee, p, q
<1> HIDE DEF f, g
<1>8. f \div 2 \in Nat /\ g \div 2 \in Nat /\ f \div 2 <= g \div 2 /\ f \div 2 <= f
  BY <1>5
<1> QED BY <1>5, <1>6, <1>7, <1>8 DEF HalfFee

\* What is paid for a cycle and its half of the fee are covered by what funding it took.
LEMMA CostCovers ==
    ASSUME NEW x \in Nat, x <= Gross(MaxUnits)
    PROVE  /\ Cost \in Nat /\ x + HalfFee(x) <= Cost /\ HalfFee(x) \in Nat
           /\ Net(x) \in Nat /\ Fee(x) \in Nat /\ Net(x) + Fee(x) = x + HalfFee(x)
<1>1. Gross(MaxUnits) \in Nat
  BY Constants, GrossGrows
<1>2. Fee(x) \in Nat /\ HalfFee(x) \in Nat /\ HalfFee(Gross(MaxUnits)) \in Nat
      /\ HalfFee(x) <= HalfFee(Gross(MaxUnits)) /\ HalfFee(x) <= Fee(x) /\ Fee(x) <= x
  BY <1>1, FeesGrow
<1>3. Cost = Gross(MaxUnits) + HalfFee(Gross(MaxUnits)) /\ Net(x) = x - (Fee(x) - HalfFee(x))
  BY DEF Cost, Net
<1> QED BY <1>1, <1>2, <1>3

LEMMA NothingPaid == Gross(0) = 0 /\ Fee(0) = 0 /\ HalfFee(0) = 0 /\ Net(0) = 0 /\ Cost \in Nat
<1>1. Gross(0) = 0 /\ Gross(MaxUnits) \in Nat /\ 0 <= Gross(MaxUnits)
  BY Constants, GrossGrows
<1>2. Fee(0) \in Nat /\ HalfFee(0) \in Nat /\ HalfFee(0) <= Fee(0) /\ Fee(0) <= 0
  BY FeesGrow
<1>3. Cost \in Nat
  BY <1>1, CostCovers
<1>4. Net(0) = 0 - (Fee(0) - HalfFee(0))
  BY DEF Net
<1> QED BY <1>1, <1>2, <1>3, <1>4

\* A ruling's award is a part of what the objected units add to the price.
LEMMA AwardWithin ==
    ASSUME NEW a \in Nat, NEW d \in Nat, NEW bps \in 0..BPS, a + d <= MaxUnits
    PROVE  LET award == ((Gross(a + d) - Gross(a)) * bps) \div BPS
           IN  Gross(a) \in Nat /\ award \in Nat /\ Gross(a) + award <= Gross(MaxUnits)
<1> DEFINE g == Gross(a + d) - Gross(a)
           p == g * bps
<1>1. BPS \in Nat /\ BPS > 0 /\ bps \in Nat /\ bps <= BPS /\ MaxUnits \in Nat
  BY Constants
<1>2. /\ Gross(a) \in Nat /\ Gross(a + d) \in Nat /\ Gross(a) <= Gross(a + d) /\ Gross(a + d) <= Gross(MaxUnits)
      /\ Gross(MaxUnits) \in Nat
  BY <1>1, GrossGrows
<1>3. g \in Nat /\ Gross(a) + g <= Gross(MaxUnits)
  BY <1>2
<1> HIDE DEF g
<1>4. p \in Nat /\ g * BPS \in Nat /\ p <= g * BPS /\ (g * BPS) \div BPS = g
  BY <1>1, <1>3
<1> HIDE DEF p
<1>5. p \div BPS \in Nat /\ p \div BPS <= g
  BY <1>1, <1>3, <1>4, QuotientBounds, QuotientMonotone
<1>6. p \div BPS = ((Gross(a + d) - Gross(a)) * bps) \div BPS
  BY DEF p, g
<1>7. Gross(a) + (p \div BPS) <= Gross(MaxUnits)
  BY <1>2, <1>3, <1>5
<1> QED BY <1>2, <1>5, <1>6, <1>7

-----------------------------------------------------------------------------
(***************************************************************************)
(* What a step leaves of the cycles and the account.                       *)
(***************************************************************************)
\* What the chain never takes back, from one state of the work and its cycles to a later one.
Forward(st, cs, st2, cs2) ==
    /\ st = "Closed" => st2 = "Closed"
    /\ st \in {"Ending", "Closed"} => st2 \in {"Ending", "Closed"}
    /\ st \in {"Active", "Ending", "Closed"} => st2 \in {"Active", "Ending", "Closed"}
    /\ \A k \in Weeks :
           /\ cs[k].state = "Settled" => cs2[k].state = "Settled"
           /\ cs[k].state \in {"Disputed", "Settled"} => cs2[k].state \in {"Disputed", "Settled"}
           /\ cs[k].escalatedAt # 0 => cs2[k].escalatedAt # 0
           /\ cs2[k].approved >= cs[k].approved /\ cs2[k].paid >= cs[k].paid
Goes == Forward(engagement.state, cycles, engagement'.state, cycles')

EngagementType ==
    [state : {"None", "Offered", "Active", "Ending", "Closed"}, next : 0..Periods, runs : 0..Periods]

LEMMA Typed ==
    ASSUME WorkTypeOK
    PROVE  /\ now \in Nat /\ balance \in Nat /\ earned \in Nat
           /\ engagement \in EngagementType /\ cycles \in [Weeks -> CycleType]
           /\ engagement.next \in Nat /\ engagement.runs \in Nat /\ engagement.runs <= Periods
           /\ \A k \in Weeks : cycles[k] \in CycleType
<1>1. engagement \in EngagementType /\ cycles \in [Weeks -> CycleType]
      /\ now \in Nat /\ balance \in Nat /\ earned \in Nat
  BY DEF WorkTypeOK, EngagementType
<1>2. engagement.next \in 0..Periods /\ engagement.runs \in 0..Periods
  BY <1>1 DEF EngagementType
<1> QED BY <1>1, <1>2, Constants

LEMMA CycleTyped ==
    ASSUME NEW c \in CycleType
    PROVE  /\ c.claimed \in Nat /\ c.approved \in Nat /\ c.disputed \in Nat /\ c.paid \in Nat /\ c.escalatedAt \in Nat
           /\ c.claimed <= MaxUnits /\ c.approved <= MaxUnits /\ c.disputed <= MaxUnits
           /\ c.state \in {"none", "Funded", "Disputed", "Settled"}
<1>1. c.claimed \in 0..MaxUnits /\ c.approved \in 0..MaxUnits /\ c.disputed \in 0..MaxUnits
      /\ c.paid \in Nat /\ c.escalatedAt \in Nat /\ c.state \in {"none", "Funded", "Disputed", "Settled"}
  BY DEF CycleType
<1> QED BY <1>1, Constants

LEMMA NoCycleTyped == NoCycle \in CycleType /\ CycleOK(NoCycle) /\ HeldFor(NoCycle) = 0 /\ Net(NoCycle.paid) = 0
<1>1. NoCycle \in CycleType
  BY Constants DEF NoCycle, CycleType
<1>2. 0 <= Gross(MaxUnits)
  BY Constants, GrossGrows
<1> QED BY <1>1, <1>2, NothingPaid DEF NoCycle, CycleOK, HeldFor

LEMMA HeldIsNat ==
    ASSUME NEW c \in CycleType, CycleOK(c)
    PROVE  HeldFor(c) \in Nat /\ Net(c.paid) \in Nat
<1>1. c.paid \in Nat /\ c.paid <= Gross(MaxUnits)
  BY CycleTyped DEF CycleOK
<1> QED BY <1>1, CostCovers DEF HeldFor

\* One cycle changes: the totals change with it.
LEMMA OneCycle ==
    ASSUME WorkInv, NEW k \in Weeks, NEW d \in CycleType, CycleOK(d), d.claimed > 0 => CycleStart(k) <= now,
           cycles' = [cycles EXCEPT ![k] = d], now' = now
    PROVE  /\ cycles' \in [Weeks -> CycleType] /\ cycles'[k] = d /\ \A j \in Weeks : j # k => cycles'[j] = cycles[j]
           /\ \A j \in Weeks : CycleOK(cycles'[j]) /\ (cycles'[j].claimed > 0 => CycleStart(j) <= now')
           /\ SumOn(Parts, Weeks) \in Nat /\ SumOn(Parts', Weeks) \in Nat
           /\ SumOn(Holdings, Weeks) \in Nat /\ SumOn(Holdings', Weeks) \in Nat
           /\ SumOn(Parts', Weeks) = SumOn(Parts, Weeks) + (Net(d.paid) - Net(cycles[k].paid))
           /\ SumOn(Holdings', Weeks) = SumOn(Holdings, Weeks) + (HeldFor(d) - HeldFor(cycles[k]))
<1>1. cycles \in [Weeks -> CycleType] /\ \A j \in Weeks : cycles[j] \in CycleType /\ CycleOK(cycles[j])
      /\ (cycles[j].claimed > 0 => CycleStart(j) <= now)
  BY Typed DEF WorkInv, CyclesInv
<1>2. cycles' \in [Weeks -> CycleType] /\ cycles'[k] = d /\ \A j \in Weeks : j # k => cycles'[j] = cycles[j]
  BY <1>1
<1>3. \A j \in Weeks : cycles'[j] \in CycleType /\ CycleOK(cycles'[j]) /\ (cycles'[j].claimed > 0 => CycleStart(j) <= now')
  BY <1>1, <1>2
<1>4. \A j \in Weeks : /\ Parts[j] \in Nat /\ Holdings[j] \in Nat /\ Parts'[j] \in Nat /\ Holdings'[j] \in Nat
                       /\ j # k => Parts'[j] = Parts[j] /\ Holdings'[j] = Holdings[j]
  BY <1>1, <1>2, <1>3, HeldIsNat DEF Parts, Holdings
<1>5. Parts'[k] = Net(d.paid) /\ Parts[k] = Net(cycles[k].paid)
      /\ Holdings'[k] = HeldFor(d) /\ Holdings[k] = HeldFor(cycles[k])
  BY <1>2 DEF Parts, Holdings
<1>6. IsFiniteSet(Weeks)
  BY WeeksFinite
<1>7. \A j \in Weeks : Parts[j] \in Int /\ Holdings[j] \in Int /\ Parts'[j] \in Int /\ Holdings'[j] \in Int
  BY <1>4
<1>8. SumOn(Parts', Weeks) = SumOn(Parts, Weeks) + (Parts'[k] - Parts[k])
  BY <1>4, <1>6, <1>7, SumChange
<1>9. SumOn(Holdings', Weeks) = SumOn(Holdings, Weeks) + (Holdings'[k] - Holdings[k])
  BY <1>4, <1>6, <1>7, SumChange
<1>10. SumOn(Parts, Weeks) \in Nat /\ SumOn(Parts', Weeks) \in Nat
       /\ SumOn(Holdings, Weeks) \in Nat /\ SumOn(Holdings', Weeks) \in Nat
  BY <1>4, <1>6, SumNat
<1> QED BY <1>2, <1>3, <1>5, <1>8, <1>9, <1>10

\* No cycle changes: neither do the totals.
LEMMA SameCycles ==
    ASSUME cycles' = cycles
    PROVE  SumOn(Parts', Weeks) = SumOn(Parts, Weeks) /\ SumOn(Holdings', Weeks) = SumOn(Holdings, Weeks)
BY DEF Parts, Holdings

LEMMA TotalsNat ==
    ASSUME WorkInv
    PROVE  SumOn(Parts, Weeks) \in Nat /\ SumOn(Holdings, Weeks) \in Nat
<1>1. \A j \in Weeks : Parts[j] \in Nat /\ Holdings[j] \in Nat
  BY Typed, HeldIsNat DEF WorkInv, CyclesInv, Parts, Holdings
<1> QED BY <1>1, WeeksFinite, SumNat

\* A total no less than what was paid is booked as it is.
LEMMA PayBooks ==
    ASSUME NEW k, NEW gross \in Nat, NEW c, cycles[k].paid \in Nat, cycles[k].paid <= gross, Pay(k, gross, c)
    PROVE  /\ cycles' = [cycles EXCEPT ![k] = [c EXCEPT !.paid = gross]] /\ now' = now /\ engagement' = engagement
           /\ earned' = earned + ToWorker(cycles[k].paid, gross)
           /\ balance' = balance - ToWorker(cycles[k].paid, gross) - ToFee(cycles[k].paid, gross)
                         - (IF c.state = "Settled" THEN Unused(gross) ELSE 0)
<1>1. Booked(cycles[k].paid, gross) = gross
  BY DEF Booked
<1> QED BY <1>1 DEF Pay

\* One cycle is paid up to a gross total.
LEMMA PayKeeps ==
    ASSUME WorkInv, NEW k \in Weeks, Live, cycles[k].state \in {"Funded", "Disputed"}, NEW gross \in Nat,
           NEW c \in CycleType, Pay(k, gross, c),
           cycles[k].paid <= gross, CycleOK([c EXCEPT !.paid = gross]), c.state # "none",
           c.claimed = cycles[k].claimed, c.approved >= cycles[k].approved, c.escalatedAt = cycles[k].escalatedAt,
           cycles[k].state = "Disputed" => c.state = "Settled"
    PROVE  WorkInv' /\ Goes
<1> DEFINE d == [c EXCEPT !.paid = gross]
<1>1. /\ d \in CycleType /\ d.paid = gross /\ d.state = c.state /\ d.claimed = c.claimed /\ d.approved = c.approved
      /\ d.escalatedAt = c.escalatedAt
  BY DEF CycleType
<1>2. /\ cycles' = [cycles EXCEPT ![k] = d] /\ now' = now /\ engagement' = engagement
      /\ earned' = earned + ToWorker(cycles[k].paid, gross)
      /\ balance' = balance - ToWorker(cycles[k].paid, gross) - ToFee(cycles[k].paid, gross)
                    - (IF d.state = "Settled" THEN Unused(gross) ELSE 0)
  <2>1. cycles[k].paid \in Nat
    BY Typed, CycleTyped DEF WorkInv
  <2> QED BY <1>1, <2>1, PayBooks
<1>3. CycleOK(d) /\ (d.claimed > 0 => CycleStart(k) <= now)
  BY <1>1 DEF WorkInv, CyclesInv
<1> HIDE DEF d
<1>4. /\ cycles' \in [Weeks -> CycleType] /\ cycles'[k] = d /\ \A j \in Weeks : j # k => cycles'[j] = cycles[j]
      /\ \A j \in Weeks : CycleOK(cycles'[j]) /\ (cycles'[j].claimed > 0 => CycleStart(j) <= now')
      /\ SumOn(Parts, Weeks) \in Nat /\ SumOn(Parts', Weeks) \in Nat
      /\ SumOn(Holdings, Weeks) \in Nat /\ SumOn(Holdings', Weeks) \in Nat
      /\ SumOn(Parts', Weeks) = SumOn(Parts, Weeks) + (Net(d.paid) - Net(cycles[k].paid))
      /\ SumOn(Holdings', Weeks) = SumOn(Holdings, Weeks) + (HeldFor(d) - HeldFor(cycles[k]))
  BY <1>1, <1>2, <1>3, OneCycle
<1>5. engagement.state \in {"Active", "Ending"}
  BY DEF Live
<1>6. CycleOK(cycles[k]) /\ cycles[k] \in CycleType /\ cycles[k].paid \in Nat
  BY Typed, CycleTyped DEF WorkInv, CyclesInv
<1>7. d.paid <= Gross(MaxUnits) /\ cycles[k].paid <= Gross(MaxUnits)
  BY <1>3, <1>6 DEF CycleOK
<1> DEFINE o == cycles[k].paid
<1>8. /\ Cost \in Nat /\ o + HalfFee(o) <= Cost /\ HalfFee(o) \in Nat
      /\ Net(o) \in Nat /\ Fee(o) \in Nat /\ Net(o) + Fee(o) = o + HalfFee(o)
      /\ gross + HalfFee(gross) <= Cost /\ HalfFee(gross) \in Nat
      /\ Net(gross) \in Nat /\ Fee(gross) \in Nat /\ Net(gross) + Fee(gross) = gross + HalfFee(gross)
  BY <1>1, <1>6, <1>7, CostCovers
<1>9. HeldFor(cycles[k]) = Cost - o - HalfFee(o)
  BY DEF HeldFor
<1>10. HeldFor(d) = IF d.state = "Settled" THEN 0 ELSE Cost - gross - HalfFee(gross)
  BY <1>1, CycleTyped DEF HeldFor
<1>11. /\ ToWorker(o, gross) = Net(gross) - Net(o) /\ ToFee(o, gross) = Fee(gross) - Fee(o)
       /\ Unused(gross) = Cost - gross - HalfFee(gross)
  BY DEF ToWorker, ToFee, Unused
<1>12. earned = SumOn(Parts, Weeks) /\ balance = SumOn(Holdings, Weeks)
  BY <1>5 DEF WorkInv, MoneyInv
<1>13. o \in Nat /\ gross \in Nat
  BY <1>6
<1>14. earned' = SumOn(Parts', Weeks)
  BY <1>1, <1>2, <1>4, <1>8, <1>11, <1>12
<1>15. balance' = SumOn(Holdings', Weeks)
  <2> HIDE DEF o
  <2>1. /\ HeldFor(cycles[k]) = Cost - o - HalfFee(o)
        /\ balance' = balance - ToWorker(o, gross) - ToFee(o, gross) - (IF d.state = "Settled" THEN Unused(gross) ELSE 0)
    BY <1>2, <1>9 DEF o
  <2>2. balance' = SumOn(Holdings, Weeks) - (Net(gross) - Net(o)) - (Fee(gross) - Fee(o))
                   - (IF d.state = "Settled" THEN Cost - gross - HalfFee(gross) ELSE 0)
    BY <2>1, <1>11, <1>12
  <2>3. (Net(gross) - Net(o)) + (Fee(gross) - Fee(o)) = (gross + HalfFee(gross)) - (o + HalfFee(o))
    BY <1>8, <1>13
  <2>4. SumOn(Holdings', Weeks) = SumOn(Holdings, Weeks) - (Cost - o - HalfFee(o))
                                   + (IF d.state = "Settled" THEN 0 ELSE Cost - gross - HalfFee(gross))
    BY <1>4, <1>8, <1>10, <1>13, <2>1
  <2>5. CASE d.state = "Settled"
    BY <2>2, <2>3, <2>4, <2>5, <1>4, <1>8, <1>13
  <2>6. CASE d.state # "Settled"
    BY <2>2, <2>3, <2>4, <2>6, <1>4, <1>8, <1>13
  <2> QED BY <2>5, <2>6
<1>16. MoneyInv'
  BY <1>2, <1>5, <1>14, <1>15 DEF MoneyInv
<1>17. WorkTypeOK'
  BY <1>2, <1>4, <1>14, <1>15 DEF WorkInv, WorkTypeOK
<1>18. k < engagement.next
  BY Typed, WeeksFinite DEF WorkInv, CyclesInv
<1>19. CyclesInv'
  BY <1>2, <1>4, <1>18, Typed, WeeksFinite DEF WorkInv, CyclesInv
<1>20. Goes
  <2>1. \A j \in Weeks : j # k => /\ cycles'[j].approved >= cycles[j].approved /\ cycles'[j].paid >= cycles[j].paid
    <3>1. \A j \in Weeks : cycles[j].approved \in Nat /\ cycles[j].paid \in Nat
      BY Typed, CycleTyped DEF WorkInv
    <3> QED BY <1>4, <3>1
  <2>2. d.state \in {"Funded", "Disputed", "Settled"}
    BY <1>1, CycleTyped
  <2>3. engagement'.state = engagement.state
    BY <1>2
  <2>4. \A j \in Weeks : j # k => cycles'[j] = cycles[j]
    BY <1>4
  <2>5. cycles'[k].approved >= cycles[k].approved /\ cycles'[k].paid >= cycles[k].paid
        /\ cycles'[k].escalatedAt = cycles[k].escalatedAt /\ cycles'[k].state = d.state
    BY <1>1, <1>4
  <2>6. cycles[k].state = "Disputed" => d.state = "Settled"
    BY <1>1
  <2> QED BY <2>1, <2>2, <2>3, <2>4, <2>5, <2>6 DEF Goes, Forward
<1> QED BY <1>16, <1>17, <1>19, <1>20 DEF WorkInv

-----------------------------------------------------------------------------
(***************************************************************************)
(* The chain's transactions on one cycle: each keeps the cycle's numbers,  *)
(* pays what the books say, and takes nothing back.                        *)
(***************************************************************************)
LEMMA ReadyCycle ==
    ASSUME WorkInv, NEW k \in Weeks
    PROVE  /\ cycles[k] \in CycleType /\ CycleOK(cycles[k])
           /\ cycles[k].claimed \in Nat /\ cycles[k].approved \in Nat /\ cycles[k].disputed \in Nat
           /\ cycles[k].paid \in Nat /\ cycles[k].escalatedAt \in Nat
           /\ cycles[k].claimed <= MaxUnits /\ cycles[k].approved <= MaxUnits
           /\ cycles[k].claimed > 0 => CycleStart(k) <= now
BY Typed, CycleTyped DEF WorkInv, CyclesInv

LEMMA SubmitKeeps ==
    ASSUME WorkInv, NEW k \in Weeks, NEW u \in Nat, SubmitReady(k, u), SubmitTx(k, u)
    PROVE  WorkInv' /\ Goes
<1> DEFINE c == cycles[k]
           d == [c EXCEPT !.claimed = u]
<1>1. /\ c \in CycleType /\ CycleOK(c) /\ c.claimed \in Nat /\ c.approved \in Nat /\ c.paid \in Nat
      /\ c.state = "Funded" /\ c.approved <= u /\ u <= MaxUnits /\ CycleStart(k) <= now
  BY ReadyCycle, Constants DEF SubmitReady, Running
<1>2. /\ cycles' = [cycles EXCEPT ![k] = d]
      /\ now' = now /\ engagement' = engagement /\ balance' = balance /\ earned' = earned
  BY DEF SubmitTx
<1>3. u \in 0..MaxUnits
  BY <1>1, Constants
<1>4. /\ d \in CycleType /\ d.state = c.state /\ d.paid = c.paid /\ d.approved = c.approved /\ d.claimed = u
      /\ d.escalatedAt = c.escalatedAt
  BY <1>1, <1>3 DEF CycleType
<1>5. CycleOK(d)
  BY <1>1, <1>4 DEF CycleOK
<1>6. c = cycles[k]
  OBVIOUS
<1> HIDE DEF c, d
<1>7. /\ cycles' \in [Weeks -> CycleType] /\ cycles'[k] = d /\ \A j \in Weeks : j # k => cycles'[j] = cycles[j]
      /\ \A j \in Weeks : CycleOK(cycles'[j]) /\ (cycles'[j].claimed > 0 => CycleStart(j) <= now')
      /\ SumOn(Parts, Weeks) \in Nat /\ SumOn(Parts', Weeks) \in Nat
      /\ SumOn(Holdings, Weeks) \in Nat /\ SumOn(Holdings', Weeks) \in Nat
      /\ SumOn(Parts', Weeks) = SumOn(Parts, Weeks) + (Net(d.paid) - Net(cycles[k].paid))
      /\ SumOn(Holdings', Weeks) = SumOn(Holdings, Weeks) + (HeldFor(d) - HeldFor(cycles[k]))
  BY <1>1, <1>2, <1>4, <1>5, OneCycle
<1>8. HeldFor(d) = HeldFor(c) /\ HeldFor(c) \in Nat /\ Net(c.paid) \in Nat
  BY <1>1, <1>4, HeldIsNat DEF HeldFor
<1>9. SumOn(Parts', Weeks) = SumOn(Parts, Weeks) /\ SumOn(Holdings', Weeks) = SumOn(Holdings, Weeks)
  BY <1>4, <1>6, <1>7, <1>8
<1>10. MoneyInv'
  BY <1>2, <1>9 DEF WorkInv, MoneyInv
<1>11. WorkTypeOK'
  BY <1>2, <1>7 DEF WorkInv, WorkTypeOK
<1>12. k < engagement.next
  BY <1>1, <1>6, Typed, WeeksFinite DEF WorkInv, CyclesInv
<1>13. CyclesInv'
  BY <1>2, <1>7, <1>12, Typed, WeeksFinite DEF WorkInv, CyclesInv
<1>14. \A j \in Weeks : cycles[j].approved \in Nat /\ cycles[j].paid \in Nat
  BY ReadyCycle
<1>15. Goes
  BY <1>2, <1>4, <1>6, <1>7, <1>14 DEF Goes, Forward
<1> QED BY <1>10, <1>11, <1>13, <1>15 DEF WorkInv

LEMMA ApproveKeeps ==
    ASSUME WorkInv, NEW k \in Weeks, NEW u \in Nat, ApproveReady(k, u), ApproveTx(k, u)
    PROVE  WorkInv' /\ Goes
<1> DEFINE c == cycles[k]
           d == [c EXCEPT !.approved = u]
           e == [d EXCEPT !.paid = Gross(u)]
<1>1. /\ c \in CycleType /\ CycleOK(c) /\ c.claimed \in Nat /\ c.approved \in Nat /\ c.paid \in Nat
      /\ c.claimed <= MaxUnits /\ c.state = "Funded" /\ Live /\ c.approved < u /\ u <= c.claimed
  BY ReadyCycle DEF ApproveReady, Running
<1>2. Gross(u) \in Nat /\ Gross(c.approved) <= Gross(u) /\ Gross(u) <= Gross(MaxUnits)
  BY <1>1, GrossGrows, Constants
<1>3. u \in 0..MaxUnits
  BY <1>1, Constants
<1>4. /\ d \in CycleType /\ d.state = "Funded" /\ d.claimed = c.claimed /\ d.approved = u
      /\ d.escalatedAt = c.escalatedAt
  BY <1>1, <1>3 DEF CycleType
<1>5. e.state = "Funded" /\ e.claimed = c.claimed /\ e.approved = u /\ e.paid = Gross(u)
  BY <1>4 DEF CycleType
<1>6. CycleOK(e)
  BY <1>1, <1>2, <1>5 DEF CycleOK
<1>7. c.paid <= Gross(u)
  BY <1>1, <1>2 DEF CycleOK
<1>8. Pay(k, Gross(u), d)
  BY DEF ApproveTx
<1>9. c.approved <= u
  BY <1>1
<1> QED BY <1>1, <1>2, <1>4, <1>6, <1>7, <1>8, <1>9, PayKeeps

LEMMA SettleKeeps ==
    ASSUME WorkInv, NEW k \in Weeks, SettleReady(k), SettleTx(k)
    PROVE  WorkInv' /\ Goes /\ cycles'[k].state = "Settled"
<1> DEFINE c == cycles[k]
           d == [c EXCEPT !.approved = c.claimed, !.state = "Settled"]
           e == [d EXCEPT !.paid = Gross(c.claimed)]
<1>1. /\ c \in CycleType /\ CycleOK(c) /\ c.claimed \in Nat /\ c.approved \in Nat /\ c.paid \in Nat
      /\ c.claimed <= MaxUnits /\ c.state = "Funded" /\ Live
  BY ReadyCycle DEF SettleReady, Running
<1>2. c.approved <= c.claimed
  BY <1>1 DEF CycleOK
<1>3. Gross(c.claimed) \in Nat /\ Gross(c.approved) <= Gross(c.claimed) /\ Gross(c.claimed) <= Gross(MaxUnits)
  BY <1>1, <1>2, GrossGrows, Constants
<1>4. /\ d \in CycleType /\ d.state = "Settled" /\ d.claimed = c.claimed /\ d.approved = c.claimed
      /\ d.escalatedAt = c.escalatedAt
  BY <1>1 DEF CycleType
<1>5. e.state = "Settled" /\ e.paid = Gross(c.claimed)
  BY <1>4 DEF CycleType
<1>6. CycleOK(e)
  BY <1>3, <1>5 DEF CycleOK
<1>7. c.paid <= Gross(c.claimed)
  BY <1>1, <1>3 DEF CycleOK
<1>8. Pay(k, Gross(c.claimed), d)
  BY DEF SettleTx
<1>9. WorkInv' /\ Goes
  BY <1>1, <1>2, <1>3, <1>4, <1>6, <1>7, <1>8, PayKeeps
<1>10. cycles'[k] = e
  <2>1. cycles \in [Weeks -> CycleType]
    BY Typed DEF WorkInv
  <2>2. cycles' = [cycles EXCEPT ![k] = e]
    <3>1. c.paid \in Nat /\ Gross(c.claimed) \in Nat /\ c.paid <= Gross(c.claimed) /\ Pay(k, Gross(c.claimed), d)
      BY <1>1, <1>3, <1>7, <1>8
    <3> HIDE DEF d
    <3> QED BY <3>1, PayBooks
  <2> QED BY <2>1, <2>2
<1> QED BY <1>5, <1>9, <1>10

LEMMA ObjectKeeps ==
    ASSUME WorkInv, NEW k \in Weeks, NEW u \in Nat, ObjectReady(k, u), ObjectTx(k, u)
    PROVE  WorkInv' /\ Goes /\ cycles'[k].state = "Disputed"
<1> DEFINE c == cycles[k]
           rest == c.claimed - u
           d == [c EXCEPT !.approved = rest, !.disputed = u, !.state = "Disputed"]
           e == [d EXCEPT !.paid = Gross(rest)]
<1>1. /\ c \in CycleType /\ CycleOK(c) /\ c.claimed \in Nat /\ c.approved \in Nat /\ c.paid \in Nat
      /\ c.claimed <= MaxUnits /\ c.state = "Funded" /\ Live /\ 1 <= u /\ u <= c.claimed - c.approved
  BY ReadyCycle DEF ObjectReady, Running
<1>2. rest \in Nat /\ c.approved <= rest /\ rest <= MaxUnits /\ rest + u = c.claimed
  BY <1>1, Constants
<1> HIDE DEF rest
<1>3. Gross(rest) \in Nat /\ Gross(c.approved) <= Gross(rest) /\ Gross(rest) <= Gross(MaxUnits)
  BY <1>1, <1>2, GrossGrows, Constants
<1>4. rest \in 0..MaxUnits /\ u \in 0..MaxUnits
  BY <1>1, <1>2, Constants
<1>5. /\ d \in CycleType /\ d.state = "Disputed" /\ d.claimed = c.claimed /\ d.approved = rest /\ d.disputed = u
      /\ d.escalatedAt = c.escalatedAt
  BY <1>1, <1>4 DEF CycleType
<1>6. /\ e.state = "Disputed" /\ e.paid = Gross(rest) /\ e.approved = rest /\ e.disputed = u /\ e.claimed = c.claimed
  BY <1>5 DEF CycleType
<1>7. CycleOK(e)
  BY <1>1, <1>2, <1>3, <1>6 DEF CycleOK
<1>8. c.paid <= Gross(rest)
  BY <1>1, <1>3 DEF CycleOK
<1>9. Pay(k, Gross(rest), d)
  BY DEF ObjectTx, rest
<1>10. WorkInv' /\ Goes
  BY <1>1, <1>2, <1>3, <1>5, <1>7, <1>8, <1>9, PayKeeps
<1>11. cycles'[k] = e
  <2>1. cycles \in [Weeks -> CycleType]
    BY Typed DEF WorkInv
  <2>2. cycles' = [cycles EXCEPT ![k] = e]
    <3>1. c.paid \in Nat /\ Gross(rest) \in Nat /\ c.paid <= Gross(rest) /\ Pay(k, Gross(rest), d)
      BY <1>1, <1>3, <1>8, <1>9
    <3> HIDE DEF d
    <3> QED BY <3>1, PayBooks
  <2> QED BY <2>1, <2>2
<1> QED BY <1>6, <1>10, <1>11

LEMMA RulingKeeps ==
    ASSUME WorkInv, NEW k \in Weeks, NEW bps \in 0..BPS, Disputed(k), RulingTx(k, bps)
    PROVE  WorkInv' /\ Goes /\ cycles'[k].state = "Settled"
<1> DEFINE c == cycles[k]
           award == ((Gross(c.approved + c.disputed) - Gross(c.approved)) * bps) \div BPS
           gross == Gross(c.approved) + award
           d == [c EXCEPT !.state = "Settled", !.disputed = 0]
           e == [d EXCEPT !.paid = gross]
<1>1. /\ c \in CycleType /\ CycleOK(c) /\ c.claimed \in Nat /\ c.approved \in Nat /\ c.paid \in Nat
      /\ c.disputed \in Nat /\ c.claimed <= MaxUnits /\ c.state = "Disputed" /\ Live
  BY ReadyCycle DEF Disputed
<1>2. c.approved + c.disputed = c.claimed /\ c.paid = Gross(c.approved)
  BY <1>1 DEF CycleOK
<1>3. Gross(c.approved) \in Nat /\ gross \in Nat /\ Gross(c.approved) <= gross /\ gross <= Gross(MaxUnits)
  <2>1. c.approved + c.disputed <= MaxUnits
    BY <1>1, <1>2
  <2>2. Gross(c.approved) \in Nat /\ award \in Nat /\ gross <= Gross(MaxUnits)
    BY <1>1, <2>1, AwardWithin
  <2> HIDE DEF award
  <2> QED BY <2>2
<1>4. Pay(k, gross, d)
  BY DEF RulingTx
<1> HIDE DEF gross
<1>5. /\ d \in CycleType /\ d.state = "Settled" /\ d.claimed = c.claimed /\ d.approved = c.approved
      /\ d.escalatedAt = c.escalatedAt
  <2>1. 0 \in 0..MaxUnits
    BY Constants
  <2> QED BY <1>1, <2>1 DEF CycleType
<1>6. e.state = "Settled" /\ e.paid = gross
  BY <1>5 DEF CycleType
<1>7. CycleOK(e)
  BY <1>3, <1>6 DEF CycleOK
<1>8. WorkInv' /\ Goes
  <2>1. /\ Live /\ cycles[k].state \in {"Funded", "Disputed"} /\ gross \in Nat /\ d \in CycleType
        /\ Pay(k, gross, d) /\ cycles[k].paid <= gross /\ CycleOK([d EXCEPT !.paid = gross]) /\ d.state # "none"
        /\ d.claimed = cycles[k].claimed /\ d.approved >= cycles[k].approved
        /\ d.escalatedAt = cycles[k].escalatedAt /\ (cycles[k].state = "Disputed" => d.state = "Settled")
    BY <1>1, <1>2, <1>3, <1>4, <1>5, <1>7
  <2> HIDE DEF d
  <2> QED BY <2>1, PayKeeps
<1>9. cycles'[k] = e
  <2>1. cycles \in [Weeks -> CycleType]
    BY Typed DEF WorkInv
  <2>2. cycles' = [cycles EXCEPT ![k] = e]
    <3>1. c.paid \in Nat /\ gross \in Nat /\ c.paid <= gross /\ Pay(k, gross, d)
      BY <1>1, <1>2, <1>3, <1>4
    <3> HIDE DEF d
    <3> QED BY <3>1, PayBooks
  <2> QED BY <2>1, <2>2
<1> QED BY <1>6, <1>8, <1>9

-----------------------------------------------------------------------------
(***************************************************************************)
(* The chain's transactions on the engagement, and time.                   *)
(***************************************************************************)
LEMMA SameGoes ==
    ASSUME WorkInv, cycles' = cycles, engagement'.state = engagement.state
    PROVE  Goes
<1>1. \A k \in Weeks : cycles[k].approved \in Nat /\ cycles[k].paid \in Nat
  BY ReadyCycle
<1> QED BY <1>1 DEF Goes, Forward

\* Funding the next cycle: its price comes in, and the cycle holds it.
LEMMA CycleFunded ==
    ASSUME WorkInv, NEW k \in Weeks, cycles[k] = NoCycle, k = engagement.next, k < engagement.runs,
           cycles' = [cycles EXCEPT ![k].state = "Funded"], now' = now, earned' = earned,
           engagement' \in EngagementType, engagement'.next = k + 1, engagement'.runs = engagement.runs,
           engagement'.state \notin {"None", "Closed"},
           balance' = SumOn(Holdings, Weeks) + Cost
    PROVE  WorkInv' /\ \A j \in Weeks : j # k => cycles'[j] = cycles[j]
<1> DEFINE d == [NoCycle EXCEPT !.state = "Funded"]
<1>1. d \in CycleType /\ d.state = "Funded" /\ d.claimed = 0 /\ d.approved = 0 /\ d.paid = 0
  BY Constants DEF NoCycle, CycleType
<1>2. CycleOK(d)
  <2>1. 0 <= Gross(MaxUnits) /\ Gross(0) = 0
    BY Constants, GrossGrows
  <2> QED BY <1>1, <2>1 DEF CycleOK
<1>3. cycles' = [cycles EXCEPT ![k] = d]
  OBVIOUS
<1>4. HeldFor(d) = Cost /\ Net(d.paid) = 0 /\ Cost \in Nat
  BY <1>1, NothingPaid DEF HeldFor
<1> HIDE DEF d
<1>5. /\ cycles' \in [Weeks -> CycleType] /\ cycles'[k] = d /\ \A j \in Weeks : j # k => cycles'[j] = cycles[j]
      /\ \A j \in Weeks : CycleOK(cycles'[j]) /\ (cycles'[j].claimed > 0 => CycleStart(j) <= now')
      /\ SumOn(Parts, Weeks) \in Nat /\ SumOn(Parts', Weeks) \in Nat
      /\ SumOn(Holdings, Weeks) \in Nat /\ SumOn(Holdings', Weeks) \in Nat
      /\ SumOn(Parts', Weeks) = SumOn(Parts, Weeks) + (Net(d.paid) - Net(cycles[k].paid))
      /\ SumOn(Holdings', Weeks) = SumOn(Holdings, Weeks) + (HeldFor(d) - HeldFor(cycles[k]))
  <2>1. d.claimed > 0 => CycleStart(k) <= now
    BY <1>1
  <2>2. /\ WorkInv /\ k \in Weeks /\ d \in CycleType /\ CycleOK(d) /\ (d.claimed > 0 => CycleStart(k) <= now)
        /\ cycles' = [cycles EXCEPT ![k] = d] /\ now' = now
    BY <1>1, <1>2, <1>3, <2>1
  <2> QED BY ONLY <2>2, OneCycle
<1>6. SumOn(Parts', Weeks) = SumOn(Parts, Weeks) /\ SumOn(Holdings', Weeks) = SumOn(Holdings, Weeks) + Cost
  BY <1>4, <1>5, NoCycleTyped
<1>7. MoneyInv'
  BY <1>6 DEF WorkInv, MoneyInv
<1>8. WorkTypeOK'
  BY <1>4, <1>5 DEF WorkInv, WorkTypeOK, EngagementType
<1>9. CyclesInv'
  <2>1. \A j \in Weeks : j \in Nat /\ (j >= k + 1 => j # k /\ j >= k)
    BY WeeksFinite
  <2>2. engagement'.next <= engagement'.runs
    BY Typed, WeeksFinite DEF WorkInv
  <2> QED BY <1>5, <2>1, <2>2 DEF WorkInv, CyclesInv
<1> QED BY <1>5, <1>7, <1>8, <1>9 DEF WorkInv

LEMMA FundedGoes ==
    ASSUME WorkInv, NEW k \in Weeks, cycles[k] = NoCycle, cycles' = [cycles EXCEPT ![k].state = "Funded"],
           engagement'.state = engagement.state \/ engagement.state = "None"
    PROVE  Goes
<1>1. \A j \in Weeks : cycles[j].approved \in Nat /\ cycles[j].paid \in Nat
  BY ReadyCycle
<1>2. /\ cycles'[k] = [NoCycle EXCEPT !.state = "Funded"] /\ \A j \in Weeks : j # k => cycles'[j] = cycles[j]
  BY Typed DEF WorkInv
<1>3. /\ cycles'[k].approved = 0 /\ cycles'[k].paid = 0 /\ cycles[k].approved = 0 /\ cycles[k].paid = 0
      /\ cycles[k].state = "none" /\ cycles[k].escalatedAt = 0
  BY <1>2 DEF NoCycle
<1> QED BY <1>1, <1>2, <1>3 DEF Goes, Forward

LEMMA OfferKeeps ==
    ASSUME WorkInv, OfferReady, OfferTx
    PROVE  WorkInv' /\ Goes
<1>1. engagement.state = "None" /\ engagement.next = 0 /\ engagement.runs = Periods
  BY DEF OfferReady, WorkInv, CyclesInv
<1>2. 0 \in Weeks /\ 0 < Periods /\ \A k \in Weeks : k \in Nat /\ 0 <= k /\ k < Periods
  BY WeeksFinite, Constants DEF Weeks
<1>3. \A k \in Weeks : cycles[k] = NoCycle
  BY <1>1, <1>2 DEF WorkInv, CyclesInv
<1>4. SumOn(Holdings, Weeks) = 0
  <2>1. \A k \in Weeks : Holdings[k] = 0
    BY <1>3, NoCycleTyped DEF Holdings
  <2> QED BY <2>1, SumZero, WeeksFinite
<1>5. balance = 0
  BY <1>1 DEF WorkInv, MoneyInv
<1>6. /\ engagement' = [state |-> "Offered", next |-> 1, runs |-> Periods] /\ now' = now /\ earned' = earned
      /\ cycles' = [cycles EXCEPT ![0].state = "Funded"] /\ balance' = balance + Cost
  BY DEF OfferTx
<1>7. /\ engagement' \in EngagementType /\ engagement'.next = 0 + 1 /\ engagement'.runs = engagement.runs
      /\ engagement'.state \notin {"None", "Closed"}
  BY <1>1, <1>6, Constants DEF EngagementType
<1>8. balance' = SumOn(Holdings, Weeks) + Cost
  BY <1>4, <1>5, <1>6
<1>9. WorkInv'
  BY <1>1, <1>2, <1>3, <1>6, <1>7, <1>8, CycleFunded
<1>10. Goes
  BY <1>1, <1>2, <1>3, <1>6, FundedGoes
<1> QED BY <1>9, <1>10

LEMMA FundKeeps ==
    ASSUME WorkInv, FundReady, FundTx
    PROVE  WorkInv' /\ Goes
<1> DEFINE k == engagement.next
<1>1. k \in Nat /\ engagement.runs \in Nat /\ engagement.runs <= Periods /\ k < engagement.runs
      /\ engagement \in EngagementType /\ engagement.state \in {"Active", "Ending"}
  BY Typed DEF FundReady, WorkInv, Live
<1>2. k \in Weeks
  BY <1>1, Constants DEF Weeks
<1>3. cycles[k] = NoCycle
  BY <1>1, <1>2 DEF WorkInv, CyclesInv
<1>4. /\ engagement' = [engagement EXCEPT !.next = @ + 1] /\ now' = now /\ earned' = earned
      /\ cycles' = [cycles EXCEPT ![k].state = "Funded"] /\ balance' = balance + Cost
  BY DEF FundTx
<1>5. k + 1 \in 0..Periods
  BY <1>1, Constants
<1>6. /\ engagement' \in EngagementType /\ engagement'.next = k + 1 /\ engagement'.runs = engagement.runs
      /\ engagement'.state = engagement.state
  BY <1>1, <1>4, <1>5 DEF EngagementType
<1>7. balance' = SumOn(Holdings, Weeks) + Cost
  BY <1>1, <1>4 DEF WorkInv, MoneyInv
<1>8. WorkInv'
  <2> HIDE DEF k
  <2>1. k = engagement.next
    BY DEF k
  <2> QED BY <1>1, <1>2, <1>3, <1>4, <1>6, <1>7, <2>1, CycleFunded
<1>9. Goes
  BY <1>2, <1>3, <1>4, <1>6, FundedGoes
<1> QED BY <1>8, <1>9

LEMMA AcceptKeeps ==
    ASSUME WorkInv, AcceptReady, AcceptTx
    PROVE  WorkInv' /\ Goes /\ engagement'.state = "Active"
<1>1. /\ engagement.state = "Offered" /\ engagement' = [engagement EXCEPT !.state = "Active"]
      /\ engagement \in EngagementType
      /\ now' = now /\ cycles' = cycles /\ balance' = balance /\ earned' = earned
  BY Typed DEF AcceptReady, AcceptTx, WorkInv
<1>2. /\ engagement' \in EngagementType /\ engagement'.state = "Active" /\ engagement'.next = engagement.next
      /\ engagement'.runs = engagement.runs
  BY <1>1 DEF EngagementType
<1>3. MoneyInv'
  BY <1>1, <1>2, SameCycles DEF WorkInv, MoneyInv
<1>4. WorkTypeOK' /\ CyclesInv'
  BY <1>1, <1>2 DEF WorkInv, WorkTypeOK, CyclesInv, EngagementType
<1>5. \A k \in Weeks : cycles[k].approved \in Nat /\ cycles[k].paid \in Nat
  BY ReadyCycle
<1> QED BY <1>1, <1>2, <1>3, <1>4, <1>5 DEF WorkInv, Goes, Forward

LEMMA CancelKeeps ==
    ASSUME WorkInv, CancelReady, CancelTx
    PROVE  WorkInv' /\ Goes /\ engagement'.state = "Closed"
<1>1. /\ engagement.state = "Offered" /\ engagement' = [engagement EXCEPT !.state = "Closed"]
      /\ engagement \in EngagementType
      /\ now' = now /\ cycles' = cycles /\ balance' = 0 /\ earned' = earned
  BY Typed DEF CancelReady, CancelTx, WorkInv
<1>2. /\ engagement' \in EngagementType /\ engagement'.state = "Closed" /\ engagement'.next = engagement.next
      /\ engagement'.runs = engagement.runs
  BY <1>1 DEF EngagementType
<1>3. MoneyInv'
  BY <1>1, <1>2, SameCycles DEF WorkInv, MoneyInv
<1>4. WorkTypeOK' /\ CyclesInv'
  BY <1>1, <1>2 DEF WorkInv, WorkTypeOK, CyclesInv, EngagementType
<1>5. \A k \in Weeks : cycles[k].approved \in Nat /\ cycles[k].paid \in Nat
  BY ReadyCycle
<1> QED BY <1>1, <1>2, <1>3, <1>4, <1>5 DEF WorkInv, Goes, Forward

\* Work that closes has no open cycle, and so nothing left in its account.
LEMMA CloseKeeps ==
    ASSUME WorkInv, CloseReady, CloseTx
    PROVE  WorkInv' /\ Goes /\ engagement'.state = "Closed"
<1>1. /\ engagement.state \in {"Active", "Ending"} /\ engagement' = [engagement EXCEPT !.state = "Closed"]
      /\ engagement \in EngagementType /\ Open = {}
      /\ now' = now /\ cycles' = cycles /\ balance' = balance /\ earned' = earned
  BY Typed DEF CloseReady, CloseTx, Live, WorkInv
<1>2. /\ engagement' \in EngagementType /\ engagement'.state = "Closed" /\ engagement'.next = engagement.next
      /\ engagement'.runs = engagement.runs
  BY <1>1 DEF EngagementType
<1>3. balance = 0
  <2>1. \A k \in Weeks : Holdings[k] = 0
    BY <1>1 DEF Open, Holdings, HeldFor
  <2>2. SumOn(Holdings, Weeks) = 0
    BY <2>1, SumZero, WeeksFinite
  <2> QED BY <1>1, <2>2 DEF WorkInv, MoneyInv
<1>4. MoneyInv'
  BY <1>1, <1>2, <1>3, SameCycles DEF WorkInv, MoneyInv
<1>5. WorkTypeOK' /\ CyclesInv'
  BY <1>1, <1>2 DEF WorkInv, WorkTypeOK, CyclesInv, EngagementType
<1>6. \A k \in Weeks : cycles[k].approved \in Nat /\ cycles[k].paid \in Nat
  BY ReadyCycle
<1> QED BY <1>1, <1>2, <1>4, <1>5, <1>6 DEF WorkInv, Goes, Forward

LEMMA EscalateKeeps ==
    ASSUME WorkInv, NEW k \in Weeks, EscalateReady(k), EscalateTx(k)
    PROVE  WorkInv' /\ Goes /\ cycles'[k].escalatedAt # 0
<1> DEFINE c == cycles[k]
           d == [c EXCEPT !.escalatedAt = now]
<1>1. /\ c \in CycleType /\ CycleOK(c) /\ c.claimed \in Nat /\ c.approved \in Nat /\ c.paid \in Nat
      /\ c.disputed \in Nat /\ c.state = "Disputed" /\ (c.claimed > 0 => CycleStart(k) <= now) /\ now \in Nat
  BY ReadyCycle, Typed DEF EscalateReady, Disputed, WorkInv
<1>2. /\ cycles' = [cycles EXCEPT ![k] = d]
      /\ now' = now /\ engagement' = engagement /\ balance' = balance /\ earned' = earned
  BY DEF EscalateTx
<1>3. now # 0
  <2>1. c.claimed > 0
    BY <1>1 DEF CycleOK
  <2>2. k \in Nat /\ k * Cycle \in Nat
    BY WeeksFinite, Constants
  <2> QED BY <1>1, <2>1, <2>2, Constants DEF CycleStart
<1>4. /\ d \in CycleType /\ d.state = c.state /\ d.paid = c.paid /\ d.approved = c.approved /\ d.claimed = c.claimed
      /\ d.disputed = c.disputed /\ d.escalatedAt = now
  BY <1>1 DEF CycleType
<1>5. CycleOK(d)
  BY <1>1, <1>4 DEF CycleOK
<1>6. c = cycles[k]
  OBVIOUS
<1> HIDE DEF c, d
<1>7. /\ cycles' \in [Weeks -> CycleType] /\ cycles'[k] = d /\ \A j \in Weeks : j # k => cycles'[j] = cycles[j]
      /\ \A j \in Weeks : CycleOK(cycles'[j]) /\ (cycles'[j].claimed > 0 => CycleStart(j) <= now')
      /\ SumOn(Parts, Weeks) \in Nat /\ SumOn(Parts', Weeks) \in Nat
      /\ SumOn(Holdings, Weeks) \in Nat /\ SumOn(Holdings', Weeks) \in Nat
      /\ SumOn(Parts', Weeks) = SumOn(Parts, Weeks) + (Net(d.paid) - Net(cycles[k].paid))
      /\ SumOn(Holdings', Weeks) = SumOn(Holdings, Weeks) + (HeldFor(d) - HeldFor(cycles[k]))
  BY <1>1, <1>2, <1>4, <1>5, OneCycle
<1>8. HeldFor(d) = HeldFor(c) /\ HeldFor(c) \in Nat /\ Net(c.paid) \in Nat
  BY <1>1, <1>4, HeldIsNat DEF HeldFor
<1>9. SumOn(Parts', Weeks) = SumOn(Parts, Weeks) /\ SumOn(Holdings', Weeks) = SumOn(Holdings, Weeks)
  BY <1>4, <1>6, <1>7, <1>8
<1>10. MoneyInv'
  BY <1>2, <1>9 DEF WorkInv, MoneyInv
<1>11. WorkTypeOK'
  BY <1>2, <1>7 DEF WorkInv, WorkTypeOK
<1>12. k < engagement.next
  BY <1>1, <1>6, Typed, WeeksFinite DEF WorkInv, CyclesInv
<1>13. CyclesInv'
  BY <1>2, <1>7, <1>12, Typed, WeeksFinite DEF WorkInv, CyclesInv
<1>14. \A j \in Weeks : cycles[j].approved \in Nat /\ cycles[j].paid \in Nat
  BY ReadyCycle
<1>15. Goes
  BY <1>2, <1>3, <1>4, <1>6, <1>7, <1>14 DEF Goes, Forward
<1> QED BY <1>3, <1>4, <1>7, <1>10, <1>11, <1>13, <1>15 DEF WorkInv

LEMMA TimeKeeps ==
    ASSUME WorkInv, workVars' = workVars, now' = now \/ now' = now + 1
    PROVE  WorkInv' /\ Goes
<1>1. cycles' = cycles /\ engagement' = engagement /\ balance' = balance /\ earned' = earned
  BY DEF workVars
<1>2. now' \in Nat /\ now <= now' /\ now \in Nat
  BY Typed DEF WorkInv
<1>3. MoneyInv'
  BY <1>1, SameCycles DEF WorkInv, MoneyInv
<1>4. WorkTypeOK'
  BY <1>1, <1>2 DEF WorkInv, WorkTypeOK
<1>5. \A k \in Weeks : CycleStart(k) \in Nat
  <2>1. \A k \in Weeks : k * Cycle \in Nat
    BY WeeksFinite, Constants
  <2> QED BY <2>1, Constants DEF CycleStart
<1>6. \A k \in Weeks : cycles[k].claimed > 0 => CycleStart(k) <= now'
  BY <1>2, <1>5, ReadyCycle
<1>7. CyclesInv'
  BY <1>1, <1>6 DEF WorkInv, CyclesInv
<1>8. Goes
  BY <1>1, SameGoes
<1> QED BY <1>3, <1>4, <1>7, <1>8 DEF WorkInv

-----------------------------------------------------------------------------
(***************************************************************************)
(* Notice, which gives back in full the cycles beyond the last that runs.  *)
(***************************************************************************)
\* Notice gives back only cycles that have not started, so nothing was billed or paid for them.
LEMMA NotStarted ==
    ASSUME WorkInv, NEW k \in Weeks, k >= Started
    PROVE  CycleStart(k) > now
<1>1. /\ k \in Nat /\ Start \in Nat /\ Cycle \in Nat /\ Cycle > 0 /\ now \in Nat /\ k * Cycle \in Nat
      /\ CycleStart(k) = Start + k * Cycle
  BY WeeksFinite, Constants, Typed DEF CycleStart, WorkInv
<1>2. CASE now < Start
  BY <1>1, <1>2
<1>3. CASE now >= Start
  <2> DEFINE p == now - Start
             q == p \div Cycle
  <2>1. p \in Nat /\ now = Start + p
    BY <1>1, <1>3
  <2> HIDE DEF p
  <2>2. q \in Nat /\ p < Cycle * q + Cycle
    BY <1>1, <2>1, QuotientBounds
  <2>3. k >= q + 1
    BY <1>1, <1>3, <2>1 DEF Started, p
  <2> HIDE DEF q
  <2>4. Cycle * k >= Cycle * q + Cycle
    BY <1>1, <2>2, <2>3, NextMultiple
  <2>5. Cycle * k = k * Cycle /\ Cycle * q \in Nat
    BY <1>1, <2>2
  <2> QED BY <1>1, <2>1, <2>2, <2>4, <2>5
<1> QED BY <1>1, <1>2, <1>3

LEMMA NoticeKeeps ==
    ASSUME WorkInv, NoticeReady, NoticeTx
    PROVE  WorkInv' /\ Goes /\ engagement'.state = "Ending"
<1> DEFINE runs == RunsAfterNotice
           B == {k \in Open : k >= runs}
<1>1. /\ engagement.state = "Active" /\ engagement \in EngagementType /\ engagement.next \in Nat
      /\ engagement.runs \in Nat /\ engagement.runs <= Periods /\ now \in Nat /\ balance \in Nat
      /\ engagement.next <= engagement.runs /\ cycles \in [Weeks -> CycleType]
  BY Typed DEF NoticeReady, WorkInv, CyclesInv
<1>2. Started \in Nat /\ NoticeCycles \in Nat
  <2>1. now >= Start => now - Start \in Nat
    BY <1>1, Constants
  <2>2. now >= Start => (now - Start) \div Cycle \in Nat
    BY <2>1, Constants, QuotientBounds
  <2> QED BY <1>1, <2>2, Constants DEF Started
<1>3. runs \in Nat /\ runs <= engagement.runs /\ (runs < engagement.runs => runs = Started + NoticeCycles)
  BY <1>1, <1>2 DEF RunsAfterNotice
<1>4. /\ engagement' = [state |-> "Ending", runs |-> runs,
                        next |-> IF engagement.next < runs THEN engagement.next ELSE runs]
      /\ cycles' = [k \in Weeks |-> IF k \in B THEN [cycles[k] EXCEPT !.state = "Settled"] ELSE cycles[k]]
      /\ balance' = balance - Cost * Cardinality(B)
      /\ now' = now /\ earned' = earned
  BY DEF NoticeTx
<1> HIDE DEF runs
<1>5. \A k \in B : /\ k \in Weeks /\ cycles[k].paid = 0 /\ cycles[k].state \in {"Funded", "Disputed"}
  <2> SUFFICES ASSUME NEW k \in B
               PROVE  k \in Weeks /\ cycles[k].paid = 0 /\ cycles[k].state \in {"Funded", "Disputed"}
    OBVIOUS
  <2>1. k \in Weeks /\ cycles[k].state \in {"Funded", "Disputed"} /\ k >= runs
    BY DEF Open
  <2>2. k \in Nat /\ k < engagement.next
    BY <1>1, <2>1, WeeksFinite DEF WorkInv, CyclesInv
  <2>3. runs = Started + NoticeCycles
    BY <1>1, <1>3, <2>1, <2>2
  <2>4. k >= Started
    BY <1>2, <2>1, <2>2, <2>3
  <2>5. CycleStart(k) > now
    BY <2>1, <2>4, NotStarted
  <2>6. CycleStart(k) \in Nat
    <3>1. k * Cycle \in Nat
      BY <2>2, Constants
    <3> QED BY <3>1, Constants DEF CycleStart
  <2>7. cycles[k].claimed = 0
    BY <1>1, <2>1, <2>5, <2>6, ReadyCycle
  <2>8. cycles[k].state = "Funded" /\ cycles[k].approved = 0 /\ cycles[k].paid = Gross(0)
    BY <2>1, <2>7, ReadyCycle DEF CycleOK
  <2> QED BY <2>1, <2>8, NothingPaid
<1>6. B \in SUBSET Weeks
  BY <1>5
<1> HIDE DEF B
<1>7. \A k \in Weeks : /\ cycles'[k] \in CycleType
                       /\ k \notin B => cycles'[k] = cycles[k]
                       /\ k \in B => /\ cycles'[k].state = "Settled" /\ cycles'[k].paid = 0
                                     /\ cycles'[k].approved = cycles[k].approved
                                     /\ cycles'[k].escalatedAt = cycles[k].escalatedAt
                                     /\ cycles'[k].claimed = cycles[k].claimed
  BY <1>1, <1>4, <1>5 DEF CycleType
<1>8. \A k \in Weeks : CycleOK(cycles'[k]) /\ (cycles'[k].claimed > 0 => CycleStart(k) <= now')
  <2>1. 0 <= Gross(MaxUnits)
    BY Constants, GrossGrows
  <2>2. \A k \in B : CycleOK(cycles'[k])
    BY <1>6, <1>7, <2>1 DEF CycleOK
  <2> QED BY <1>4, <1>7, <2>2, ReadyCycle
<1>9. SumOn(Parts', Weeks) = SumOn(Parts, Weeks)
  <2>1. \A k \in Weeks : Parts'[k] = Parts[k]
    BY <1>5, <1>7 DEF Parts
  <2> QED BY <2>1, WeeksFinite, SumCongruence
<1>10. SumOn(Holdings, Weeks) = SumOn(Holdings', Weeks) + Cost * Cardinality(B)
  <2>1. Cost \in Nat /\ HalfFee(0) = 0
    BY NothingPaid
  <2>2. \A k \in Weeks : Holdings[k] \in Nat /\ Holdings'[k] \in Nat
    BY <1>7, <1>8, HeldIsNat, ReadyCycle DEF Holdings
  <2>3. \A k \in Weeks : IF k \in B THEN Holdings[k] = Holdings'[k] + Cost ELSE Holdings[k] = Holdings'[k]
    <3>1. \A k \in B : Holdings[k] = Cost - 0 - HalfFee(0) /\ Holdings'[k] = 0
      BY <1>5, <1>6, <1>7 DEF Holdings, HeldFor
    <3>2. \A k \in Weeks : k \notin B => Holdings[k] = Holdings'[k]
      BY <1>7 DEF Holdings
    <3> QED BY <2>1, <3>1, <3>2
  <2>4. \A k \in Weeks : Holdings[k] \in Int /\ Holdings'[k] \in Int
    BY <2>2
  <2>5. IsFiniteSet(Weeks) /\ Cost \in Int
    BY <2>1, WeeksFinite
  <2> DEFINE f == Holdings
             g == Holdings'
  <2>6. /\ \A k \in Weeks : f[k] \in Int /\ g[k] \in Int
        /\ \A k \in Weeks : IF k \in B THEN f[k] = g[k] + Cost ELSE f[k] = g[k]
    BY <2>3, <2>4
  <2>7. SumOn(f, Weeks) = SumOn(g, Weeks) + Cost * Cardinality(B)
    <3> HIDE DEF f, g
    <3> QED BY <1>6, <2>5, <2>6, SumDrop
  <2> QED BY <2>7
<1>11. SumOn(Holdings', Weeks) \in Nat
  <2>1. \A k \in Weeks : Holdings'[k] \in Nat
    BY <1>7, <1>8, HeldIsNat DEF Holdings
  <2> QED BY <2>1, WeeksFinite, SumNat
<1>12. balance' = SumOn(Holdings', Weeks)
  <2>1. balance = SumOn(Holdings, Weeks)
    BY <1>1 DEF WorkInv, MoneyInv
  <2>2. Cost \in Nat /\ Cardinality(B) \in Nat
    BY <1>6, NothingPaid, WeeksFinite, FS_Subset, FS_CardinalityType
  <2>3. Cost * Cardinality(B) \in Nat
    BY <2>2
  <2> QED BY <1>4, <1>10, <1>11, <2>1, <2>3
<1>13. earned' = SumOn(Parts', Weeks) /\ earned' \in Nat
  BY <1>4, <1>9, Typed DEF WorkInv, MoneyInv
<1>14. /\ engagement'.state = "Ending" /\ engagement'.runs = runs
       /\ engagement'.next = (IF engagement.next < runs THEN engagement.next ELSE runs)
       /\ engagement' \in EngagementType
  BY <1>1, <1>3, <1>4, Constants DEF EngagementType
<1>15. MoneyInv'
  BY <1>12, <1>13, <1>14 DEF MoneyInv
<1>16. WorkTypeOK'
  <2>1. cycles' \in [Weeks -> CycleType]
    BY <1>4, <1>7
  <2> QED BY <1>1, <1>4, <1>11, <1>12, <1>13, <1>14, <2>1 DEF WorkTypeOK, EngagementType
<1>17. CyclesInv'
  <2>1. \A k \in Weeks : k >= engagement'.next => cycles'[k].state \notin {"Funded", "Disputed"}
    <3> SUFFICES ASSUME NEW k \in Weeks, k >= engagement'.next, cycles'[k].state \in {"Funded", "Disputed"}
                 PROVE  FALSE
      OBVIOUS
    <3>1. k \notin B /\ cycles[k].state \in {"Funded", "Disputed"} /\ k \in Nat
      BY <1>7, WeeksFinite
    <3>2. k \in Open /\ ~(k >= runs)
      BY <3>1 DEF Open, B
    <3>3. k < engagement.next
      BY <1>1, <3>1 DEF WorkInv, CyclesInv
    <3> QED BY <1>1, <1>3, <1>14, <3>1, <3>2, <3>3
  <2>2. engagement'.next <= engagement'.runs
    BY <1>1, <1>3, <1>14
  <2>3. \A k \in Weeks : engagement'.next <= k /\ k < engagement'.runs => cycles'[k] = NoCycle
    <3> SUFFICES ASSUME NEW k \in Weeks, engagement'.next <= k, k < engagement'.runs
                 PROVE  cycles'[k] = NoCycle
      OBVIOUS
    <3>1. k \in Nat /\ engagement.next <= k /\ k < engagement.runs
      BY <1>1, <1>3, <1>14, WeeksFinite
    <3>2. cycles[k] = NoCycle
      BY <3>1 DEF WorkInv, CyclesInv
    <3>3. k \notin B
      BY <1>5, <3>2 DEF NoCycle
    <3> QED BY <1>7, <3>2, <3>3
  <2>4. engagement'.state # "None"
    BY <1>14
  <2> QED BY <1>8, <2>1, <2>2, <2>3, <2>4 DEF CyclesInv
<1>18. Goes
  <2>1. \A k \in Weeks : cycles[k].approved \in Nat /\ cycles[k].paid \in Nat
    BY ReadyCycle
  <2>2. \A k \in B : cycles'[k].paid = cycles[k].paid
    BY <1>5, <1>6, <1>7
  <2> QED BY <1>1, <1>5, <1>7, <1>14, <2>1, <2>2 DEF Goes, Forward
<1> QED BY <1>14, <1>15, <1>16, <1>17, <1>18 DEF WorkInv

LEMMA WorkStarts ==
    ASSUME WorkInit
    PROVE  WorkInv
<1>1. /\ now = 0 /\ engagement = [state |-> "None", next |-> 0, runs |-> Periods]
      /\ cycles = [k \in Weeks |-> NoCycle] /\ balance = 0 /\ earned = 0
  BY DEF WorkInit
<1>2. \A k \in Weeks : /\ cycles[k] = NoCycle /\ cycles[k] \in CycleType /\ CycleOK(cycles[k])
                       /\ Parts[k] = 0
  BY <1>1, NoCycleTyped DEF Parts
<1>3. SumOn(Parts, Weeks) = 0
  BY <1>2, WeeksFinite, SumZero
<1>4. WorkTypeOK
  BY <1>1, <1>2, Constants DEF WorkTypeOK
<1>5. CyclesInv
  <2>1. NoCycle.claimed = 0 /\ NoCycle.state = "none"
    BY DEF NoCycle
  <2> QED BY <1>1, <1>2, <2>1, Constants DEF CyclesInv
<1> QED BY <1>1, <1>3, <1>4, <1>5 DEF WorkInv, MoneyInv

-----------------------------------------------------------------------------
(***************************************************************************)
(* The row and the calls.                                                  *)
(***************************************************************************)
HoldOps == {"offer", "accept", "cancel"}
WorkOps == {"log", "approve", "object", "fund", "notice", "run", "settle", "escalate", "fallback", "close"}
OwnWeekOps == {"log", "approve", "object", "settle", "escalate", "fallback"}
Accepted == {"active", "ending", "closed"}

RowType == [status : Statuses, weeks : Seq(WeekRows), runs : 0..Periods]
CallType == [op : {"none"} \cup HoldOps \cup WorkOps, pc : {"none", "mark", "send", "write", "next"},
             e : RowType, at : Nat, k : 0..Periods, n : 0..MaxUnits]

RowOK(e) == e \in RowType /\ Len(e.weeks) <= Periods

\* A call, and what it checked before it began to wait.
CallOK(c) ==
    /\ c \in CallType /\ RowOK(c.e)
    /\ c.pc = "none" => c = Idle
    /\ c.op = "none" => c.pc = "none"
    /\ c.pc = "mark" => c.op \in {"accept", "cancel"}
    /\ c.op = "cancel" => c.e.status \in {"offered", "declined"}
    /\ c.pc = "next" <=> c.op = "run"
    /\ c.op \in OwnWeekOps => HasWeek(c.e, c.k)
    /\ c.op = "log" => Week(c.e, c.k).logged + c.n <= MaxUnits
    /\ c.op = "object" => c.n <= Week(c.e, c.k).logged - Week(c.e, c.k).approved
    /\ c.op = "fund" => Len(c.e.weeks) < Periods

\* What a week, and a row, may say of work in state st with cycles cs.
WeekTrue(w, k, st, cs) ==
    /\ w.status = "settled" => cs[k].state = "Settled" \/ st = "Closed"
    /\ w.status = "objected" => cs[k].state \in {"Disputed", "Settled"}
    /\ w.escalatedAt # 0 => cs[k].escalatedAt # 0
RowTrue(e, st, cs) ==
    /\ e.status \in {"closed", "cancelled"} => st = "Closed"
    /\ e.status \in {"active", "ending"} => st \in {"Active", "Ending", "Closed"}
    /\ e.status = "ending" => st \in {"Ending", "Closed"}
    /\ \A k \in Weeks : HasWeek(e, k) => WeekTrue(Week(e, k), k, st, cs)

\* What a call that is about to write has brought about.
WroteFor(c, st, cs) ==
    /\ c.op = "accept" => st \in {"Active", "Ending", "Closed"}
    /\ c.op \in {"cancel", "close"} => st = "Closed"
    /\ c.op = "notice" => st \in {"Ending", "Closed"}
    /\ c.op = "object" => cs[c.k].state \in {"Disputed", "Settled"}
    /\ c.op \in {"settle", "fallback"} => cs[c.k].state = "Settled"
    /\ c.op = "escalate" => cs[c.k].escalatedAt # 0
CallTrue(c, st, cs) == RowTrue(c.e, st, cs) /\ (c.pc = "write" => WroteFor(c, st, cs))

\* A call that took the offer and has not answered it yet.
Holds(c) == c.op \in HoldOps /\ c.pc \in {"send", "write"}

TypesInv == RowOK(row) /\ call \in [Actors -> CallType] /\ (\A w \in Actors : CallOK(call[w])) /\ faults \in 0..MaxFaults
TruthInv ==
    /\ RowTrue(row, engagement.state, cycles)
    /\ \A w \in Actors : CallTrue(call[w], engagement.state, cycles)
HoldInv ==
    /\ \A w \in Actors : Holds(call[w]) => row.status = "offering"
    /\ \A v, w \in Actors : Holds(call[v]) /\ Holds(call[w]) => v = w
    /\ \A w \in Actors : call[w].op \in WorkOps => row.status \in Accepted
    /\ row.status \notin Accepted =>
           \A k \in Weeks : HasWeek(row, k) => Week(row, k).status # "logged"

EngInv == WorkInv /\ TypesInv /\ TruthInv /\ HoldInv

-----------------------------------------------------------------------------
LEMMA EngConstants ==
    /\ Runner \in Actors /\ Callers \subseteq Actors /\ MaxFaults \in Nat /\ Ops \subseteq AllOps /\ Billed \subseteq Weeks
BY EngagementsAssumption DEF Actors

LEMMA WeeksAre == \A k \in Nat : k \in Weeks <=> k < Periods
BY Constants DEF Weeks

LEMMA IdleOK == CallOK(Idle) /\ Idle.op = "none" /\ Idle.pc = "none" /\ ~Holds(Idle)
                /\ \A st, cs : CallTrue(Idle, st, cs)
<1>1. NoRow \in RowType /\ NoRow.weeks = <<>> /\ NoRow.status = "none"
  BY Constants DEF NoRow, RowType, Statuses
<1>2. Idle \in CallType /\ Idle.e = NoRow /\ Idle.op = "none" /\ Idle.pc = "none"
  BY <1>1, Constants DEF Idle, CallType
<1>3. Len(NoRow.weeks) = 0
  BY <1>1
<1>4. \A k \in Weeks : ~HasWeek(NoRow, k)
  BY <1>3, WeeksFinite DEF HasWeek
<1>5. \A st, cs : CallTrue(Idle, st, cs)
  BY <1>1, <1>2, <1>4 DEF CallTrue, RowTrue
<1>6. CallOK(Idle)
  BY <1>1, <1>2, <1>3, Constants DEF CallOK, RowOK, OwnWeekOps
<1> QED BY <1>2, <1>5, <1>6 DEF Holds, HoldOps

\* What was true of the chain stays true as it moves on.
LEMMA RowStays ==
    ASSUME NEW e, NEW st, NEW cs, NEW st2, NEW cs2, RowTrue(e, st, cs), Forward(st, cs, st2, cs2)
    PROVE  RowTrue(e, st2, cs2)
BY DEF RowTrue, WeekTrue, Forward

LEMMA CallStays ==
    ASSUME NEW c, NEW st, NEW cs, NEW st2, NEW cs2, CallOK(c), CallTrue(c, st, cs), Forward(st, cs, st2, cs2)
    PROVE  CallTrue(c, st2, cs2)
<1>1. c.op \in OwnWeekOps => c.k \in Weeks
  <2>1. c.k \in Nat
    BY Constants DEF CallOK, CallType
  <2>2. c.op \in OwnWeekOps => c.k < Periods
    <3>1. Len(c.e.weeks) \in Nat /\ Len(c.e.weeks) <= Periods
      BY DEF CallOK, RowOK, RowType
    <3> QED BY <2>1, <3>1, Constants DEF CallOK, HasWeek
  <2> QED BY <2>1, <2>2, WeeksAre
<1>2. RowTrue(c.e, st2, cs2)
  BY RowStays DEF CallTrue
<1>3. c.pc = "write" => WroteFor(c, st2, cs2)
  BY <1>1 DEF CallTrue, WroteFor, Forward, OwnWeekOps
<1> QED BY <1>2, <1>3 DEF CallTrue

\* How the row's status moves in a step of call w: none that another call relies on is touched.
StatusMoves(w) ==
    \/ row'.status = row.status
    \/ Holds(call[w])
    \/ row.status \in Accepted /\ row'.status \in Accepted
    \/ row.status \in {"none", "offered", "declined"}

\* A step of one call keeps the invariant.
LEMMA OneCall ==
    ASSUME EngInv, WorkInv', Goes, NEW w \in Actors, NEW c, call' = [call EXCEPT ![w] = c], CallOK(c),
           CallTrue(c, engagement'.state, cycles'), RowOK(row'), RowTrue(row', engagement'.state, cycles'),
           faults' \in 0..MaxFaults, StatusMoves(w),
           Holds(c) => row'.status = "offering" /\ (Holds(call[w]) \/ row.status # "offering"),
           c.op \in WorkOps => row'.status \in Accepted,
           row'.status \notin Accepted =>
               \A k \in Weeks : HasWeek(row', k) => Week(row', k).status # "logged"
    PROVE  EngInv'
<1>1. /\ call \in [Actors -> CallType] /\ \A v \in Actors : CallOK(call[v])
      /\ RowTrue(row, engagement.state, cycles)
      /\ \A v \in Actors : CallTrue(call[v], engagement.state, cycles)
  BY DEF EngInv, TypesInv, TruthInv
<1>2. c \in CallType
  BY DEF CallOK
<1>3. call' \in [Actors -> CallType] /\ call'[w] = c /\ \A v \in Actors : v # w => call'[v] = call[v]
  BY <1>1, <1>2
<1>4. TypesInv'
  <2>1. \A v \in Actors : CallOK(call'[v])
    BY <1>1, <1>3
  <2> QED BY <1>3, <2>1 DEF TypesInv
<1>5. TruthInv'
  <2>1. \A v \in Actors : CallTrue(call'[v], engagement'.state, cycles')
    BY <1>1, <1>3, CallStays DEF Goes
  <2> QED BY <2>1 DEF TruthInv
<1>6. /\ \A v \in Actors : Holds(call[v]) => row.status = "offering"
      /\ \A u, v \in Actors : Holds(call[u]) /\ Holds(call[v]) => u = v
      /\ \A v \in Actors : call[v].op \in WorkOps => row.status \in Accepted
  BY DEF EngInv, HoldInv
<1>7. \A v \in Actors : v # w /\ Holds(call[v]) => row'.status = "offering" /\ ~Holds(c)
  BY <1>6 DEF StatusMoves, Accepted
<1>8. \A v \in Actors : v # w /\ call[v].op \in WorkOps => row'.status \in Accepted
  BY <1>6 DEF StatusMoves, Accepted
<1>9. HoldInv'
  BY <1>3, <1>6, <1>7, <1>8 DEF HoldInv
<1> QED BY <1>4, <1>5, <1>9 DEF EngInv

-----------------------------------------------------------------------------
(***************************************************************************)
(* What a step of one call leaves of all the others.                       *)
(***************************************************************************)
LEMMA CallFacts ==
    ASSUME EngInv, NEW w \in Actors
    PROVE  /\ CallOK(call[w]) /\ call[w] \in CallType /\ RowOK(call[w].e) /\ call[w].k \in Nat /\ call[w].n \in Nat
           /\ CallTrue(call[w], engagement.state, cycles) /\ RowTrue(call[w].e, engagement.state, cycles)
           /\ Holds(call[w]) => row.status = "offering"
           /\ call[w].op \in WorkOps => row.status \in Accepted
<1>1. CallOK(call[w]) /\ CallTrue(call[w], engagement.state, cycles)
  BY DEF EngInv, TypesInv, TruthInv
<1>2. call[w] \in CallType /\ call[w].k \in 0..Periods /\ call[w].n \in 0..MaxUnits
  BY <1>1 DEF CallOK, CallType
<1> QED BY <1>1, <1>2, Constants DEF CallOK, CallTrue, EngInv, HoldInv

LEMMA RowFacts ==
    ASSUME EngInv
    PROVE  /\ RowOK(row) /\ row \in RowType /\ row.status \in Statuses /\ row.weeks \in Seq(WeekRows)
           /\ Len(row.weeks) \in Nat /\ Len(row.weeks) <= Periods /\ row.runs \in 0..Periods
           /\ RowTrue(row, engagement.state, cycles) /\ call \in [Actors -> CallType] /\ faults \in 0..MaxFaults
           /\ row.status \notin Accepted => \A k \in Weeks : HasWeek(row, k) => Week(row, k).status # "logged"
BY DEF EngInv, TypesInv, TruthInv, HoldInv, RowOK, RowType

\* A call that starts anew from the row, or ends, keeps everything.
LEMMA CallMoves ==
    ASSUME EngInv, WorkInv', Goes, NEW w \in Actors, NEW c, call' = [call EXCEPT ![w] = c], CallOK(c),
           c.e \in {row, call[w].e}, c.pc # "write", row' = row, faults' \in 0..MaxFaults,
           Holds(c) => Holds(call[w]), c.op \in WorkOps => row.status \in Accepted
    PROVE  EngInv'
<1>1. RowTrue(c.e, engagement.state, cycles)
  BY CallFacts, RowFacts
<1>2. RowTrue(c.e, engagement'.state, cycles') /\ RowTrue(row', engagement'.state, cycles')
  BY <1>1, RowFacts, RowStays DEF Goes
<1>3. CallTrue(c, engagement'.state, cycles')
  BY <1>2 DEF CallTrue
<1>4. Holds(c) => row'.status = "offering"
  BY CallFacts
<1>5. StatusMoves(w)
  BY DEF StatusMoves
<1> QED BY <1>2, <1>3, <1>4, <1>5, RowFacts, OneCall

LEMMA ReturnKeeps ==
    ASSUME EngInv, WorkInv', Goes, NEW w \in Actors, Return(w), row' = row, faults' \in 0..MaxFaults
    PROVE  EngInv'
<1>1. call' = [call EXCEPT ![w] = Idle]
  BY DEF Return, Move
<1>2. RowTrue(Idle.e, engagement'.state, cycles') /\ CallTrue(Idle, engagement'.state, cycles')
  BY IdleOK DEF CallTrue
<1>3. RowTrue(row', engagement'.state, cycles')
  BY RowFacts, RowStays DEF Goes
<1>4. StatusMoves(w)
  BY DEF StatusMoves
<1>5. Idle.op \notin WorkOps
  BY IdleOK DEF WorkOps
<1> QED BY <1>1, <1>2, <1>3, <1>4, <1>5, IdleOK, RowFacts, OneCall

\* The row alone, or nothing of the two, changes.
LEMMA RowAlone ==
    ASSUME EngInv, WorkInv', Goes, call' = call, faults' \in 0..MaxFaults,
           RowOK(row'), RowTrue(row', engagement'.state, cycles'),
           row' = row \/ (row.status = "offered" /\ row'.status = "declined" /\ row'.weeks = row.weeks)
    PROVE  EngInv'
<1>1. Runner \in Actors
  BY EngConstants
<1>2. call' = [call EXCEPT ![Runner] = call[Runner]]
  BY <1>1, RowFacts
<1>3. CallTrue(call[Runner], engagement'.state, cycles')
  BY <1>1, CallFacts, CallStays DEF Goes
<1>4. StatusMoves(Runner)
  BY DEF StatusMoves
<1>5. row'.status \notin Accepted => \A k \in Weeks : HasWeek(row', k) => Week(row', k).status # "logged"
  BY RowFacts DEF HasWeek, Week, Accepted
<1>6. Holds(call[Runner]) => row'.status = "offering" /\ (Holds(call[Runner]) \/ row.status # "offering")
  BY <1>1, CallFacts
<1>7. call[Runner].op \in WorkOps => row'.status \in Accepted
  BY <1>1, CallFacts DEF Accepted
<1> QED BY <1>1, <1>2, <1>3, <1>4, <1>5, <1>6, <1>7, CallFacts, OneCall

LEMMA DeclineKeeps ==
    ASSUME EngInv, WorkInv', Goes, Decline
    PROVE  EngInv'
<1>1. row.status = "offered" /\ row' = [row EXCEPT !.status = "declined"] /\ call' = call /\ faults' = faults
  BY DEF Decline
<1>2. row'.status = "declined" /\ row'.weeks = row.weeks /\ row' \in RowType
  BY <1>1, RowFacts DEF RowType, Statuses
<1>3. RowOK(row')
  BY <1>2, RowFacts DEF RowOK
<1>4. RowTrue(row', engagement.state, cycles)
  BY <1>1, <1>2, RowFacts DEF RowTrue, HasWeek, Week
<1>5. RowTrue(row', engagement'.state, cycles')
  BY <1>4, RowStays DEF Goes
<1> QED BY <1>1, <1>2, <1>3, <1>5, RowFacts, RowAlone

-----------------------------------------------------------------------------
(***************************************************************************)
(* Calls that begin.                                                       *)
(***************************************************************************)
LEMMA SomeWeek ==
    ASSUME NEW e, RowOK(e), NEW k \in Nat, HasWeek(e, k)
    PROVE  /\ k \in Weeks /\ k \in 0..Periods /\ Week(e, k) \in WeekRows
           /\ Week(e, k).logged \in Nat /\ Week(e, k).logged <= MaxUnits
           /\ Week(e, k).approved \in Nat /\ Week(e, k).approved <= MaxUnits
<1>1. e.weeks \in Seq(WeekRows) /\ Len(e.weeks) \in Nat /\ Len(e.weeks) <= Periods /\ k < Len(e.weeks)
  BY DEF RowOK, RowType, HasWeek
<1>2. k \in Weeks /\ k \in 0..Periods
  BY <1>1, WeeksAre, Constants
<1>3. k + 1 \in 1..Len(e.weeks)
  BY <1>1
<1>4. Week(e, k) \in WeekRows
  BY <1>1, <1>3 DEF Week
<1>5. Week(e, k).logged \in 0..MaxUnits /\ Week(e, k).approved \in 0..MaxUnits
  BY <1>4 DEF WeekRows
<1> QED BY <1>2, <1>4, <1>5, Constants

LEMMA BeginKeeps ==
    ASSUME EngInv, NEW w \in Actors, NEW op \in HoldOps \cup WorkOps, NEW k \in 0..Periods, NEW n \in 0..MaxUnits,
           Begin(w, op, k, n), WorkInv', Goes,
           op \in {"accept", "cancel"} => row.status \in {"offered", "declined"},
           op # "offer" /\ op # "run",
           op \in OwnWeekOps => HasWeek(row, k),
           op = "log" => Week(row, k).logged + n <= MaxUnits,
           op = "object" => n <= Week(row, k).logged - Week(row, k).approved,
           op = "fund" => Len(row.weeks) < Periods,
           op \in WorkOps => row.status \in Accepted
    PROVE  EngInv'
<1> DEFINE c == [op |-> op, pc |-> IF op \in {"accept", "cancel"} THEN "mark" ELSE "send",
                 e |-> row, at |-> now, k |-> k, n |-> n]
<1>1. /\ call' = [call EXCEPT ![w] = c] /\ row' = row /\ faults' = faults
  BY DEF Begin, Move
<1>2. now \in Nat
  BY Typed DEF EngInv, WorkInv
<1>3. /\ c.op = op /\ c.e = row /\ c.k = k /\ c.n = n /\ c.pc \in {"mark", "send"}
      /\ (c.pc = "mark" <=> op \in {"accept", "cancel"})
      /\ c \in CallType
  BY <1>2, RowFacts DEF CallType
<1> HIDE DEF c
<1>4. CallOK(c)
  BY <1>3, RowFacts DEF CallOK, HoldOps, WorkOps, OwnWeekOps
<1>5. ~Holds(c)
  BY <1>3 DEF Holds, HoldOps, WorkOps
<1> QED BY <1>1, <1>3, <1>4, <1>5, RowFacts, CallMoves

\* A logged week that is not reviewed yet belongs to work that was accepted.
LEMMA ReviewedWorks ==
    ASSUME EngInv, NEW k \in Weeks, Unreviewed(row, k)
    PROVE  row.status \in Accepted
BY RowFacts DEF Unreviewed

LEMMA OpKinds ==
    /\ {"accept", "cancel", "offer"} \subseteq HoldOps
    /\ {"log", "approve", "object", "fund", "notice", "run", "settle", "escalate", "fallback", "close"} \subseteq WorkOps
    /\ \A op \in WorkOps : op \notin HoldOps /\ op \notin {"accept", "cancel", "offer"}
    /\ \A op \in HoldOps : op \notin WorkOps /\ op \notin OwnWeekOps /\ op \notin {"log", "object", "fund", "run"}
BY DEF HoldOps, WorkOps, OwnWeekOps

LEMMA BeginsKeep ==
    ASSUME EngInv, NEW w \in Actors, WorkInv', Goes,
           \/ BeginAccept(w) \/ BeginCancel(w) \/ BeginFund(w) \/ BeginNotice(w)
           \/ \E k \in Weeks : \/ BeginApprove(w, k)
                               \/ \E n \in 1..MaxUnits : BeginLog(w, k, n) \/ BeginObject(w, k, n)
    PROVE  EngInv'
<1>1. 0 \in 0..Periods /\ 0 \in 0..MaxUnits /\ \A n \in 1..MaxUnits : n \in 0..MaxUnits
  BY Constants
<1>2. \A k \in Weeks : k \in Nat /\ k \in 0..Periods
  BY WeeksFinite, WeeksAre, Constants
<1>3. CASE BeginAccept(w)
  BY <1>1, <1>3, OpKinds, BeginKeeps DEF BeginAccept
<1>4. CASE BeginCancel(w)
  BY <1>1, <1>4, OpKinds, BeginKeeps DEF BeginCancel
<1>5. CASE BeginNotice(w)
  <2>1. "notice" \in WorkOps /\ "notice" \notin OwnWeekOps /\ row.status \in Accepted
    BY <1>5 DEF BeginNotice, WorkOps, OwnWeekOps, Accepted
  <2> QED BY <1>1, <1>5, <2>1, BeginKeeps DEF BeginNotice
<1>6. CASE BeginFund(w)
  <2>1. /\ "fund" \in WorkOps /\ "fund" \notin OwnWeekOps /\ row.status \in Accepted
        /\ Len(row.weeks) < row.runs
    BY <1>6 DEF BeginFund, MayFund, Working, WorkOps, OwnWeekOps, Accepted
  <2>2. Len(row.weeks) \in 0..Periods /\ Len(row.weeks) < Periods
    BY <2>1, RowFacts, Constants
  <2> QED BY <1>1, <1>6, <2>1, <2>2, BeginKeeps DEF BeginFund
<1>7. CASE \E k \in Weeks : BeginApprove(w, k)
  <2>1. PICK k \in Weeks : BeginApprove(w, k)
    BY <1>7
  <2>2. /\ Unreviewed(row, k) /\ HasWeek(row, k) /\ row.status \in Accepted /\ "approve" \in WorkOps
    BY <2>1, ReviewedWorks DEF BeginApprove, Unreviewed, WorkOps
  <2> QED BY <1>1, <1>2, <2>1, <2>2, BeginKeeps DEF BeginApprove
<1>8. CASE \E k \in Weeks : \E n \in 1..MaxUnits : BeginLog(w, k, n)
  <2>1. PICK k \in Weeks, n \in 1..MaxUnits : BeginLog(w, k, n)
    BY <1>8
  <2>2. /\ HasWeek(row, k) /\ Week(row, k).logged + n <= MaxUnits /\ row.status \in Accepted /\ "log" \in WorkOps
    BY <2>1 DEF BeginLog, MayLog, Working, WorkOps, Accepted
  <2> QED BY <1>1, <1>2, <2>1, <2>2, BeginKeeps DEF BeginLog
<1>9. CASE \E k \in Weeks : \E n \in 1..MaxUnits : BeginObject(w, k, n)
  <2>1. PICK k \in Weeks, n \in 1..MaxUnits : BeginObject(w, k, n)
    BY <1>9
  <2>2. /\ HasWeek(row, k) /\ n <= Week(row, k).logged - Week(row, k).approved /\ row.status \in Accepted
        /\ "object" \in WorkOps
    BY <2>1, ReviewedWorks DEF BeginObject, MayObject, Unreviewed, WorkOps
  <2> QED BY <1>1, <1>2, <2>1, <2>2, BeginKeeps DEF BeginObject
<1> QED BY <1>3, <1>4, <1>5, <1>6, <1>7, <1>8, <1>9

LEMMA OfferKept ==
    ASSUME EngInv, NEW w \in Actors, WorkInv', Goes, Offer(w)
    PROVE  EngInv'
<1> DEFINE c == [Idle EXCEPT !.op = "offer", !.pc = "send", !.e = row', !.at = now]
<1>1. /\ row.status = "none" /\ row' = [row EXCEPT !.status = "offering"] /\ call' = [call EXCEPT ![w] = c]
      /\ faults' = faults
  BY DEF Offer, Move
<1>2. row'.status = "offering" /\ row'.weeks = row.weeks /\ row' \in RowType
  BY <1>1, RowFacts DEF RowType, Statuses
<1>3. RowOK(row')
  BY <1>2, RowFacts DEF RowOK
<1>4. RowTrue(row', engagement.state, cycles)
  BY <1>2, RowFacts DEF RowTrue, HasWeek, Week
<1>5. RowTrue(row', engagement'.state, cycles')
  BY <1>4, RowStays DEF Goes
<1>6. now \in Nat
  BY Typed DEF EngInv, WorkInv
<1>7. c.op = "offer" /\ c.pc = "send" /\ c.e = row' /\ c \in CallType
  BY <1>2, <1>6, IdleOK DEF CallType, CallOK, HoldOps, Idle
<1> HIDE DEF c
<1>8. CallOK(c)
  BY <1>3, <1>7 DEF CallOK, OwnWeekOps
<1>9. CallTrue(c, engagement'.state, cycles')
  BY <1>5, <1>7 DEF CallTrue
<1>10. StatusMoves(w)
  BY <1>1 DEF StatusMoves
<1>11. \A k \in Weeks : HasWeek(row', k) => Week(row', k).status # "logged"
  BY <1>1, <1>2, RowFacts DEF HasWeek, Week, Accepted
<1>12. c.op \notin WorkOps
  BY <1>7 DEF WorkOps
<1> QED BY <1>1, <1>2, <1>3, <1>5, <1>8, <1>9, <1>10, <1>11, <1>12, RowFacts, OneCall

-----------------------------------------------------------------------------
(***************************************************************************)
(* The runner's pass, the hold on an offer, and calls that end.            *)
(***************************************************************************)
\* Any set of weeks has a first one.
LEMMA FirstWeek ==
    ASSUME NEW D \in SUBSET Weeks, D # {}
    PROVE  \E x \in D : \A y \in D : x <= y
<1> DEFINE Inductive == {T \in SUBSET Weeks : T # {} => \E x \in T : \A y \in T : x <= y}
<1>1. SUFFICES ASSUME NEW T \in SUBSET Weeks, T \notin Inductive,
                      \A U \in SUBSET T : U # T => U \in Inductive
               PROVE  FALSE
  <2>1. SUBSET Weeks \subseteq Inductive
    <3> HIDE DEF Inductive
    <3> QED BY <1>1, WeeksFinite, SetInduction
  <2> QED BY <2>1
<1>2. T # {} /\ ~\E x \in T : \A y \in T : x <= y
  BY <1>1
<1>3. PICK a \in T : TRUE
  BY <1>2
<1>4. T \ {a} # {}
  BY <1>2, <1>3, WeeksFinite
<1>5. PICK b \in T \ {a} : \A y \in T \ {a} : b <= y
  BY <1>1, <1>3, <1>4
<1>6. a \in Nat /\ b \in Nat /\ \A y \in T : y \in Nat
  BY WeeksFinite
<1>7. (\A y \in T : b <= y) \/ (\A y \in T : a <= y)
  BY <1>5, <1>6
<1> QED BY <1>2, <1>3, <1>5, <1>7

LEMMA BeginPassKeeps ==
    ASSUME EngInv, WorkInv', Goes, BeginPass
    PROVE  EngInv'
<1>1. now \in Nat /\ Runner \in Actors
  BY Typed, EngConstants DEF EngInv, WorkInv
<1>2. row' = row /\ faults' = faults /\ RowOK(row) /\ row \in RowType
  BY RowFacts DEF BeginPass
<1>3. CASE /\ row.status \in {"offered", "declined"}
           /\ Move(Runner, [Idle EXCEPT !.op = "cancel", !.pc = "mark", !.e = row, !.at = now])
  <2> DEFINE c == [Idle EXCEPT !.op = "cancel", !.pc = "mark", !.e = row, !.at = now]
  <2>1. c.op = "cancel" /\ c.pc = "mark" /\ c.e = row /\ c \in CallType
    BY <1>1, <1>2, IdleOK DEF CallType, CallOK, HoldOps, Idle
  <2>2. call' = [call EXCEPT ![Runner] = c]
    BY <1>3 DEF Move
  <2> HIDE DEF c
  <2>3. CallOK(c) /\ ~Holds(c) /\ c.op \notin WorkOps
    BY <1>2, <1>3, <2>1 DEF CallOK, OwnWeekOps, Holds, WorkOps
  <2> QED BY <1>1, <1>2, <2>1, <2>2, <2>3, RowFacts, CallMoves
<1>4. CASE /\ Working(row)
           /\ Move(Runner, [Idle EXCEPT !.op = "run", !.pc = "next", !.e = row, !.at = now])
  <2> DEFINE c == [Idle EXCEPT !.op = "run", !.pc = "next", !.e = row, !.at = now]
  <2>1. c.op = "run" /\ c.pc = "next" /\ c.e = row /\ c \in CallType
    BY <1>1, <1>2, IdleOK DEF CallType, CallOK, WorkOps, Idle
  <2>2. call' = [call EXCEPT ![Runner] = c]
    BY <1>4 DEF Move
  <2> HIDE DEF c
  <2>3. CallOK(c) /\ ~Holds(c)
    BY <1>2, <2>1 DEF CallOK, OwnWeekOps, Holds, HoldOps
  <2>4. row.status \in Accepted
    BY <1>4 DEF Working, Accepted
  <2> QED BY <1>1, <1>2, <2>1, <2>2, <2>3, <2>4, RowFacts, CallMoves
<1> QED BY <1>3, <1>4 DEF BeginPass

LEMMA PassOnKeeps ==
    ASSUME EngInv, WorkInv', Goes, PassOn
    PROVE  EngInv'
<1> DEFINE c == call[Runner]
           due == {k \in Weeks : HasWeek(c.e, k) /\ k >= c.k /\ Owes(c.e, k, c.at) # "nothing"}
           k == CHOOSE x \in due : \A y \in due : x <= y
<1>1. /\ Runner \in Actors /\ CallOK(c) /\ c \in CallType /\ c.pc = "next" /\ c.op = "run" /\ RowOK(c.e)
      /\ row' = row /\ faults' = faults /\ row.status \in Accepted /\ faults \in 0..MaxFaults
  BY EngConstants, CallFacts, RowFacts DEF PassOn, At, CallOK, WorkOps
<1>2. \/ due # {} /\ Move(Runner, [c EXCEPT !.op = Owes(c.e, k, c.at), !.pc = "send", !.k = k])
      \/ Move(Runner, [c EXCEPT !.op = "close", !.pc = "send"])
      \/ Return(Runner)
  BY DEF PassOn
<1>3. CASE due # {} /\ Move(Runner, [c EXCEPT !.op = Owes(c.e, k, c.at), !.pc = "send", !.k = k])
  <2>1. \E x \in due : \A y \in due : x <= y
    <3>1. due \in SUBSET Weeks /\ due # {}
      BY <1>3
    <3> HIDE DEF due
    <3> QED BY <3>1, FirstWeek
  <2>2. k \in due
    BY <2>1
  <2>3. k \in Weeks /\ HasWeek(c.e, k) /\ Owes(c.e, k, c.at) # "nothing"
    BY <2>2
  <2> HIDE DEF k, due
  <2> DEFINE op == Owes(c.e, k, c.at)
             d == [c EXCEPT !.op = op, !.pc = "send", !.k = k]
  <2>4. op \in {"escalate", "fallback", "settle"}
    BY <2>3 DEF Owes
  <2>5. k \in 0..Periods
    BY <2>3, WeeksFinite, WeeksAre, Constants
  <2>6. call' = [call EXCEPT ![Runner] = d]
    BY <1>3 DEF Move
  <2> HIDE DEF op
  <2>7. d.op = op /\ d.pc = "send" /\ d.e = c.e /\ d.k = k /\ d \in CallType
    BY <1>1, <2>4, <2>5 DEF CallType, WorkOps
  <2>8. d.e = call[Runner].e
    BY <2>7
  <2> HIDE DEF d, c
  <2>9. CallOK(d) /\ ~Holds(d) /\ d.op \in WorkOps
    BY <1>1, <2>3, <2>4, <2>7 DEF CallOK, OwnWeekOps, Holds, HoldOps, WorkOps
  <2> QED BY <1>1, <2>6, <2>7, <2>8, <2>9, CallMoves
<1>4. CASE Move(Runner, [c EXCEPT !.op = "close", !.pc = "send"])
  <2> DEFINE d == [c EXCEPT !.op = "close", !.pc = "send"]
  <2>1. call' = [call EXCEPT ![Runner] = d]
    BY <1>4 DEF Move
  <2>2. d.op = "close" /\ d.pc = "send" /\ d.e = c.e /\ d \in CallType
    BY <1>1 DEF CallType, WorkOps
  <2>3. d.e = call[Runner].e
    BY <2>2
  <2> HIDE DEF d, c
  <2>4. CallOK(d) /\ ~Holds(d) /\ d.op \in WorkOps
    BY <1>1, <2>2 DEF CallOK, OwnWeekOps, Holds, HoldOps, WorkOps
  <2> QED BY <1>1, <2>1, <2>2, <2>3, <2>4, CallMoves
<1>5. CASE Return(Runner)
  BY <1>1, <1>5, ReturnKeeps
<1> QED BY <1>2, <1>3, <1>4, <1>5

LEMMA MarkKeeps ==
    ASSUME EngInv, NEW w \in Actors, WorkInv', Goes, Mark(w)
    PROVE  EngInv'
<1> DEFINE c == call[w]
           from == IF Op(w) = "accept" THEN "offered" ELSE Row(w).status
           d == [c EXCEPT !.pc = "send"]
<1>1. /\ CallOK(c) /\ c \in CallType /\ c.pc = "mark" /\ c.op \in {"accept", "cancel"} /\ RowOK(c.e)
      /\ from \in {"offered", "declined"} /\ faults' = faults /\ faults \in 0..MaxFaults
  BY CallFacts, RowFacts DEF Mark, At, CallOK, Op, Row
<1>2. CASE row' = row /\ Return(w)
  BY <1>1, <1>2, ReturnKeeps
<1>3. CASE row.status = from /\ row' = [row EXCEPT !.status = "offering"] /\ Move(w, d)
  <2>1. row'.status = "offering" /\ row'.weeks = row.weeks /\ row' \in RowType
    BY <1>3, RowFacts DEF RowType, Statuses
  <2>2. RowOK(row')
    BY <2>1, RowFacts DEF RowOK
  <2>3. RowTrue(row', engagement.state, cycles)
    BY <2>1, RowFacts DEF RowTrue, HasWeek, Week
  <2>4. RowTrue(row', engagement'.state, cycles')
    BY <2>3, RowStays DEF Goes
  <2>5. call' = [call EXCEPT ![w] = d]
    BY <1>3 DEF Move
  <2>6. d.pc = "send" /\ d.op = c.op /\ d.e = c.e /\ d \in CallType
    BY <1>1 DEF CallType
  <2>7. RowTrue(c.e, engagement'.state, cycles')
    BY CallFacts, RowStays DEF Goes
  <2>8. row.status \in {"offered", "declined"}
    BY <1>1, <1>3
  <2> HIDE DEF c, d, from
  <2>9. CallTrue(d, engagement'.state, cycles')
    BY <2>6, <2>7 DEF CallTrue
  <2>10. CallOK(d) /\ d.op \notin WorkOps
    BY <1>1, <2>6 DEF CallOK, OwnWeekOps, WorkOps
  <2>11. StatusMoves(w)
    BY <2>8 DEF StatusMoves
  <2>12. \A j \in Weeks : HasWeek(row', j) => Week(row', j).status # "logged"
    BY <2>1, <2>8, RowFacts DEF HasWeek, Week, Accepted
  <2> QED BY <1>1, <2>1, <2>2, <2>4, <2>5, <2>8, <2>9, <2>10, <2>11, <2>12, OneCall
<1> QED BY <1>2, <1>3 DEF Mark, Marks

LEMMA CrashKeeps ==
    ASSUME EngInv, WorkInv', Goes, Crash
    PROVE  EngInv'
<1>1. call' = [w \in Actors |-> Idle] /\ row' = row /\ faults' = faults + 1 /\ faults < MaxFaults
  BY DEF Crash
<1>2. faults' \in 0..MaxFaults
  BY <1>1, RowFacts, EngConstants
<1>3. Idle \in CallType /\ Idle.op \notin WorkOps
  BY IdleOK DEF CallOK, WorkOps
<1>4. TypesInv'
  BY <1>1, <1>2, <1>3, IdleOK, RowFacts DEF TypesInv
<1>5. RowTrue(row', engagement'.state, cycles')
  BY <1>1, RowFacts, RowStays DEF Goes
<1>6. TruthInv'
  BY <1>1, <1>5, IdleOK DEF TruthInv
<1>7. HoldInv'
  BY <1>1, <1>3, IdleOK, RowFacts DEF HoldInv
<1> QED BY <1>4, <1>6, <1>7 DEF EngInv

\* What a call leaves when it fails: the row as it was, or the offer to be answered again.
LEMMA UndoneKeeps ==
    ASSUME EngInv, NEW w \in Actors, WorkInv', Goes, call[w].pc \in {"send", "write"}, Return(w),
           row' = Undone(w), faults' \in 0..MaxFaults
    PROVE  EngInv'
<1>1. CASE call[w].op \notin HoldOps
  <2>1. row' = row
    BY <1>1 DEF Undone, Op, HoldOps
  <2> QED BY <2>1, ReturnKeeps
<1>2. CASE call[w].op \in HoldOps
  <2>1. PICK s \in {"failed", "offered", "declined"} : row' = [row EXCEPT !.status = s]
    BY <1>2 DEF Undone, Op, Row, HoldOps
  <2>2. row'.status = s /\ row'.weeks = row.weeks /\ row' \in RowType
    BY <2>1, RowFacts DEF RowType, Statuses
  <2>3. RowOK(row')
    BY <2>2, RowFacts DEF RowOK
  <2>4. RowTrue(row', engagement.state, cycles)
    BY <2>2, RowFacts DEF RowTrue, HasWeek, Week
  <2>5. RowTrue(row', engagement'.state, cycles')
    BY <2>4, RowStays DEF Goes
  <2>6. Holds(call[w]) /\ StatusMoves(w)
    BY <1>2 DEF Holds, StatusMoves
  <2>7. row.status = "offering"
    BY <2>6, CallFacts
  <2>8. \A j \in Weeks : HasWeek(row', j) => Week(row', j).status # "logged"
    BY <2>2, <2>7, RowFacts DEF HasWeek, Week, Accepted
  <2>9. call' = [call EXCEPT ![w] = Idle] /\ Idle.op \notin WorkOps
    BY IdleOK DEF Return, Move, WorkOps
  <2> QED BY <2>3, <2>5, <2>6, <2>8, <2>9, IdleOK, OneCall
<1> QED BY <1>1, <1>2

-----------------------------------------------------------------------------
(***************************************************************************)
(* A transaction is sent.                                                  *)
(***************************************************************************)
\* A transaction the chain took: the call goes on to write what it has brought about.
LEMMA SentKeeps ==
    ASSUME EngInv, NEW w \in Actors, WorkInv', Goes, call[w].pc = "send",
           Move(w, [call[w] EXCEPT !.pc = "write"]), row' = row, faults' \in 0..MaxFaults,
           WroteFor(call[w], engagement'.state, cycles')
    PROVE  EngInv'
<1> DEFINE c == call[w]
           d == [c EXCEPT !.pc = "write"]
<1>1. CallOK(c) /\ c \in CallType /\ RowOK(c.e) /\ c.op # "run"
  BY CallFacts DEF CallOK
<1>2. d.pc = "write" /\ d.op = c.op /\ d.e = c.e /\ d.k = c.k /\ d.n = c.n /\ d \in CallType
  BY <1>1 DEF CallType
<1>3. call' = [call EXCEPT ![w] = d]
  BY DEF Move
<1>4. RowTrue(c.e, engagement'.state, cycles') /\ RowTrue(row', engagement'.state, cycles')
  BY CallFacts, RowFacts, RowStays DEF Goes
<1>5. c = call[w]
  OBVIOUS
<1> HIDE DEF c, d
<1>6. CallOK(d)
  BY <1>1, <1>2, <1>5 DEF CallOK, OwnWeekOps
<1>7. WroteFor(d, engagement'.state, cycles')
  BY <1>2, <1>5 DEF WroteFor
<1>8. CallTrue(d, engagement'.state, cycles')
  BY <1>2, <1>4, <1>7 DEF CallTrue
<1>9. Holds(d) => row'.status = "offering" /\ Holds(call[w])
  BY <1>2, <1>5, CallFacts DEF Holds
<1>10. d.op \in WorkOps => row'.status \in Accepted
  BY <1>2, <1>5, CallFacts
<1>11. StatusMoves(w)
  BY DEF StatusMoves
<1> QED BY <1>3, <1>4, <1>6, <1>8, <1>9, <1>10, <1>11, RowFacts, OneCall

\* What a call's try comes to.
Sent(w) == /\ Move(w, [call[w] EXCEPT !.pc = "write"]) /\ row' = row
           /\ WroteFor(call[w], engagement'.state, cycles')
Ended(w) == Return(w) /\ (row' = row \/ row' = Undone(w))

LEMMA NothingSent ==
    ASSUME EngInv, ChainSame
    PROVE  WorkInv' /\ Goes
BY TimeKeeps DEF ChainSame, EngInv

LEMMA SendDoes ==
    ASSUME EngInv, NEW w \in Actors, At(w, "send"), Transact(w) \/ FundOut(w)
    PROVE  WorkInv' /\ Goes /\ (Sent(w) \/ Ended(w))
<1> DEFINE c == call[w]
           k == c.k
<1>1. /\ CallOK(c) /\ c \in CallType /\ RowOK(c.e) /\ k \in Nat /\ c.n \in Nat /\ WorkInv
  BY CallFacts DEF EngInv
<1>2. c.op \in OwnWeekOps => k \in Weeks /\ Week(c.e, k).logged \in Nat
  BY <1>1, SomeWeek DEF CallOK
<1>3. CASE Op(w) = "offer"
  <2>1. Tries(w, OfferReady, OfferTx)
    BY <1>3 DEF Transact, FundOut
  <2>2. CASE OfferReady
    BY <1>1, <1>3, <2>1, <2>2, OfferKeeps DEF Tries, Sent, WroteFor, Op
  <2>3. CASE ~OfferReady
    BY <2>1, <2>3, NothingSent DEF Tries, Ended
  <2> QED BY <2>2, <2>3
<1>4. CASE Op(w) = "accept"
  <2>1. Tries(w, AcceptReady, AcceptTx)
    BY <1>4 DEF Transact, FundOut
  <2>2. CASE AcceptReady
    BY <1>1, <1>4, <2>1, <2>2, AcceptKeeps DEF Tries, Sent, WroteFor, Op
  <2>3. CASE ~AcceptReady
    BY <2>1, <2>3, NothingSent DEF Tries, Ended
  <2> QED BY <2>2, <2>3
<1>5. CASE Op(w) = "cancel"
  <2>1. Tries(w, CancelReady, CancelTx)
    BY <1>5 DEF Transact, FundOut
  <2>2. CASE CancelReady
    BY <1>1, <1>5, <2>1, <2>2, CancelKeeps DEF Tries, Sent, WroteFor, Op
  <2>3. CASE ~CancelReady
    BY <2>1, <2>3, NothingSent DEF Tries, Ended
  <2> QED BY <2>2, <2>3
<1>6. CASE Op(w) = "log"
  <2>1. Tries(w, SubmitReady(k, Total(w)), SubmitTx(k, Total(w)))
    BY <1>6 DEF Transact, FundOut
  <2>2. k \in Weeks /\ Total(w) \in Nat
    BY <1>1, <1>2, <1>6 DEF Total, Op, Row, OwnWeekOps
  <2>3. CASE SubmitReady(k, Total(w))
    <3>1. SubmitTx(k, Total(w)) /\ Move(w, [call[w] EXCEPT !.pc = "write"]) /\ row' = row
      BY <2>1, <2>3 DEF Tries
    <3>2. WorkInv' /\ Goes
      BY <1>1, <2>2, <2>3, <3>1, SubmitKeeps
    <3> QED BY <1>6, <3>1, <3>2 DEF Sent, WroteFor, Op
  <2>4. CASE ~SubmitReady(k, Total(w))
    BY <2>1, <2>4, NothingSent DEF Tries, Ended
  <2> QED BY <2>3, <2>4
<1>7. CASE Op(w) = "approve"
  <2> DEFINE u == Week(Row(w), k).logged
  <2>1. Tries(w, ApproveReady(k, u), ApproveTx(k, u))
    BY <1>7 DEF Transact, FundOut
  <2>2. k \in Weeks /\ u \in Nat
    BY <1>2, <1>7 DEF Op, Row, OwnWeekOps
  <2>3. CASE ApproveReady(k, u)
    <3>1. ApproveTx(k, u) /\ Move(w, [call[w] EXCEPT !.pc = "write"]) /\ row' = row
      BY <2>1, <2>3 DEF Tries
    <3>2. WorkInv' /\ Goes
      BY <1>1, <2>2, <2>3, <3>1, ApproveKeeps
    <3> QED BY <1>7, <3>1, <3>2 DEF Sent, WroteFor, Op
  <2>4. CASE ~ApproveReady(k, u)
    BY <2>1, <2>4, NothingSent DEF Tries, Ended
  <2> QED BY <2>3, <2>4
<1>8. CASE Op(w) = "object"
  <2>1. Tries(w, ObjectReady(k, call[w].n), ObjectTx(k, call[w].n))
    BY <1>8 DEF Transact, FundOut
  <2>2. k \in Weeks /\ call[w].n \in Nat
    BY <1>1, <1>2, <1>8 DEF Op, OwnWeekOps
  <2>3. CASE ObjectReady(k, call[w].n)
    <3>1. ObjectTx(k, call[w].n) /\ Move(w, [call[w] EXCEPT !.pc = "write"]) /\ row' = row
      BY <2>1, <2>3 DEF Tries
    <3>2. WorkInv' /\ Goes /\ cycles'[k].state = "Disputed"
      BY <1>1, <2>2, <2>3, <3>1, ObjectKeeps
    <3> QED BY <1>8, <3>1, <3>2 DEF Sent, WroteFor, Op
  <2>4. CASE ~ObjectReady(k, call[w].n)
    BY <2>1, <2>4, NothingSent DEF Tries, Ended
  <2> QED BY <2>3, <2>4
<1>9. CASE Op(w) = "notice"
  <2>1. Tries(w, NoticeReady, NoticeTx)
    BY <1>9 DEF Transact, FundOut
  <2>2. CASE NoticeReady
    BY <1>1, <1>9, <2>1, <2>2, NoticeKeeps DEF Tries, Sent, WroteFor, Op
  <2>3. CASE ~NoticeReady
    BY <2>1, <2>3, NothingSent DEF Tries, Ended
  <2> QED BY <2>2, <2>3
<1>10. CASE Op(w) = "settle"
  <2>1. Tries(w, SettleReady(k), SettleTx(k)) /\ k \in Weeks
    BY <1>2, <1>10 DEF Transact, FundOut, Op, OwnWeekOps
  <2>2. CASE SettleReady(k)
    <3>1. SettleTx(k) /\ Move(w, [call[w] EXCEPT !.pc = "write"]) /\ row' = row
      BY <2>1, <2>2 DEF Tries
    <3>2. WorkInv' /\ Goes /\ cycles'[k].state = "Settled"
      BY <1>1, <2>1, <2>2, <3>1, SettleKeeps
    <3> QED BY <1>10, <3>1, <3>2 DEF Sent, WroteFor, Op
  <2>3. CASE ~SettleReady(k)
    BY <2>1, <2>3, NothingSent DEF Tries, Ended
  <2> QED BY <2>2, <2>3
<1>11. CASE Op(w) = "escalate"
  <2>1. Tries(w, EscalateReady(k), EscalateTx(k)) /\ k \in Weeks
    BY <1>2, <1>11 DEF Transact, FundOut, Op, OwnWeekOps
  <2>2. CASE EscalateReady(k)
    <3>1. EscalateTx(k) /\ Move(w, [call[w] EXCEPT !.pc = "write"]) /\ row' = row
      BY <2>1, <2>2 DEF Tries
    <3>2. WorkInv' /\ Goes /\ cycles'[k].escalatedAt # 0
      BY <1>1, <2>1, <2>2, <3>1, EscalateKeeps
    <3> QED BY <1>11, <3>1, <3>2 DEF Sent, WroteFor, Op
  <2>3. CASE ~EscalateReady(k)
    BY <2>1, <2>3, NothingSent DEF Tries, Ended
  <2> QED BY <2>2, <2>3
<1>12. CASE Op(w) = "fallback"
  <2>1. Tries(w, FallbackReady(k), RulingTx(k, FallbackBps)) /\ k \in Weeks
    BY <1>2, <1>12 DEF Transact, FundOut, Op, OwnWeekOps
  <2>2. CASE FallbackReady(k)
    <3>1. RulingTx(k, FallbackBps) /\ Move(w, [call[w] EXCEPT !.pc = "write"]) /\ row' = row
      BY <2>1, <2>2 DEF Tries
    <3>2. Disputed(k) /\ FallbackBps \in 0..BPS
      BY <2>2, Constants DEF FallbackReady, Escalated
    <3>3. WorkInv' /\ Goes /\ cycles'[k].state = "Settled"
      BY <1>1, <2>1, <3>1, <3>2, RulingKeeps
    <3> QED BY <1>12, <3>1, <3>3 DEF Sent, WroteFor, Op
  <2>3. CASE ~FallbackReady(k)
    BY <2>1, <2>3, NothingSent DEF Tries, Ended
  <2> QED BY <2>2, <2>3
<1>13. CASE Op(w) = "close"
  <2>1. Tries(w, CloseReady, CloseTx)
    BY <1>13 DEF Transact, FundOut
  <2>2. CASE CloseReady
    BY <1>1, <1>13, <2>1, <2>2, CloseKeeps DEF Tries, Sent, WroteFor, Op
  <2>3. CASE ~CloseReady
    BY <2>1, <2>3, NothingSent DEF Tries, Ended
  <2> QED BY <2>2, <2>3
<1>14. CASE Op(w) = "fund"
  <2>1. FundOut(w)
    BY <1>14 DEF Transact
  <2>2. CASE FundReady /\ engagement.next # call[w].k
    <3>1. FundTx /\ Return(w) /\ row' = row
      BY <2>1, <2>2 DEF FundOut
    <3> QED BY <1>1, <2>2, <3>1, FundKeeps DEF Ended
  <2>3. CASE FundReady /\ engagement.next = call[w].k
    <3>1. FundTx /\ Move(w, [call[w] EXCEPT !.pc = "write"]) /\ row' = row
      BY <2>1, <2>3 DEF FundOut, Tries
    <3> QED BY <1>1, <1>14, <2>3, <3>1, FundKeeps DEF Sent, WroteFor, Op
  <2>4. CASE ~FundReady
    BY <2>1, <2>4, NothingSent DEF FundOut, Tries, Ended
  <2> QED BY <2>2, <2>3, <2>4
<1> QED BY <1>3, <1>4, <1>5, <1>6, <1>7, <1>8, <1>9, <1>10, <1>11, <1>12, <1>13, <1>14 DEF Transact, FundOut

LEMMA SendKeeps ==
    ASSUME EngInv, NEW w \in Actors, Send(w)
    PROVE  EngInv' /\ WorkInv' /\ Goes
<1>1. At(w, "send") /\ (Transact(w) \/ FundOut(w)) /\ faults' = faults
  BY DEF Send
<1>2. WorkInv' /\ Goes /\ (Sent(w) \/ Ended(w))
  BY <1>1, SendDoes
<1>3. call[w].pc = "send" /\ faults' \in 0..MaxFaults
  BY <1>1, RowFacts DEF At
<1>4. CASE Sent(w)
  BY <1>2, <1>3, <1>4, SentKeeps DEF Sent
<1>5. CASE Ended(w)
  BY <1>2, <1>3, <1>5, UndoneKeeps, ReturnKeeps DEF Ended
<1> QED BY <1>2, <1>4, <1>5

-----------------------------------------------------------------------------
(***************************************************************************)
(* The row is written back.                                                *)
(***************************************************************************)
\* The week a call writes in place of its own is a week that is true of the work.
LEMMA OwnWeekWritten ==
    ASSUME NEW e, RowOK(e), NEW k \in Nat, HasWeek(e, k), NEW x \in WeekRows, NEW st, NEW cs,
           \A j \in Weeks : HasWeek(e, j) => WeekTrue(Week(e, j), j, st, cs), WeekTrue(x, k, st, cs)
    PROVE  /\ WithWeek(e, k, x) \in Seq(WeekRows) /\ Len(WithWeek(e, k, x)) <= Periods
           /\ \A i \in Weeks : i < Len(WithWeek(e, k, x)) => WeekTrue(WithWeek(e, k, x)[i + 1], i, st, cs)
<1> DEFINE s == e.weeks
           t == [s EXCEPT ![k + 1] = x]
<1>1. s \in Seq(WeekRows) /\ Len(s) \in Nat /\ Len(s) <= Periods /\ k + 1 \in 1..Len(s)
  BY DEF RowOK, RowType, HasWeek
<1>2. WithWeek(e, k, x) = t
  BY DEF WithWeek
<1>3. \A j \in Weeks : j < Len(s) => WeekTrue(s[j + 1], j, st, cs)
  BY DEF HasWeek, Week
<1> HIDE DEF s
<1>4. t \in Seq(WeekRows) /\ Len(t) = Len(s)
  BY <1>1
<1>5. \A j \in Weeks : j < Len(s) => t[j + 1] = IF j = k THEN x ELSE s[j + 1]
  <2>1. \A j \in Nat : j < Len(s) => j + 1 \in 1..Len(s)
    BY <1>1
  <2> QED BY <1>1, <2>1, WeeksFinite
<1>6. \A i \in Weeks : i < Len(t) => WeekTrue(t[i + 1], i, st, cs)
  BY <1>3, <1>4, <1>5
<1> HIDE DEF t
<1> QED BY <1>1, <1>2, <1>4, <1>6

LEMMA NewWeekWritten ==
    ASSUME NEW e, RowOK(e), Len(e.weeks) < Periods, NEW st, NEW cs,
           \A j \in Weeks : HasWeek(e, j) => WeekTrue(Week(e, j), j, st, cs)
    PROVE  /\ Append(e.weeks, NewWeek) \in Seq(WeekRows) /\ Len(Append(e.weeks, NewWeek)) <= Periods
           /\ \A i \in Weeks : i < Len(Append(e.weeks, NewWeek)) =>
                               WeekTrue(Append(e.weeks, NewWeek)[i + 1], i, st, cs)
<1> DEFINE s == e.weeks
           t == Append(s, NewWeek)
<1>1. s \in Seq(WeekRows) /\ Len(s) \in Nat /\ Len(s) < Periods /\ Periods \in Nat
  BY Constants DEF RowOK, RowType
<1>2. NewWeek \in WeekRows /\ \A j : WeekTrue(NewWeek, j, st, cs)
  BY Constants DEF NewWeek, WeekRows, WeekTrue
<1>3. \A j \in Weeks : j < Len(s) => WeekTrue(s[j + 1], j, st, cs)
  BY DEF HasWeek, Week
<1> HIDE DEF s
<1>4. t \in Seq(WeekRows) /\ Len(t) = Len(s) + 1 /\ t[Len(s) + 1] = NewWeek
      /\ \A i \in 1..Len(s) : t[i] = s[i]
  BY <1>1, <1>2
<1>5. \A j \in Weeks : j < Len(t) => t[j + 1] = IF j = Len(s) THEN NewWeek ELSE s[j + 1]
  <2>1. \A j \in Nat : j < Len(t) => j = Len(s) \/ j + 1 \in 1..Len(s)
    BY <1>1, <1>4
  <2> QED BY <1>1, <1>4, <2>1, WeeksFinite
<1>6. \A i \in Weeks : i < Len(t) => WeekTrue(t[i + 1], i, st, cs)
  <2>1. \A i \in Nat : i < Len(t) /\ i # Len(s) => i < Len(s)
    BY <1>1, <1>4
  <2> QED BY <1>2, <1>3, <1>5, <2>1, WeeksFinite
<1>7. Len(t) <= Periods
  BY <1>1, <1>4
<1> HIDE DEF t
<1>8. t = Append(e.weeks, NewWeek)
  BY DEF t, s
<1> QED BY <1>4, <1>6, <1>7, <1>8

\* The weeks a call writes are those it read, which are still true, and its own, which its receipt proves.
LEMMA RewrittenTrue ==
    ASSUME EngInv, NEW w \in Actors, call[w].pc = "write", call[w].op \in OwnWeekOps \cup {"fund"}
    PROVE  /\ Rewritten(w) \in Seq(WeekRows) /\ Len(Rewritten(w)) <= Periods
           /\ \A i \in Weeks : i < Len(Rewritten(w)) =>
                               WeekTrue(Rewritten(w)[i + 1], i, engagement.state, cycles)
<1> DEFINE c == call[w]
           e == c.e
           k == c.k
           old == Week(e, k)
           st == engagement.state
<1>1. /\ CallOK(c) /\ c \in CallType /\ RowOK(e) /\ k \in Nat /\ c.n \in Nat /\ c.at \in Nat
      /\ WroteFor(c, st, cycles)
      /\ \A j \in Weeks : HasWeek(e, j) => WeekTrue(Week(e, j), j, st, cycles)
  BY CallFacts DEF CallTrue, RowTrue, CallType
<1>2. CASE c.op = "fund"
  <2>1. Rewritten(w) = Append(e.weeks, NewWeek)
    BY <1>2 DEF Rewritten, Op, Row
  <2>2. Len(e.weeks) < Periods
    BY <1>1, <1>2 DEF CallOK
  <2> HIDE DEF e, st
  <2> QED BY <1>1, <2>1, <2>2, NewWeekWritten DEF st
<1>3. CASE c.op \in OwnWeekOps
  <2>1. /\ HasWeek(e, k) /\ k \in Weeks /\ old \in WeekRows
        /\ old.logged \in Nat /\ old.logged <= MaxUnits /\ old.approved \in Nat /\ old.approved <= MaxUnits
    BY <1>1, <1>3, SomeWeek DEF CallOK
  <2>2. WeekTrue(old, k, st, cycles)
    BY <1>1, <2>1
  <2>3. PICK x : /\ Rewritten(w) = WithWeek(e, k, x)
                 /\ \/ c.op = "log" /\ x = [old EXCEPT !.status = "logged", !.logged = old.logged + c.n]
                    \/ c.op = "approve" /\ x = [old EXCEPT !.approved = old.logged]
                    \/ c.op = "object" /\ x = [old EXCEPT !.status = "objected", !.approved = old.logged - c.n,
                                                          !.objectedAt = c.at]
                    \/ c.op = "escalate" /\ x = [old EXCEPT !.escalatedAt = c.at]
                    \/ c.op \in {"settle", "fallback"} /\ x = [old EXCEPT !.status = "settled"]
    BY <1>3 DEF Rewritten, Op, Row, OwnWeekOps, Total
  <2>4. c.op = "log" => old.logged + c.n \in 0..MaxUnits
    BY <1>1, <2>1, Constants DEF CallOK
  <2>5. c.op = "object" => old.logged - c.n \in 0..MaxUnits
    <3>1. c.op = "object" => c.n <= old.logged - old.approved
      BY <1>1 DEF CallOK
    <3> QED BY <1>1, <2>1, <3>1, Constants
  <2> HIDE DEF c, e, k, old, st
  <2>6. x \in WeekRows
    BY <1>1, <2>1, <2>3, <2>4, <2>5 DEF WeekRows
  <2>7. WeekTrue(x, k, st, cycles)
    <3>1. old \in WeekRows
      BY <2>1
    <3>2. c.k = k
      BY DEF k
    <3>3. CASE c.op = "log" /\ x = [old EXCEPT !.status = "logged", !.logged = old.logged + c.n]
      BY <2>2, <3>1, <3>3 DEF WeekTrue, WeekRows
    <3>4. CASE c.op = "approve" /\ x = [old EXCEPT !.approved = old.logged]
      BY <2>2, <3>1, <3>4 DEF WeekTrue, WeekRows
    <3>5. CASE c.op = "object" /\ x = [old EXCEPT !.status = "objected", !.approved = old.logged - c.n,
                                                  !.objectedAt = c.at]
      BY <1>1, <2>2, <3>1, <3>2, <3>5 DEF WeekTrue, WeekRows, WroteFor
    <3>6. CASE c.op = "escalate" /\ x = [old EXCEPT !.escalatedAt = c.at]
      BY <1>1, <2>2, <3>1, <3>2, <3>6 DEF WeekTrue, WeekRows, WroteFor
    <3>7. CASE c.op \in {"settle", "fallback"} /\ x = [old EXCEPT !.status = "settled"]
      BY <1>1, <2>2, <3>1, <3>2, <3>7 DEF WeekTrue, WeekRows, WroteFor
    <3> QED BY <2>3, <3>3, <3>4, <3>5, <3>6, <3>7
  <2> QED BY <1>1, <2>1, <2>3, <2>6, <2>7, OwnWeekWritten DEF st
<1> QED BY <1>2, <1>3

\* What a call writes is a row that is true of the work, and says no more than its op may.
LEMMA PatchedTrue ==
    ASSUME EngInv, NEW w \in Actors, call[w].pc = "write", row' = Patched(w)
    PROVE  /\ RowOK(row') /\ RowTrue(row', engagement.state, cycles) /\ StatusMoves(w)
           /\ call[w].op \in WorkOps => row'.status \in Accepted
           /\ row'.status \notin Accepted =>
                  \A k \in Weeks : HasWeek(row', k) => Week(row', k).status # "logged"
<1> DEFINE c == call[w]
           st == engagement.state
<1>1. /\ CallOK(c) /\ c \in CallType /\ WroteFor(c, st, cycles)
      /\ c.op \in WorkOps => row.status \in Accepted
      /\ c.op \in HoldOps => row.status = "offering" /\ Holds(c)
      /\ c.op \in HoldOps \cup WorkOps /\ c.op # "run"
  <2>1. c.op # "none" /\ c.op # "run"
    BY CallFacts DEF CallOK
  <2> QED BY <2>1, CallFacts DEF CallTrue, Holds, CallType
<1>2. /\ row \in RowType /\ row.weeks \in Seq(WeekRows) /\ Len(row.weeks) <= Periods /\ RowTrue(row, st, cycles)
      /\ row.runs \in 0..Periods
      /\ row.status \notin Accepted => \A k \in Weeks : HasWeek(row, k) => Week(row, k).status # "logged"
  BY RowFacts
<1>3. NewWeek \in WeekRows /\ [NewWeek EXCEPT !.status = "settled"] \in WeekRows
  BY Constants DEF NewWeek, WeekRows
<1>4. Periods \in Nat /\ Periods > 0 /\ \A k \in Weeks : k \in Nat
  BY Constants, WeeksFinite
<1>5. CASE c.op \in {"offer", "cancel"}
  <2>1. PICK x \in WeekRows, s \in {"offered", "cancelled"} :
            /\ row' = [row EXCEPT !.status = s, !.weeks = <<x>>]
            /\ s = "cancelled" => st = "Closed"
            /\ x.status \in {"funded", "settled"} /\ x.escalatedAt = 0 /\ (x.status = "settled" => st = "Closed")
    <3>1. CASE c.op = "offer"
      <4>1. row' = [row EXCEPT !.status = "offered", !.weeks = <<NewWeek>>]
        BY <3>1 DEF Patched, Op
      <4> QED BY <1>3, <4>1 DEF NewWeek
    <3>2. CASE c.op = "cancel"
      <4>1. row' = [row EXCEPT !.status = "cancelled", !.weeks = <<[NewWeek EXCEPT !.status = "settled"]>>]
        BY <3>2 DEF Patched, Op
      <4>2. st = "Closed"
        BY <1>1, <3>2 DEF WroteFor
      <4> QED BY <1>3, <4>1, <4>2 DEF NewWeek
    <3> QED BY <1>5, <3>1, <3>2
  <2>2. <<x>> \in Seq(WeekRows) /\ Len(<<x>>) = 1 /\ <<x>>[1] = x
    OBVIOUS
  <2>3. row'.status = s /\ row'.weeks = <<x>> /\ row' \in RowType
    BY <1>2, <2>1, <2>2 DEF RowType, Statuses
  <2>4. RowOK(row')
    BY <1>4, <2>2, <2>3 DEF RowOK
  <2>5. \A k \in Weeks : HasWeek(row', k) => k = 0 /\ Week(row', k) = x
    BY <1>4, <2>2, <2>3 DEF HasWeek, Week
  <2>6. RowTrue(row', st, cycles)
    BY <2>1, <2>3, <2>5 DEF RowTrue, WeekTrue
  <2>7. c.op \in HoldOps /\ c.op \notin WorkOps
    BY <1>5, OpKinds
  <2> QED BY <1>1, <2>1, <2>4, <2>5, <2>6, <2>7 DEF StatusMoves
<1>6. CASE c.op \in {"accept", "notice", "close"}
  <2>1. PICK s \in {"active", "ending", "closed"}, n \in 0..Periods :
            /\ row' = [row EXCEPT !.status = s, !.runs = n]
            /\ s = "active" => st \in {"Active", "Ending", "Closed"}
            /\ s = "ending" => st \in {"Ending", "Closed"}
            /\ s = "closed" => st = "Closed"
    <3>1. engagement.runs \in 0..Periods
      BY Typed DEF EngInv, WorkInv, EngagementType
    <3>2. row = [row EXCEPT !.runs = row.runs]
      BY <1>2 DEF RowType
    <3>3. CASE c.op = "accept"
      <4>1. row' = [row EXCEPT !.status = "active", !.runs = row.runs]
        BY <1>2, <3>2, <3>3 DEF Patched, Op, RowType
      <4> QED BY <1>1, <1>2, <3>3, <4>1 DEF WroteFor
    <3>4. CASE c.op = "notice"
      BY <1>1, <3>1, <3>4 DEF Patched, Op, WroteFor
    <3>5. CASE c.op = "close"
      <4>1. row' = [row EXCEPT !.status = "closed", !.runs = row.runs]
        BY <1>2, <3>2, <3>5 DEF Patched, Op, RowType
      <4> QED BY <1>1, <1>2, <3>5, <4>1 DEF WroteFor
    <3> QED BY <1>6, <3>3, <3>4, <3>5
  <2>2. row'.status = s /\ row'.weeks = row.weeks /\ row' \in RowType /\ s \in Accepted
    BY <1>2, <2>1 DEF RowType, Statuses, Accepted
  <2>3. RowOK(row')
    BY <1>2, <2>2 DEF RowOK
  <2>4. RowTrue(row', st, cycles)
    BY <1>2, <2>1, <2>2 DEF RowTrue, HasWeek, Week
  <2>5. StatusMoves(w)
    BY <1>1, <2>2 DEF StatusMoves
  <2> QED BY <2>2, <2>3, <2>4, <2>5
<1>7. CASE c.op \in OwnWeekOps \cup {"fund"}
  <2> DEFINE t == Rewritten(w)
  <2>1. /\ t \in Seq(WeekRows) /\ Len(t) <= Periods
        /\ \A i \in Weeks : i < Len(t) => WeekTrue(t[i + 1], i, st, cycles)
    BY <1>7, RewrittenTrue
  <2>2. row' = [row EXCEPT !.weeks = t]
    BY <1>7 DEF Patched, Op, OwnWeekOps
  <2> HIDE DEF t
  <2>3. row'.status = row.status /\ row'.weeks = t /\ row' \in RowType
    BY <1>2, <2>1, <2>2 DEF RowType
  <2>4. RowOK(row')
    BY <2>1, <2>3 DEF RowOK
  <2>5. RowTrue(row', st, cycles)
    BY <1>2, <2>1, <2>3 DEF RowTrue, HasWeek, Week
  <2>6. StatusMoves(w) /\ c.op \in WorkOps
    BY <1>7, <2>3 DEF StatusMoves, OwnWeekOps, WorkOps
  <2> QED BY <1>1, <2>3, <2>4, <2>5, <2>6
<1> QED BY <1>1, <1>5, <1>6, <1>7 DEF HoldOps, WorkOps, OwnWeekOps

-----------------------------------------------------------------------------
(***************************************************************************)
(* Every step, and the theorems.                                           *)
(***************************************************************************)
LEMMA WriteKeeps ==
    ASSUME EngInv, NEW w \in Actors, WorkInv', Goes, Write(w)
    PROVE  EngInv'
<1> DEFINE c == call[w]
           d == [c EXCEPT !.op = "run", !.pc = "next", !.e = row', !.k = @ + 1]
<1>1. c.pc = "write" /\ row' = Patched(w) /\ faults' = faults
  BY DEF Write, At
<1>2. /\ RowOK(row') /\ RowTrue(row', engagement.state, cycles) /\ StatusMoves(w)
      /\ c.op \in WorkOps => row'.status \in Accepted
      /\ row'.status \notin Accepted => \A k \in Weeks : HasWeek(row', k) => Week(row', k).status # "logged"
  BY <1>1, PatchedTrue
<1>3. RowTrue(row', engagement'.state, cycles') /\ faults' \in 0..MaxFaults
  BY <1>1, <1>2, RowFacts, RowStays DEF Goes
<1>4. CASE c.op \in {"settle", "escalate", "fallback"} /\ Move(w, d)
  <2>1. CallOK(c) /\ c \in CallType /\ HasWeek(c.e, c.k) /\ RowOK(c.e) /\ c.k \in Nat
    BY <1>4, CallFacts DEF CallOK, OwnWeekOps
  <2>2. c.k + 1 \in 0..Periods
    <3>1. c.k \in Weeks
      BY <2>1, SomeWeek
    <3> QED BY <2>1, <3>1, WeeksAre, Constants
  <2>3. row' \in RowType
    BY <1>2 DEF RowOK
  <2>4. d.op = "run" /\ d.pc = "next" /\ d.e = row' /\ d \in CallType
    BY <2>1, <2>2, <2>3 DEF CallType, WorkOps
  <2>5. call' = [call EXCEPT ![w] = d] /\ c.op \in WorkOps
    BY <1>4 DEF Move, WorkOps
  <2> HIDE DEF d
  <2>6. CallOK(d) /\ ~Holds(d)
    BY <1>2, <2>4 DEF CallOK, OwnWeekOps, Holds, HoldOps
  <2>7. CallTrue(d, engagement'.state, cycles')
    BY <1>3, <2>4 DEF CallTrue
  <2> HIDE DEF c
  <2> QED BY <1>2, <1>3, <2>5, <2>6, <2>7, OneCall DEF c
<1>5. CASE Return(w)
  <2>1. call' = [call EXCEPT ![w] = Idle] /\ Idle.op \notin WorkOps
    BY <1>5, IdleOK DEF Return, Move, WorkOps
  <2> QED BY <1>2, <1>3, <2>1, IdleOK, OneCall
<1> QED BY <1>4, <1>5 DEF Write, Op

\* What happens on the chain without the backend.
LEMMA WithoutBackendKeeps ==
    ASSUME EngInv, WithoutBackend
    PROVE  EngInv' /\ Goes
<1>1. WorkInv /\ row' = row /\ call' = call /\ faults' = faults
  BY DEF EngInv, WithoutBackend
<1>2. WorkInv' /\ Goes
  <2>1. PICK k \in Weeks : \/ SettleReady(k) /\ SettleTx(k)
                           \/ RuleReady(k) /\ \E bps \in Rulings : RulingTx(k, bps)
    BY DEF WithoutBackend
  <2>2. CASE SettleReady(k) /\ SettleTx(k)
    BY <1>1, <2>2, SettleKeeps
  <2>3. CASE RuleReady(k) /\ \E bps \in Rulings : RulingTx(k, bps)
    <3>1. PICK bps \in 0..BPS : RulingTx(k, bps)
      BY <2>3, Constants
    <3>2. Disputed(k)
      BY <2>3 DEF RuleReady, Escalated
    <3> QED BY <1>1, <3>1, <3>2, RulingKeeps
  <2> QED BY <2>1, <2>2, <2>3
<1>3. RowTrue(row', engagement'.state, cycles')
  BY <1>1, <1>2, RowFacts, RowStays DEF Goes
<1> QED BY <1>1, <1>2, <1>3, RowFacts, RowAlone

LEMMA InitKeeps == Init => EngInv
<1> SUFFICES ASSUME Init PROVE EngInv
  OBVIOUS
<1>1. WorkInv /\ row = NoRow /\ call = [w \in Actors |-> Idle] /\ faults = 0
  BY WorkStarts DEF Init
<1>2. CallOK(Idle) /\ Idle.op \notin WorkOps /\ ~Holds(Idle) /\ Idle \in CallType
  BY IdleOK DEF WorkOps, CallOK
<1>3. Idle.e = NoRow /\ RowOK(NoRow)
  BY IdleOK DEF Idle, CallOK
<1>4. RowTrue(NoRow, engagement.state, cycles)
  BY <1>3, IdleOK DEF CallTrue
<1>5. TypesInv
  BY <1>1, <1>2, <1>3, EngConstants DEF TypesInv
<1>6. TruthInv
  BY <1>1, <1>4, IdleOK DEF TruthInv
<1>7. \A k \in Weeks : ~HasWeek(NoRow, k)
  BY WeeksFinite DEF NoRow, HasWeek
<1>8. HoldInv
  BY <1>1, <1>2, <1>7 DEF HoldInv
<1> QED BY <1>1, <1>5, <1>6, <1>8 DEF EngInv

\* Every step keeps the invariant, and takes nothing back on the chain.
LEMMA StepKeeps ==
    ASSUME EngInv, [Next]_vars
    PROVE  EngInv' /\ Goes
<1>1. CASE ChainSame /\ row' = row /\ call' = call /\ faults' = faults
  <2>1. WorkInv' /\ Goes
    BY <1>1, NothingSent
  <2>2. RowTrue(row', engagement'.state, cycles')
    BY <1>1, <2>1, RowFacts, RowStays DEF Goes
  <2> QED BY <1>1, <2>1, <2>2, RowFacts, RowAlone
<1>2. ASSUME NEW w \in Callers, Begins(w) PROVE EngInv' /\ Goes
  <2>1. w \in Actors
    BY EngConstants
  <2>2. ChainSame
    BY <1>2 DEF Begins, Begin, Offer, BeginAccept, BeginCancel, BeginFund, BeginNotice, BeginApprove, BeginLog,
                BeginObject
  <2>3. WorkInv' /\ Goes
    BY <2>2, NothingSent
  <2>4. CASE Offer(w)
    BY <2>1, <2>3, <2>4, OfferKept
  <2>5. CASE \/ BeginAccept(w) \/ BeginCancel(w) \/ BeginFund(w) \/ BeginNotice(w)
             \/ \E k \in Weeks : \/ BeginApprove(w, k)
                                 \/ \E n \in 1..MaxUnits : BeginLog(w, k, n) \/ BeginObject(w, k, n)
    BY <2>1, <2>3, <2>5, BeginsKeep
  <2> QED BY <1>2, <2>4, <2>5 DEF Begins
<1>3. CASE Decline
  BY <1>3, NothingSent, DeclineKeeps DEF Decline
<1>4. CASE BeginPass
  BY <1>4, NothingSent, BeginPassKeeps DEF BeginPass
<1>5. CASE PassOn
  BY <1>5, NothingSent, PassOnKeeps DEF PassOn
<1>6. ASSUME NEW w \in Actors, Mark(w) PROVE EngInv' /\ Goes
  BY <1>6, NothingSent, MarkKeeps DEF Mark
<1>7. ASSUME NEW w \in Actors, FindsBusy(w) PROVE EngInv' /\ Goes
  BY <1>7, NothingSent, ReturnKeeps, RowFacts DEF FindsBusy
<1>8. ASSUME NEW w \in Actors, Send(w) PROVE EngInv' /\ Goes
  BY <1>8, SendKeeps
<1>9. ASSUME NEW w \in Actors, Write(w) PROVE EngInv' /\ Goes
  BY <1>9, NothingSent, WriteKeeps DEF Write
<1>10. ASSUME NEW w \in Actors, ReceiptLost(w) PROVE EngInv' /\ Goes
  <2>1. /\ ChainSame /\ call[w].pc = "write" /\ Return(w) /\ row' = Undone(w)
        /\ faults < MaxFaults /\ faults' = faults + 1
    BY <1>10 DEF ReceiptLost, At
  <2>2. faults' \in 0..MaxFaults
    BY <2>1, RowFacts, EngConstants
  <2> QED BY <2>1, <2>2, NothingSent, UndoneKeeps
<1>11. CASE Crash
  BY <1>11, NothingSent, CrashKeeps DEF Crash
<1>12. CASE WithoutBackend
  BY <1>12, WithoutBackendKeeps
<1>13. CASE Clock
  <2>1. workVars' = workVars /\ now' = now + 1 /\ row' = row /\ call' = call /\ faults' = faults
    BY <1>13 DEF Clock
  <2>2. WorkInv' /\ Goes
    BY <2>1, TimeKeeps DEF EngInv
  <2>3. RowTrue(row', engagement'.state, cycles')
    BY <2>1, <2>2, RowFacts, RowStays DEF Goes
  <2> QED BY <2>1, <2>2, <2>3, RowFacts, RowAlone
<1> QED BY <1>1, <1>2, <1>3, <1>4, <1>5, <1>6, <1>7, <1>8, <1>9, <1>10, <1>11, <1>12, <1>13
        DEF Next, vars, ChainSame

\* Whatever calls, passes and faults there are, the account's books, the row's and the calls' claims about
\* the chain, and the hold on an offer being answered all stay as EngInv says.
THEOREM EngagementsKept == Spec => []EngInv
<1>1. Init => EngInv
  BY InitKeeps
<1>2. EngInv /\ [Next]_vars => EngInv'
  BY StepKeeps
<1> QED BY <1>1, <1>2, PTL DEF Spec

LEMMA PartsTotal ==
    ASSUME NEW f, DOMAIN f = Weeks
    PROVE  SumOver(f) = SumOn(f, Weeks)
BY DEF SumOver, SumOn, FoldFunction, FoldFunctionOnSet, MapThenFoldSet

\* The account of an engagement pays in parts that add up: the worker has earned the net of each cycle's
\* payments, the account holds what the open cycles may still owe, and every field stays in its range.
THEOREM AccountsAlwaysKept == Spec => []AccountKept
<1>1. EngInv => AccountKept
  <2> SUFFICES ASSUME EngInv PROVE AccountKept
    OBVIOUS
  <2>1. ASSUME NEW e, RowOK(e)
        PROVE  e.status \in Statuses /\ Len(e.weeks) <= Periods /\ Range(e.weeks) \subseteq WeekRows
               /\ e.runs \in 0..Periods
    <3>1. e.weeks \in Seq(WeekRows)
      BY <2>1 DEF RowOK, RowType
    <3>2. Range(e.weeks) \subseteq WeekRows
      BY <3>1 DEF Range
    <3> QED BY <2>1, <3>2 DEF RowOK, RowType
  <2>2. \A e \in {row} \cup {call[w].e : w \in Actors} : RowOK(e)
    BY CallFacts, RowFacts
  <2>3. DOMAIN call = Actors /\ faults \in 0..MaxFaults /\ WorkTypeOK
    BY RowFacts DEF EngInv, WorkInv
  <2>4. TypeOK
    BY <2>1, <2>2, <2>3 DEF TypeOK
  <2>5. PartsAddUp
    <3>1. SumOver([k \in Weeks |-> Net(cycles[k].paid)]) = SumOn(Parts, Weeks)
      <4>1. Parts = [k \in Weeks |-> Net(cycles[k].paid)] /\ DOMAIN Parts = Weeks
        BY DEF Parts
      <4> QED BY <4>1, PartsTotal
    <3>2. SumOver([k \in Weeks |-> HeldFor(cycles[k])]) = SumOn(Holdings, Weeks)
      <4>1. Holdings = [k \in Weeks |-> HeldFor(cycles[k])] /\ DOMAIN Holdings = Weeks
        BY DEF Holdings
      <4> QED BY <4>1, PartsTotal
    <3> QED BY <3>1, <3>2 DEF PartsAddUp, EngInv, WorkInv, MoneyInv
  <2> QED BY <2>4, <2>5 DEF AccountKept
<1> QED BY <1>1, EngagementsKept, PTL

\* The backend's row never says more than the chain has done: no ending, settlement, objection or escalation
\* it shows is one the chain did not take, whichever calls overlap, fail or are cut short.
THEOREM RecordsAlwaysTrue == Spec => []RecordIsTrue
<1>1. EngInv => RecordIsTrue
  BY RowFacts DEF RecordIsTrue, RowTrue, WeekTrue
<1> QED BY <1>1, EngagementsKept, PTL

\* Hours once approved on the chain stay approved and paid, whatever a late log still sends.
THEOREM ApprovalsAlwaysStand == Spec => ApprovalsStand
<1>1. EngInv /\ [Next]_vars =>
          [\A k \in Weeks : cycles'[k].approved >= cycles[k].approved /\ cycles'[k].paid >= cycles[k].paid]_vars
  BY StepKeeps DEF Goes, Forward
<1> QED BY <1>1, EngagementsKept, PTL DEF Spec, ApprovalsStand

\* An offer is answered once: the row of an offer taken back is never written again.
THEOREM OffersAnsweredOnce == Spec => AnsweredOnce
<1>1. EngInv /\ [Next]_vars => [row.status = "cancelled" => row' = row]_vars
  <2> SUFFICES ASSUME EngInv, [Next]_vars, row.status = "cancelled" PROVE row' = row
    OBVIOUS
  <2>1. \A w \in Actors : ~Holds(call[w]) /\ call[w].op \notin WorkOps
    BY CallFacts DEF Accepted
  <2>2. \A w \in Actors : call[w].pc \notin {"send", "write"}
    BY <2>1, CallFacts DEF CallOK, CallType, Holds
  <2>3. ASSUME NEW w \in Actors, Mark(w) PROVE row' = row
    BY <2>3, CallFacts DEF Mark, Marks, At, Op, Row, CallOK
  <2>4. ASSUME NEW w \in Callers, Begins(w) PROVE row' = row
    BY <2>4 DEF Begins, Begin, Offer, BeginAccept, BeginCancel, BeginFund, BeginNotice, BeginApprove, BeginLog,
                BeginObject
  <2>5. ASSUME NEW w \in Actors, Send(w) \/ Write(w) \/ ReceiptLost(w) PROVE row' = row
    BY <2>2, <2>5 DEF Send, Write, ReceiptLost, At
  <2> QED BY <2>3, <2>4, <2>5
          DEF Next, vars, Decline, BeginPass, PassOn, FindsBusy, Crash, WithoutBackend, Clock
<1> QED BY <1>1, EngagementsKept, PTL DEF Spec, AnsweredOnce

-----------------------------------------------------------------------------
(***************************************************************************)
(* The engagement's account.  A transaction on the chain funds a week,     *)
(* ends the work, or pays weeks that are open (PaysWeeks); a week that is  *)
(* open gives its fee and what is held for it away together, never more.   *)
(***************************************************************************)
FeeParts == [k \in Weeks |-> Fee(cycles[k].paid)]
FundedWeeks == {k \in Weeks : cycles[k].state # "none"}
Standing == {"Offered", "Active", "Ending"}

PaysWeeks ==
    /\ engagement.state \in Standing /\ engagement'.state \in Standing
    /\ \A k \in Weeks : IF cycles[k].state \in {"Funded", "Disputed"} THEN cycles'[k].state # "none"
                        ELSE cycles'[k] = cycles[k]
EndsWork == engagement.state \in Standing /\ engagement'.state = "Closed" /\ cycles' = cycles
FundsWeek ==
    /\ engagement.state \in Standing /\ engagement'.state \in Standing
    /\ balance' = balance + Cost
    /\ \E k \in Weeks : cycles[k] = NoCycle /\ cycles' = [cycles EXCEPT ![k].state = "Funded"]

\* The worker's net grows with what is paid.
LEMMA NetGrows ==
    ASSUME NEW x \in Nat, NEW y \in Nat, x <= y
    PROVE  Net(x) <= Net(y) /\ Net(x) \in Int /\ Net(y) \in Int /\ Fee(x) <= Fee(y)
<1> DEFINE p == x * FeeBps
           q == y * FeeBps
           f == p \div BPS
           g == q \div BPS
           d == y - x
<1>1. FeeBps \in Nat /\ FeeBps <= BPS /\ BPS \in Nat /\ BPS > 0 /\ d \in Nat /\ y = x + d
  BY Constants
<1>2. p \in Nat /\ q \in Nat /\ p <= q
  BY <1>1
<1>3. q <= p + d * BPS /\ d * BPS \in Nat
  <2>1. d * FeeBps \in Nat /\ d * FeeBps <= d * BPS /\ d * BPS \in Nat
    BY <1>1, ProductGrows
  <2>2. q = p + d * FeeBps
    BY <1>1
  <2> QED BY <1>2, <2>1, <2>2
<1>4. (p + d * BPS) \div BPS = p \div BPS + d
  BY <1>1, <1>2
<1> HIDE DEF p, q, d
<1>5. f \in Nat /\ g \in Nat /\ f <= g
  BY <1>1, <1>2, QuotientBounds, QuotientMonotone
<1>6. g <= f + d
  <2>1. q \div BPS <= (p + d * BPS) \div BPS
    BY <1>1, <1>2, <1>3, QuotientMonotone
  <2> QED BY <1>4, <2>1
<1>7. Fee(x) = f /\ Fee(y) = g
  BY DEF Fee, p, q
<1> HIDE DEF f, g
<1>8. g - (g \div 2) <= f - (f \div 2) + d /\ f \div 2 \in Nat /\ g \div 2 \in Nat
  BY <1>1, <1>5, <1>6
<1>9. Net(x) = x - (f - (f \div 2)) /\ Net(y) = y - (g - (g \div 2))
  BY <1>7 DEF Net, HalfFee
<1> QED BY <1>1, <1>5, <1>7, <1>8, <1>9

\* A week that is paid on gives no more away than it held.
LEMMA WeekGives ==
    ASSUME NEW c \in CycleType, NEW d \in CycleType, CycleOK(c), CycleOK(d),
           c.state \in {"Funded", "Disputed"}, d.state # "none", d.paid >= c.paid
    PROVE  Fee(d.paid) + HeldFor(d) <= Fee(c.paid) + HeldFor(c)
<1> DEFINE x == c.paid
           y == d.paid
<1>1. /\ x \in Nat /\ y \in Nat /\ x <= y /\ x <= Gross(MaxUnits) /\ y <= Gross(MaxUnits)
      /\ d.state \in {"Funded", "Disputed", "Settled"}
  BY CycleTyped DEF CycleOK
<1>2. HeldFor(c) = Cost - x - HalfFee(x)
  BY DEF HeldFor
<1>3. HeldFor(d) = IF d.state = "Settled" THEN 0 ELSE Cost - y - HalfFee(y)
  BY <1>1 DEF HeldFor
<1> HIDE DEF x, y
<1>4. /\ Cost \in Nat /\ x + HalfFee(x) <= Cost /\ HalfFee(x) \in Nat
      /\ Net(x) \in Nat /\ Fee(x) \in Nat /\ Net(x) + Fee(x) = x + HalfFee(x)
  BY <1>1, CostCovers
<1>5. /\ y + HalfFee(y) <= Cost /\ HalfFee(y) \in Nat
      /\ Net(y) \in Nat /\ Fee(y) \in Nat /\ Net(y) + Fee(y) = y + HalfFee(y)
  BY <1>1, CostCovers
<1>6. Net(x) <= Net(y)
  BY <1>1, NetGrows
<1>7. Fee(x) + HeldFor(c) = Cost - Net(x)
  BY <1>1, <1>2, <1>4
<1>8. Fee(y) + HeldFor(d) <= Cost - Net(y)
  BY <1>1, <1>3, <1>4, <1>5
<1>9. Fee(y) + HeldFor(d) <= Cost - Net(x)
  <2>1. HeldFor(d) \in Int
    BY <1>1, <1>3, <1>4, <1>5
  <2> QED BY <1>4, <1>5, <1>6, <1>8, <2>1
<1> QED BY <1>7, <1>9 DEF x, y

\* Where the account stands: the fees are within the rate on all that was put in.
Stands ==
    /\ FeePaid = SumOn(FeeParts, Weeks) /\ FeePaid \in Nat /\ PutIn \in Nat /\ balance \in Nat
    /\ IsFiniteSet(FundedWeeks) /\ Cardinality(FundedWeeks) \in Nat /\ PutIn = Cost * Cardinality(FundedWeeks)
    /\ \A k \in Weeks : FeeParts[k] \in Nat /\ FeeParts[k] \in Int
    /\ FeePaid <= (PutIn * FeeBps) \div BPS

LEMMA AccountStands == WorkInv => Stands
<1> SUFFICES ASSUME WorkInv PROVE Stands
  OBVIOUS
<1> DEFINE G == Gross(MaxUnits)
           F == Fee(G)
           n == Cardinality(FundedWeeks)
           Most == [k \in Weeks |-> IF k \in FundedWeeks THEN F ELSE 0]
           None == [k \in Weeks |-> 0]
<1>1. /\ BPS \in Nat /\ BPS > 0 /\ FeeBps \in Nat /\ G \in Nat /\ F \in Nat /\ Cost \in Nat /\ G <= Cost
  <2>1. G \in Nat
    BY Constants, GrossGrows
  <2>2. Cost \in Nat /\ G + HalfFee(G) <= Cost /\ HalfFee(G) \in Nat /\ F \in Nat
    BY <2>1, CostCovers
  <2> HIDE DEF G, F
  <2> QED BY <2>1, <2>2, Constants
<1>2. IsFiniteSet(Weeks) /\ FundedWeeks \in SUBSET Weeks /\ IsFiniteSet(FundedWeeks) /\ n \in Nat
  BY WeeksFinite, FS_Subset, FS_CardinalityType DEF FundedWeeks
<1>3. \A k \in Weeks : FeeParts[k] \in Nat /\ FeeParts[k] <= Most[k]
  <2> SUFFICES ASSUME NEW k \in Weeks PROVE FeeParts[k] \in Nat /\ FeeParts[k] <= Most[k]
    OBVIOUS
  <2>1. FeeParts[k] = Fee(cycles[k].paid) /\ cycles[k].paid \in Nat /\ CycleOK(cycles[k])
    BY ReadyCycle DEF FeeParts
  <2>2. cycles[k].paid <= G
    BY <2>1 DEF CycleOK
  <2>3. Fee(cycles[k].paid) \in Nat /\ Fee(cycles[k].paid) <= F
    <3> HIDE DEF G
    <3> QED BY <1>1, <2>1, <2>2, NetGrows, FeesGrow
  <2>4. k \notin FundedWeeks => cycles[k].paid = 0
    BY <2>1 DEF FundedWeeks, CycleOK, NoCycle
  <2> QED BY <2>1, <2>3, <2>4, NothingPaid
<1>4. FeePaid = SumOn(FeeParts, Weeks)
  <2>1. FeeParts = [k \in Weeks |-> Fee(cycles[k].paid)] /\ DOMAIN FeeParts = Weeks
    BY DEF FeeParts
  <2> QED BY <2>1, PartsTotal DEF FeePaid
<1>5. PutIn = Cost * n
  BY DEF PutIn, FundedWeeks
<1>6. SumOn(FeeParts, Weeks) \in Nat
  BY <1>2, <1>3, SumNat
<1> HIDE DEF G, F
<1>7. \A k \in Weeks : /\ FeeParts[k] \in Int /\ Most[k] \in Int /\ None[k] \in Int /\ None[k] = 0
                       /\ IF k \in FundedWeeks THEN Most[k] = None[k] + F ELSE Most[k] = None[k]
  BY <1>1, <1>3
<1> HIDE DEF Most, None
<1>8. SumOn(FeeParts, Weeks) <= SumOn(Most, Weeks)
  BY <1>2, <1>3, <1>7, SumMonotone
<1>9. SumOn(Most, Weeks) = F * n
  <2>1. SumOn(None, Weeks) = 0
    BY <1>2, <1>7, SumZero
  <2>2. SumOn(Most, Weeks) = SumOn(None, Weeks) + F * Cardinality(FundedWeeks)
    <3>1. F \in Int
      BY <1>1
    <3> HIDE DEF n
    <3> QED BY <1>2, <1>7, <3>1, SumDrop
  <2>3. F * n \in Nat
    BY <1>1, <1>2, ProductGrows
  <2> QED BY <2>1, <2>2, <2>3
<1> HIDE DEF n
<1>10. F * n <= (Cost * n * FeeBps) \div BPS
  <2>1. BPS * F <= G * FeeBps
    <3>1. F = (G * FeeBps) \div BPS
      BY DEF F, Fee
    <3>2. G * FeeBps \in Nat
      BY <1>1, ProductGrows
    <3> QED BY <1>1, <3>1, <3>2, QuotientBounds
  <2>2. G * FeeBps <= Cost * FeeBps /\ G * FeeBps \in Nat /\ Cost * FeeBps \in Nat
    BY <1>1, ProductGrows
  <2>3. BPS * F \in Nat
    BY <1>1, ProductGrows
  <2>4. n * (BPS * F) <= n * (Cost * FeeBps) /\ n * (BPS * F) \in Nat /\ n * (Cost * FeeBps) \in Nat
    <3>1. BPS * F <= Cost * FeeBps
      BY <2>1, <2>2, <2>3
    <3> DEFINE u == BPS * F
               v == Cost * FeeBps
    <3>2. u \in Nat /\ v \in Nat /\ u <= v
      BY <2>2, <2>3, <3>1
    <3> HIDE DEF u, v
    <3>3. n * u <= n * v /\ n * u \in Nat /\ n * v \in Nat
      BY <1>2, <3>2, ProductGrows
    <3> QED BY <3>3 DEF u, v
  <2>5. n * (BPS * F) = (F * n) * BPS /\ n * (Cost * FeeBps) = Cost * n * FeeBps
    BY <1>1, <1>2
  <2>6. F * n \in Nat
    BY <1>1, <1>2, ProductGrows
  <2> DEFINE a == F * n
             b == Cost * n * FeeBps
  <2>7. a \in Nat /\ b \in Nat /\ a * BPS <= b /\ a * BPS \in Nat
    BY <2>4, <2>5, <2>6
  <2> HIDE DEF a, b
  <2>8. (a * BPS) \div BPS = a
    BY <1>1, <2>7
  <2>9. a <= b \div BPS
    BY <1>1, <2>7, <2>8, QuotientMonotone
  <2> QED BY <2>9 DEF a, b
<1>11. PutIn \in Nat
  BY <1>1, <1>2, <1>5, ProductGrows
<1>12. FeePaid <= (PutIn * FeeBps) \div BPS
  <2>1. SumOn(FeeParts, Weeks) <= F * n
    BY <1>8, <1>9
  <2>2. (PutIn * FeeBps) \div BPS \in Nat
    <3>1. PutIn * FeeBps \in Nat
      BY <1>1, <1>11, ProductGrows
    <3> QED BY <1>1, <3>1, QuotientBounds
  <2>3. F * n <= (PutIn * FeeBps) \div BPS
    BY <1>5, <1>10
  <2>4. F * n \in Nat
    BY <1>1, <1>2, ProductGrows
  <2> QED BY <1>4, <1>6, <2>1, <2>2, <2>3, <2>4
<1>13. balance \in Nat
  BY Typed DEF WorkInv
<1> QED BY <1>2, <1>3, <1>4, <1>5, <1>6, <1>7, <1>11, <1>12, <1>13 DEF n, Stands

LEMMA AccountStandsNext == WorkInv' => Stands'
BY AccountStands, PTL

\* What the weeks' fees and the balance lose together has left the account.
LEMMA GivesAway ==
    ASSUME WorkInv, WorkInv', engagement.state \in Standing, engagement'.state \in Standing \cup {"Closed"},
           FundedWeeks' = FundedWeeks, FeePaid' >= FeePaid, FeePaid' + balance' <= FeePaid + balance
    PROVE  Account!PaysOut
<1>1. /\ FeePaid \in Nat /\ PutIn \in Nat /\ balance \in Nat
      /\ PutIn = Cost * Cardinality(FundedWeeks)
  BY AccountStands DEF Stands
<1>2. /\ FeePaid' \in Nat /\ PutIn' \in Nat /\ balance' \in Nat
      /\ PutIn' = Cost * Cardinality(FundedWeeks') /\ FeePaid' <= (PutIn' * FeeBps) \div BPS
  BY AccountStandsNext DEF Stands
<1>3. PutIn' = PutIn
  BY <1>1, <1>2
<1>4. engagement'.state = "Closed" => balance' = 0
  BY DEF WorkInv, MoneyInv
<1>5. FeePaid' <= (PutIn * FeeBps) \div BPS
  BY <1>2, <1>3
<1>6. /\ PutIn' - FeePaid' - balance' >= PutIn - FeePaid - balance
      /\ (PutIn' - FeePaid' - balance') + FeePaid' <= PutIn
      /\ balance' = 0 => (PutIn' - FeePaid' - balance') + FeePaid' = PutIn
  <2> DEFINE f == FeePaid
             g == FeePaid'
             b == balance
             c == balance'
             p == PutIn
  <2>1. f \in Nat /\ g \in Nat /\ b \in Nat /\ c \in Nat /\ p \in Nat /\ PutIn' = p /\ g + c <= f + b
    BY <1>1, <1>2, <1>3
  <2> HIDE DEF f, g, b, c, p
  <2>2. p - g - c >= p - f - b /\ (p - g - c) + g <= p /\ (c = 0 => (p - g - c) + g = p)
    BY <2>1
  <2> QED BY <2>1, <2>2 DEF f, g, b, c, p
<1> QED BY <1>3, <1>4, <1>5, <1>6 DEF Account!PaysOut, Account!FeeLimit, Standing

LEMMA PaymentIsAccount ==
    ASSUME WorkInv, WorkInv', Goes, PaysWeeks
    PROVE  Account!PaysOut
<1>1. /\ engagement.state \in Standing /\ engagement'.state \in Standing
      /\ \A k \in Weeks : IF cycles[k].state \in {"Funded", "Disputed"} THEN cycles'[k].state # "none"
                          ELSE cycles'[k] = cycles[k]
  BY DEF PaysWeeks
<1>2. FundedWeeks' = FundedWeeks
  BY <1>1 DEF FundedWeeks
<1>3. \A k \in Weeks : /\ cycles[k] \in CycleType /\ CycleOK(cycles[k]) /\ cycles[k].paid \in Nat
                       /\ cycles'[k] \in CycleType /\ CycleOK(cycles'[k]) /\ cycles'[k].paid \in Nat
                       /\ cycles'[k].paid >= cycles[k].paid
  <2>1. cycles' \in [Weeks -> CycleType] /\ \A k \in Weeks : CycleOK(cycles'[k])
    BY DEF WorkInv, WorkTypeOK, CyclesInv
  <2> QED BY <2>1, ReadyCycle, CycleTyped DEF Goes, Forward
<1>4. \A k \in Weeks : /\ FeeParts[k] = Fee(cycles[k].paid) /\ FeeParts'[k] = Fee(cycles'[k].paid)
                       /\ Holdings[k] = HeldFor(cycles[k]) /\ Holdings'[k] = HeldFor(cycles'[k])
  BY DEF FeeParts, Holdings
<1>5. \A k \in Weeks : /\ FeeParts[k] \in Int /\ FeeParts'[k] \in Int /\ Holdings[k] \in Int /\ Holdings'[k] \in Int
                       /\ FeeParts[k] <= FeeParts'[k]
  <2> SUFFICES ASSUME NEW k \in Weeks
               PROVE  /\ FeeParts[k] \in Int /\ FeeParts'[k] \in Int /\ Holdings[k] \in Int /\ Holdings'[k] \in Int
                      /\ FeeParts[k] <= FeeParts'[k]
    OBVIOUS
  <2>1. HeldFor(cycles[k]) \in Nat /\ HeldFor(cycles'[k]) \in Nat
    BY <1>3, HeldIsNat
  <2>2. Fee(cycles[k].paid) \in Nat /\ Fee(cycles'[k].paid) \in Nat /\ Fee(cycles[k].paid) <= Fee(cycles'[k].paid)
    BY <1>3, FeesGrow, NetGrows
  <2> QED BY <1>4, <2>1, <2>2
<1>6. \A k \in Weeks : FeeParts'[k] + Holdings'[k] <= FeeParts[k] + Holdings[k]
  <2> SUFFICES ASSUME NEW k \in Weeks PROVE FeeParts'[k] + Holdings'[k] <= FeeParts[k] + Holdings[k]
    OBVIOUS
  <2>1. CASE cycles[k].state \in {"Funded", "Disputed"}
    <3>1. cycles'[k].state # "none"
      BY <1>1, <2>1
    <3>2. Fee(cycles'[k].paid) + HeldFor(cycles'[k]) <= Fee(cycles[k].paid) + HeldFor(cycles[k])
      BY <1>3, <2>1, <3>1, WeekGives
    <3> QED BY <1>4, <3>2
  <2>2. CASE cycles[k].state \notin {"Funded", "Disputed"}
    <3>1. FeeParts'[k] = FeeParts[k] /\ Holdings'[k] = Holdings[k]
      BY <1>1, <1>4, <2>2
    <3>2. FeeParts[k] + Holdings[k] \in Int
      BY <1>5
    <3> QED BY <3>1, <3>2
  <2> QED BY <2>1, <2>2
<1>7. balance = SumOn(Holdings, Weeks) /\ balance' = SumOn(Holdings', Weeks)
  BY <1>1 DEF WorkInv, MoneyInv, Standing
<1>8. FeePaid = SumOn(FeeParts, Weeks) /\ FeePaid' = SumOn(FeeParts', Weeks)
  BY AccountStands, AccountStandsNext DEF Stands
<1> DEFINE f == FeeParts
           g == FeeParts'
           h == Holdings
           i == Holdings'
<1>9. /\ \A k \in Weeks : f[k] \in Int /\ g[k] \in Int /\ h[k] \in Int /\ i[k] \in Int
      /\ \A k \in Weeks : f[k] <= g[k] /\ g[k] + i[k] <= f[k] + h[k]
      /\ IsFiniteSet(Weeks)
  BY <1>5, <1>6, WeeksFinite
<1>10. SumOn(f, Weeks) <= SumOn(g, Weeks) /\ SumOn(g, Weeks) + SumOn(i, Weeks) <= SumOn(f, Weeks) + SumOn(h, Weeks)
  <2> HIDE DEF f, g, h, i
  <2> QED BY <1>9, SumPairs, SumMonotone
<1>11. FeePaid \in Nat /\ FeePaid' \in Nat
  BY AccountStands, AccountStandsNext DEF Stands
<1>12. FeePaid' >= FeePaid
  BY <1>8, <1>10, <1>11
<1> QED BY <1>1, <1>2, <1>7, <1>8, <1>10, <1>12, GivesAway

LEMMA EndingIsAccount ==
    ASSUME WorkInv, WorkInv', EndsWork
    PROVE  Account!PaysOut
<1>1. engagement.state \in Standing /\ engagement'.state = "Closed" /\ cycles' = cycles
  BY DEF EndsWork
<1>2. FundedWeeks' = FundedWeeks /\ FeePaid' = FeePaid
  BY <1>1 DEF FundedWeeks, FeePaid
<1>3. FeePaid \in Nat /\ balance \in Nat
  BY AccountStands DEF Stands
<1>4. balance' = 0
  BY <1>1 DEF WorkInv, MoneyInv
<1> QED BY <1>1, <1>2, <1>3, <1>4, GivesAway

\* A week funded: one more week's price has come in, and no fee was taken for it.
LEMMA WeekPutIn ==
    ASSUME WorkInv, WorkInv', NEW k \in Weeks, cycles[k] = NoCycle, cycles' = [cycles EXCEPT ![k].state = "Funded"]
    PROVE  PutIn' = PutIn + Cost /\ FeePaid' = FeePaid /\ Cost > 0 /\ Cost \in Nat
<1>1. cycles \in [Weeks -> CycleType] /\ cycles[k] \in CycleType
  BY ReadyCycle, Typed DEF WorkInv
<1>2. /\ cycles'[k].state = "Funded" /\ cycles'[k].paid = cycles[k].paid /\ cycles[k].state = "none"
      /\ \A j \in Weeks : j # k => cycles'[j] = cycles[j]
  BY <1>1 DEF NoCycle
<1>3. FundedWeeks' = FundedWeeks \cup {k} /\ k \notin FundedWeeks
  BY <1>2 DEF FundedWeeks
<1>4. /\ IsFiniteSet(FundedWeeks) /\ Cardinality(FundedWeeks) \in Nat /\ PutIn = Cost * Cardinality(FundedWeeks)
      /\ PutIn' = Cost * Cardinality(FundedWeeks')
  BY AccountStands, AccountStandsNext DEF Stands
<1>5. Cardinality(FundedWeeks') = Cardinality(FundedWeeks) + 1
  BY <1>3, <1>4, FS_AddElement
<1>6. Cost \in Nat /\ Cost > 0
  <2>1. Gross(MaxUnits) \in Nat /\ Gross(MaxUnits) > 0
    BY BudgetPositive
  <2>2. Cost \in Nat /\ Gross(MaxUnits) + HalfFee(Gross(MaxUnits)) <= Cost /\ HalfFee(Gross(MaxUnits)) \in Nat
    BY <2>1, CostCovers
  <2> QED BY <2>1, <2>2
<1>7. PutIn' = PutIn + Cost
  <2> DEFINE n == Cardinality(FundedWeeks)
  <2>1. n \in Nat /\ PutIn = Cost * n /\ PutIn' = Cost * (n + 1)
    BY <1>4, <1>5
  <2> HIDE DEF n
  <2> QED BY <1>6, <2>1
<1>8. FeePaid' = FeePaid
  <2>1. \A j \in Weeks : FeeParts'[j] = FeeParts[j]
    BY <1>2 DEF FeeParts
  <2>2. SumOn(FeeParts', Weeks) = SumOn(FeeParts, Weeks)
    BY <2>1, WeeksFinite, SumCongruence
  <2> QED BY <2>2, AccountStands, AccountStandsNext DEF Stands
<1> QED BY <1>6, <1>7, <1>8

LEMMA FundingIsAccount ==
    ASSUME WorkInv, WorkInv', FundsWeek
    PROVE  Account!TakesMoney
<1>1. PICK k \in Weeks : cycles[k] = NoCycle /\ cycles' = [cycles EXCEPT ![k].state = "Funded"]
  BY DEF FundsWeek
<1>2. PutIn' = PutIn + Cost /\ FeePaid' = FeePaid /\ Cost > 0 /\ Cost \in Nat
  BY <1>1, WeekPutIn
<1>3. engagement.state \in Standing /\ engagement'.state \in Standing /\ balance' = balance + Cost
  BY DEF FundsWeek
<1>4. PutIn \in Nat /\ FeePaid \in Nat /\ balance \in Nat
  BY AccountStands DEF Stands
<1>5. PutIn' > PutIn /\ PutIn' - FeePaid' - balance' = PutIn - FeePaid - balance
  BY <1>2, <1>3, <1>4
<1> QED BY <1>2, <1>3, <1>5 DEF Account!TakesMoney, Standing

\* Before the offer nothing was put in and no fee taken.
LEMMA NothingYet ==
    ASSUME WorkInv, engagement.state = "None"
    PROVE  /\ \A k \in Weeks : cycles[k] = NoCycle
           /\ PutIn = 0 /\ FeePaid = 0 /\ balance = 0
<1>1. engagement.next = 0 /\ engagement.runs = Periods
  BY DEF WorkInv, CyclesInv
<1>2. \A k \in Weeks : k \in Nat /\ 0 <= k /\ k < Periods
  BY Constants DEF Weeks
<1>3. \A k \in Weeks : cycles[k] = NoCycle
  BY <1>1, <1>2 DEF WorkInv, CyclesInv
<1>4. PutIn = 0
  <2>1. FundedWeeks = {}
    BY <1>3 DEF FundedWeeks, NoCycle
  <2>2. PutIn = Cost * Cardinality(FundedWeeks) /\ Cardinality({}) = 0 /\ Cost \in Nat
    BY AccountStands, FS_EmptySet, NothingPaid DEF Stands
  <2> QED BY <2>1, <2>2
<1>5. FeePaid = 0
  <2>1. \A k \in Weeks : FeeParts[k] = 0
    BY <1>3, NothingPaid DEF FeeParts, NoCycle
  <2>2. SumOn(FeeParts, Weeks) = 0
    BY <2>1, WeeksFinite, SumZero
  <2> QED BY <2>2, AccountStands DEF Stands
<1>6. balance = 0
  BY DEF WorkInv, MoneyInv
<1> QED BY <1>3, <1>4, <1>5, <1>6

LEMMA OpeningIsAccount ==
    ASSUME WorkInv, WorkInv', OfferReady, OfferTx
    PROVE  Account!Opens
<1>1. /\ engagement.state = "None" /\ engagement'.state = "Offered" /\ balance' = balance + Cost
      /\ cycles' = [cycles EXCEPT ![0].state = "Funded"]
  BY DEF OfferReady, OfferTx
<1>2. 0 \in Weeks /\ cycles[0] = NoCycle /\ PutIn = 0 /\ FeePaid = 0 /\ balance = 0
  BY <1>1, NothingYet, WeeksFinite
<1>3. PutIn' = PutIn + Cost /\ FeePaid' = FeePaid /\ Cost \in Nat
  BY <1>1, <1>2, WeekPutIn
<1>4. PutIn' = Cost /\ FeePaid' = 0 /\ balance' = Cost /\ PutIn' >= 0 /\ PutIn' - FeePaid' - balance' = 0
  BY <1>1, <1>2, <1>3
<1> QED BY <1>1, <1>4 DEF Account!Opens

\* What a step does on the chain, as the account sees it.
ChainDoes ==
    \/ UNCHANGED workVars \/ PaysWeeks \/ EndsWork \/ FundsWeek
    \/ OfferReady /\ OfferTx

\* A transaction on one open week.
LEMMA OneWeekPays ==
    ASSUME WorkInv, NEW k \in Weeks, Live, cycles[k].state \in {"Funded", "Disputed"}, NEW d, d.state # "none",
           cycles' = [cycles EXCEPT ![k] = d], engagement' = engagement
    PROVE  PaysWeeks
<1>1. cycles \in [Weeks -> CycleType]
  BY Typed DEF WorkInv
<1>2. cycles'[k] = d /\ \A j \in Weeks : j # k => cycles'[j] = cycles[j]
  BY <1>1
<1>3. engagement.state \in Standing /\ engagement'.state \in Standing
  BY DEF Live, Standing
<1> QED BY <1>2, <1>3 DEF PaysWeeks

LEMMA PayPays ==
    ASSUME WorkInv, NEW k \in Weeks, Live, cycles[k].state \in {"Funded", "Disputed"}, NEW gross, NEW c,
           \A g : [c EXCEPT !.paid = g].state # "none", Pay(k, gross, c)
    PROVE  PaysWeeks
<1> DEFINE d == [c EXCEPT !.paid = Booked(cycles[k].paid, gross)]
<1>1. cycles' = [cycles EXCEPT ![k] = d] /\ engagement' = engagement
  BY DEF Pay
<1>2. d.state # "none"
  OBVIOUS
<1> HIDE DEF d
<1> QED BY <1>1, <1>2, OneWeekPays

LEMMA WeekTransacts ==
    ASSUME WorkInv, NEW k, NEW u,
           \/ SubmitReady(k, u) /\ SubmitTx(k, u)
           \/ ApproveReady(k, u) /\ ApproveTx(k, u)
           \/ ObjectReady(k, u) /\ ObjectTx(k, u)
           \/ SettleReady(k) /\ SettleTx(k)
           \/ EscalateReady(k) /\ EscalateTx(k)
           \/ Disputed(k) /\ RulingTx(k, u)
    PROVE  PaysWeeks
<1>1. Live /\ k \in Weeks /\ cycles[k].state \in {"Funded", "Disputed"}
  BY DEF SubmitReady, ApproveReady, ObjectReady, SettleReady, EscalateReady, Disputed, Running
<1>2. cycles[k] \in CycleType
  BY <1>1, ReadyCycle
<1> DEFINE c == cycles[k]
<1>3. CASE SubmitReady(k, u) /\ SubmitTx(k, u)
  <2> DEFINE d == [c EXCEPT !.claimed = u]
  <2>1. cycles' = [cycles EXCEPT ![k] = d] /\ engagement' = engagement /\ d.state # "none"
    BY <1>1, <1>2, <1>3 DEF SubmitTx, CycleType
  <2> HIDE DEF d
  <2> QED BY <1>1, <2>1, OneWeekPays
<1>4. CASE EscalateReady(k) /\ EscalateTx(k)
  <2> DEFINE d == [c EXCEPT !.escalatedAt = now]
  <2>1. cycles' = [cycles EXCEPT ![k] = d] /\ engagement' = engagement /\ d.state # "none"
    BY <1>1, <1>2, <1>4 DEF EscalateTx, CycleType
  <2> HIDE DEF d
  <2> QED BY <1>1, <2>1, OneWeekPays
<1>5. CASE \/ ApproveReady(k, u) /\ ApproveTx(k, u)
           \/ ObjectReady(k, u) /\ ObjectTx(k, u)
           \/ SettleReady(k) /\ SettleTx(k)
           \/ Disputed(k) /\ RulingTx(k, u)
  <2>1. \E gross, d : (\A g : [d EXCEPT !.paid = g].state # "none") /\ Pay(k, gross, d)
    <3>1. CASE ApproveReady(k, u) /\ ApproveTx(k, u)
      <4>1. \A g : [[c EXCEPT !.approved = u] EXCEPT !.paid = g].state # "none"
        BY <1>1, <1>2 DEF CycleType
      <4> QED BY <3>1, <4>1, Zenon DEF ApproveTx
    <3>2. CASE ObjectReady(k, u) /\ ObjectTx(k, u)
      <4>1. \A g : [[c EXCEPT !.approved = c.claimed - u, !.disputed = u, !.state = "Disputed"]
                        EXCEPT !.paid = g].state # "none"
        BY <1>2 DEF CycleType
      <4> QED BY <3>2, <4>1, Zenon DEF ObjectTx
    <3>3. CASE SettleReady(k) /\ SettleTx(k)
      <4>1. \A g : [[c EXCEPT !.approved = c.claimed, !.state = "Settled"] EXCEPT !.paid = g].state # "none"
        BY <1>2 DEF CycleType
      <4> QED BY <3>3, <4>1, Zenon DEF SettleTx
    <3>4. CASE Disputed(k) /\ RulingTx(k, u)
      <4>1. \A g : [[c EXCEPT !.state = "Settled", !.disputed = 0] EXCEPT !.paid = g].state # "none"
        BY <1>2 DEF CycleType
      <4> QED BY <3>4, <4>1, Zenon DEF RulingTx
    <3> QED BY <1>5, <3>1, <3>2, <3>3, <3>4
  <2> QED BY <1>1, <2>1, PayPays
<1> QED BY <1>3, <1>4, <1>5

LEMMA EngagementTransacts ==
    ASSUME WorkInv,
           \/ AcceptReady /\ AcceptTx
           \/ CancelReady /\ CancelTx
           \/ FundReady /\ FundTx
           \/ NoticeReady /\ NoticeTx
           \/ CloseReady /\ CloseTx
    PROVE  ChainDoes
<1>1. engagement \in EngagementType /\ cycles \in [Weeks -> CycleType]
  BY Typed DEF WorkInv
<1>2. CASE AcceptReady /\ AcceptTx
  <2>1. engagement.state = "Offered" /\ engagement'.state = "Active" /\ cycles' = cycles
    BY <1>1, <1>2 DEF AcceptReady, AcceptTx, EngagementType
  <2> QED BY <2>1 DEF ChainDoes, PaysWeeks, Standing
<1>3. CASE CancelReady /\ CancelTx
  BY <1>1, <1>3 DEF CancelReady, CancelTx, EngagementType, ChainDoes, EndsWork, Standing
<1>4. CASE CloseReady /\ CloseTx
  BY <1>1, <1>4 DEF CloseReady, CloseTx, EngagementType, ChainDoes, EndsWork, Standing, Live
<1>5. CASE FundReady /\ FundTx
  <2> DEFINE k == engagement.next
  <2>1. k \in Nat /\ k < engagement.runs /\ engagement.runs <= Periods
    BY <1>5, Typed DEF FundReady, WorkInv
  <2>2. k \in Weeks
    BY <2>1, Typed, Constants DEF Weeks, WorkInv
  <2>3. cycles[k] = NoCycle
    BY <2>1, <2>2 DEF WorkInv, CyclesInv
  <2>4. /\ engagement.state \in Standing /\ engagement'.state = engagement.state /\ balance' = balance + Cost
        /\ cycles' = [cycles EXCEPT ![k].state = "Funded"]
    BY <1>1, <1>5 DEF FundReady, FundTx, Live, Standing, EngagementType
  <2> HIDE DEF k
  <2> QED BY <2>2, <2>3, <2>4 DEF ChainDoes, FundsWeek
<1>6. CASE NoticeReady /\ NoticeTx
  <2> DEFINE B == {k \in Open : k >= RunsAfterNotice}
  <2>1. /\ engagement.state = "Active" /\ engagement'.state = "Ending"
        /\ cycles' = [k \in Weeks |-> IF k \in B THEN [cycles[k] EXCEPT !.state = "Settled"] ELSE cycles[k]]
    BY <1>6 DEF NoticeReady, NoticeTx
  <2>2. \A k \in B : cycles[k].state \in {"Funded", "Disputed"}
    BY DEF Open
  <2> HIDE DEF B
  <2>3. \A k \in Weeks : cycles[k] \in CycleType
    BY <1>1
  <2>4. \A k \in Weeks : IF cycles[k].state \in {"Funded", "Disputed"} THEN cycles'[k].state # "none"
                         ELSE cycles'[k] = cycles[k]
    BY <2>1, <2>2, <2>3 DEF CycleType
  <2> QED BY <2>1, <2>4 DEF ChainDoes, PaysWeeks, Standing
<1> QED BY <1>2, <1>3, <1>4, <1>5, <1>6

\* What a call sends, and what happens without the backend, is one transaction on the chain or none.
LEMMA StepTransacts ==
    ASSUME EngInv, [Next]_vars
    PROVE  ChainDoes
<1>1. WorkInv
  BY DEF EngInv
<1>2. CASE UNCHANGED workVars
  BY <1>2 DEF ChainDoes
<1>3. ASSUME NEW w \in Actors, Send(w) PROVE ChainDoes
  <2>1. Transact(w) \/ FundOut(w)
    BY <1>3 DEF Send
  <2>2. \/ UNCHANGED workVars
        \/ OfferReady /\ OfferTx
        \/ AcceptReady /\ AcceptTx
        \/ CancelReady /\ CancelTx
        \/ NoticeReady /\ NoticeTx
        \/ CloseReady /\ CloseTx
        \/ FundReady /\ FundTx
        \/ \E k, u : \/ SubmitReady(k, u) /\ SubmitTx(k, u)
                     \/ ApproveReady(k, u) /\ ApproveTx(k, u)
                     \/ ObjectReady(k, u) /\ ObjectTx(k, u)
                     \/ SettleReady(k) /\ SettleTx(k)
                     \/ EscalateReady(k) /\ EscalateTx(k)
                     \/ FallbackReady(k) /\ RulingTx(k, u)
    BY <2>1, Zenon DEF Transact, FundOut, Tries, ChainSame
  <2>3. ASSUME NEW k, FallbackReady(k) PROVE Disputed(k)
    BY <2>3 DEF FallbackReady, Escalated
  <2> QED BY <1>1, <1>2, <2>2, <2>3, WeekTransacts, EngagementTransacts DEF ChainDoes
<1>4. CASE WithoutBackend
  <2>1. PICK k, bps : \/ SettleReady(k) /\ SettleTx(k)
                      \/ RuleReady(k) /\ RulingTx(k, bps)
    BY <1>4 DEF WithoutBackend
  <2>2. RuleReady(k) => Disputed(k)
    BY DEF RuleReady, Escalated
  <2> QED BY <1>1, <2>1, <2>2, WeekTransacts DEF ChainDoes
<1>5. CASE \E w \in Actors : Mark(w) \/ FindsBusy(w) \/ Write(w) \/ ReceiptLost(w)
  BY <1>2, <1>5 DEF Mark, FindsBusy, Write, ReceiptLost, ChainSame
<1>6. CASE \E w \in Callers : Begins(w)
  BY <1>2, <1>6 DEF Begins, Begin, Offer, BeginAccept, BeginCancel, BeginFund, BeginNotice, BeginApprove, BeginLog,
                   BeginObject, ChainSame
<1>7. CASE Decline \/ BeginPass \/ PassOn \/ Crash \/ Clock \/ UNCHANGED vars
  BY <1>2, <1>7 DEF Decline, BeginPass, PassOn, Crash, Clock, ChainSame, vars
<1> QED BY <1>3, <1>4, <1>5, <1>6, <1>7 DEF Next

\* Every step of the work is a step of its account, or leaves the account alone.
LEMMA StepIsAccount ==
    EngInv /\ [Next]_vars => [UNCHANGED workVars \/ Account!Next]_(Account!accountVars)
<1> SUFFICES ASSUME EngInv, [Next]_vars
             PROVE  UNCHANGED workVars \/ Account!Next
  OBVIOUS
<1>1. WorkInv /\ WorkInv' /\ Goes
  BY StepKeeps DEF EngInv
<1>2. ChainDoes
  BY StepTransacts
<1>3. CASE PaysWeeks \/ EndsWork
  BY <1>1, <1>3, PaymentIsAccount, EndingIsAccount DEF Account!Next
<1>4. CASE FundsWeek
  BY <1>1, <1>4, FundingIsAccount DEF Account!Next
<1>5. CASE OfferReady /\ OfferTx
  BY <1>1, <1>5, OpeningIsAccount DEF Account!Next
<1> QED BY <1>2, <1>3, <1>4, <1>5 DEF ChainDoes

\* Whatever the two people, the runner and the reviewer do, and whatever is lost or cut short, the work's money
\* behaves as the account of the settlement base: fees rounded week by week and part by part stay within the
\* rate on all that was put in, and work closes only once everything has left.
THEOREM WorkImplementsAccount == Spec => WorkIsAccount
<1>1. Init => Account!Init
  <2> SUFFICES ASSUME Init PROVE Account!Init
    OBVIOUS
  <2>1. WorkInv /\ engagement.state = "None"
    BY InitKeeps DEF EngInv, Init, WorkInit
  <2> QED BY <2>1, NothingYet DEF Account!Init
<1> QED BY <1>1, StepIsAccount, EngagementsKept, PTL DEF Spec, WorkIsAccount
=============================================================================
