------------------------------ MODULE YieldPool ------------------------------
(***************************************************************************)
(* KarwanYieldPool: one asset parked by registered families, of which what *)
(* sits above a cash buffer is subscribed to a yield Teller.  The Teller   *)
(* is somebody else's contract: its prices move between any two calls and  *)
(* in the call that trades, it may refuse any trade, cap one, or give no   *)
(* quote at all.  Its trades round against the pool, as ERC-4626 asks.     *)
(***************************************************************************)
EXTENDS Integers, FiniteSets

CONSTANTS
    Families,
    BPS,
    MinMargin,     \* MIN_MARGIN
    Unit,          \* what a price is expressed in
    Quotes,        \* the Teller's states: bid and ask per share, and whether it quotes
    Settings,      \* buffers and cushions the owner may set
    Rooms,         \* what the Teller's maxDeposit may answer
    MaxCash,       \* bound: the most cash and shares the pool holds when money enters or is subscribed
    MaxParked      \* bound: the most one family parks

ASSUME PoolAssumption ==
    /\ IsFiniteSet(Families)
    /\ BPS \in Nat \ {0} /\ Unit \in Nat \ {0} /\ MinMargin \in Nat \ {0}
    /\ {MaxCash, MaxParked} \subseteq Nat /\ Rooms \subseteq Nat
    /\ Quotes \subseteq [bid : Nat \ {0}, ask : Nat \ {0}, answers : BOOLEAN]
    /\ Settings \subseteq [bufferBps : 0..BPS, bufferFloor : Nat, cushionBps : 0..BPS]

\* The margin is kept against the Teller's rounding, which is up to one share's price: it covers that.
ASSUME MarginAssumption == \A q \in Quotes : q.bid <= MinMargin * Unit

VARIABLES
    family,                       \* the families hub.isFamily answers for
    principalOf, totalPrincipal,  \* what families parked
    cash, shares,                 \* the pool's balances of the asset and of the Teller's share
    wired,                        \* whether a Teller is set
    stopped,
    setting,                      \* bufferBps, bufferFloor, cushionBps
    quote                         \* the Teller's state

parkVars == <<family, principalOf, totalPrincipal>>
poolVars == <<wired, stopped, setting>>
vars == <<parkVars, cash, shares, poolVars, quote>>

AtMost(x, y) == IF x < y THEN x ELSE y
ShareOf(amount, bps) == (amount * bps) \div BPS

-----------------------------------------------------------------------------
(***************************************************************************)
(* The Teller's quotes, and the pool's worth by them.                      *)
(***************************************************************************)
PreviewRedeem(s, q) == (s * q.bid) \div Unit
PreviewDeposit(a, q) == (a * Unit) \div q.ask
\* Slip: the shares for an amount are rounded down.
SlipPreviewWithdraw(a, q) == (a * Unit) \div q.bid
PreviewWithdraw(a, q) == (a * Unit + q.bid - 1) \div q.bid

\* value: shares without a quote count as nothing.
Value(c, s, q) == c + IF q.answers THEN PreviewRedeem(s, q) ELSE 0

\* Slip: the margin is allowed twice.
SlipAbandonable == shares = 0 \/ (quote.answers /\ PreviewRedeem(shares, quote) <= 2 * MinMargin)
\* _sharesWorth within the margin: shares without a quote are never abandoned.
Abandonable == shares = 0 \/ (quote.answers /\ PreviewRedeem(shares, quote) <= MinMargin)

BufferTarget ==
    LET byShare == ShareOf(totalPrincipal, setting.bufferBps)
    IN  IF byShare > setting.bufferFloor THEN byShare ELSE setting.bufferFloor
Cushion == ShareOf(totalPrincipal, setting.cushionBps)

\* _sharesFor: nothing without a quote, never more than the pool holds.
SharesFor(gap) == IF quote.answers THEN AtMost(PreviewWithdraw(gap, quote), shares) ELSE 0

\* What a redemption of `want` may leave: refused, or paid at the price the Teller moves to.
Kept == [cash |-> cash, shares |-> shares, quote |-> quote]
Redeemed(want, q) == [cash |-> cash + PreviewRedeem(want, q), shares |-> shares - want, quote |-> q]
Redemptions(want) == {Kept} \cup {Redeemed(want, q) : q \in IF want # 0 THEN Quotes ELSE {}}

Trades(r) == shares' = r.shares /\ quote' = r.quote

-----------------------------------------------------------------------------
(***************************************************************************)
(* Families park money and take it back.                                   *)
(***************************************************************************)
Deposit(f, x) ==
    /\ f \in family /\ x > 0
    /\ principalOf' = [principalOf EXCEPT ![f] = @ + x]
    /\ totalPrincipal' = totalPrincipal + x
    /\ cash' = cash + x
    /\ UNCHANGED <<family, shares, poolVars, quote>>

\* Exactly `x`, or nothing moves (Busy).
Leaves(r, x) == r.cash >= x /\ cash' = r.cash - x

Withdraw(f, x) ==
    /\ x > 0 /\ x <= principalOf[f] /\ x <= totalPrincipal
    /\ principalOf' = [principalOf EXCEPT ![f] = @ - x]
    /\ totalPrincipal' = totalPrincipal - x
    /\ \/ cash >= x /\ Leaves(Kept, x) /\ Trades(Kept)
       \/ /\ cash < x /\ wired /\ SharesFor(x - cash) # 0
          /\ \E r \in Redemptions(SharesFor(x - cash)) : Leaves(r, x) /\ Trades(r)
    /\ UNCHANGED <<family, poolVars>>

-----------------------------------------------------------------------------
(***************************************************************************)
(* rebalance: toward the buffer; a stopped pool redeems everything.        *)
(***************************************************************************)

\* What subscribing and redeeming at once would lose, by the Teller's own quotes.
EntryCost(a) ==
    LET back == PreviewRedeem(PreviewDeposit(a, quote), quote) IN IF back >= a THEN 0 ELSE a - back

\* What is above the buffer, up to the Teller's room.
Excess(room) == AtMost(cash - BufferTarget, room)
Spare == Value(cash, shares, quote) - totalPrincipal - MinMargin

\* Slip: the cost of entering is not counted.
SlipSubscribes(room) == IF Spare <= 0 THEN 0 ELSE Excess(room)
\* How much is subscribed: no more than the value above what is parked can pay for, and nothing
\* without a quote.
Subscribes(room) ==
    IF Spare <= 0 \/ ~quote.answers THEN 0
    ELSE IF EntryCost(Excess(room)) > Spare
         THEN (Excess(room) * Spare) \div EntryCost(Excess(room))
         ELSE Excess(room)

Subscribed(a, q) == [cash |-> cash - a, shares |-> shares + PreviewDeposit(a, q), quote |-> q]
Covers(r) == Value(r.cash, r.shares, r.quote) >= totalPrincipal

Subscribe(room) ==
    /\ ~stopped /\ cash > BufferTarget /\ Subscribes(room) # 0
    /\ \E q \in Quotes :
           LET r == Subscribed(Subscribes(room), q)
           IN  Covers(r) /\ cash' = r.cash /\ Trades(r)

RedeemsTo(want) == \E r \in Redemptions(want) : cash' = r.cash /\ Trades(r)

Rebalance ==
    /\ wired
    /\ \/ \E room \in Rooms : Subscribe(room)
       \/ ~stopped /\ cash < BufferTarget /\ shares # 0 /\ RedeemsTo(SharesFor(BufferTarget - cash))
       \/ stopped /\ shares # 0 /\ (RedeemsTo(shares) \/ RedeemsTo(shares \div 2))
    /\ UNCHANGED <<parkVars, poolVars>>

-----------------------------------------------------------------------------
(***************************************************************************)
(* sweepYield: value above the line goes to the fee recipient.             *)
(***************************************************************************)
YieldLine == totalPrincipal + Cushion
Above(r) == Value(r.cash, r.shares, r.quote) - YieldLine

\* Slip: the yield is not measured again after the redemption.
SlipSwept(r) == AtMost(Above(Kept), r.cash - BufferTarget)
\* What is swept once the redemption went as it went.
Swept(r) == AtMost(Above(r), r.cash - BufferTarget)

SweepYield ==
    /\ Above(Kept) > 0
    /\ \E r \in IF cash < BufferTarget + Above(Kept) /\ wired
                THEN Redemptions(SharesFor(BufferTarget + Above(Kept) - cash)) ELSE {Kept} :
           /\ Swept(r) > 0
           /\ cash' = r.cash - Swept(r) /\ Trades(r)
    /\ UNCHANGED <<parkVars, poolVars>>

-----------------------------------------------------------------------------
(***************************************************************************)
(* Everything else: value given, settings, and the Teller's own moves.     *)
(***************************************************************************)
Backstop(x) == x > 0 /\ cash' = cash + x /\ UNCHANGED <<parkVars, shares, poolVars, quote>>

\* A new Teller, or none: the shares of the old one are left behind.
SetTeller(w) ==
    /\ Abandonable
    /\ wired' = w /\ shares' = 0
    /\ UNCHANGED <<parkVars, cash, stopped, setting, quote>>

Stop == stopped' = TRUE /\ UNCHANGED <<parkVars, cash, shares, wired, setting, quote>>
Resume == stopped' = FALSE /\ UNCHANGED <<parkVars, cash, shares, wired, setting, quote>>
\* setBuffer and setCushion.
Configure(s) == setting' = s /\ UNCHANGED <<parkVars, cash, shares, wired, stopped, quote>>
RevokeFamily(f) == family' = family \ {f} /\ UNCHANGED <<principalOf, totalPrincipal, cash, shares, poolVars, quote>>
TellerMoves(q) == quote' = q /\ UNCHANGED <<parkVars, cash, shares, poolVars>>

Init ==
    /\ family = Families
    /\ principalOf = [f \in Families |-> 0] /\ totalPrincipal = 0
    /\ cash = 0 /\ shares = 0 /\ wired = FALSE /\ stopped = FALSE
    /\ setting \in Settings /\ quote \in Quotes

\* bound: the pool stays small; only prices take it further.
WithinBound == cash' + shares' <= MaxCash

Next ==
    \/ \E f \in Families, x \in 1..MaxParked :
           \/ Deposit(f, x) /\ principalOf'[f] <= MaxParked /\ WithinBound
           \/ Withdraw(f, x)
    \/ \E x \in 1..MaxCash : Backstop(x) /\ WithinBound
    \/ Rebalance /\ (shares' > shares => WithinBound)
    \/ SweepYield
    \/ \E w \in BOOLEAN : SetTeller(w)
    \/ Stop \/ Resume
    \/ \E s \in Settings : Configure(s)
    \/ \E f \in Families : RevokeFamily(f)
    \/ \E q \in Quotes : TellerMoves(q)

Spec == Init /\ [][Next]_vars

-----------------------------------------------------------------------------
(***************************************************************************)
(* Properties.                                                             *)
(***************************************************************************)

\* Every variable has its type.
TypeOK ==
    /\ family \subseteq Families
    /\ principalOf \in [Families -> Nat] /\ totalPrincipal \in Nat
    /\ cash \in Nat /\ shares \in Nat
    /\ wired \in BOOLEAN /\ stopped \in BOOLEAN /\ setting \in Settings /\ quote \in Quotes

\* What the pool is worth above what is parked.
Coverage == Value(cash, shares, quote) - totalPrincipal

\* Whatever the Teller pays and to whatever price it moves in the same call, a sweep leaves the
\* parked money and the cushion covered at that price, and the cash buffer whole.
SweepLeavesCovered ==
    [][SweepYield => Coverage' >= Cushion /\ cash' >= BufferTarget]_vars

\* A pool with its margin stays covered through any one call, as long as the price stands still:
\* rounding, entering and leaving the Teller, and changing it never cost more than the margin.
MarginAbsorbs ==
    [][Coverage >= MinMargin /\ quote' = quote /\ quote.answers => Coverage' >= 0]_vars

\* While the pool is covered and its Teller pays what it quotes, any family can take back all it
\* parked, buffer and rounding or not, stopped or not, revoked or not.
FamiliesCanLeave ==
    Coverage >= 0 /\ quote.answers =>
        \A f \in Families :
            LET x == principalOf[f] IN
            x # 0 /\ (cash >= x \/ wired) =>
                /\ x <= totalPrincipal
                /\ cash >= x \/ (SharesFor(x - cash) # 0 /\ Redeemed(SharesFor(x - cash), quote).cash >= x)

\* By a Teller that trades at its quotes, a subscription is never one that must be undone: rebalance
\* does not revert.
QuotedSubscriptionStands ==
    wired /\ ~stopped /\ cash > BufferTarget =>
        \A room \in Rooms : Subscribes(room) # 0 => Covers(Subscribed(Subscribes(room), quote))
=============================================================================
