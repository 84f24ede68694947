---------------------------- MODULE TradeFinance ----------------------------
(***************************************************************************)
(* KarwanTradeFinance over the stake vault and one escrow family: a        *)
(* financier advances money against a funded deal, the seller's signed     *)
(* assignment makes the escrow repay the financier first, and the seller's *)
(* stake is reserved for the rest.  The escrow's deals appear as the       *)
(* contract sees them, through receivableOf and assignmentOf.  A line's id *)
(* is the hash of its terms, so an id has its terms from the start.        *)
(***************************************************************************)
EXTENDS StakeVault

CONSTANTS
    Finance,      \* this contract, a family of the hub
    Escrow,       \* the escrow family the deals are in
    Deals,
    Lines,        \* line ids, which the vault knows as refs
    TermsOf,      \* per line: deal, financier, advance, repay and stake
    SellerOf,     \* per deal: the seller's wallet
    Size,         \* what a deal owes its seller when it is accepted
    BPS, MinStakeBps,
    Longstop, SettleWindow,
    MaxHorizon    \* how far ahead an escrow may set a deal's horizon

LineTerms == [deal : Deals, financier : Users, advance : Nat, repay : Nat, stake : Nat]

ASSUME FinanceAssumption ==
    /\ {Finance, Escrow} \subseteq Families /\ Finance # Escrow
    /\ Lines \subseteq Refs /\ None \notin Lines
    /\ TermsOf \in [Lines -> LineTerms] /\ SellerOf \in [Deals -> Users]
    /\ {Size, BPS, MinStakeBps, Longstop, SettleWindow, MaxHorizon} \subseteq Nat
    /\ MaxHorizon + Longstop + SettleWindow <= MaxTerm

VARIABLES
    line,         \* per line: "None", "OPEN", "REPAID", "DEFAULTED" or "WAIVED"
    lineOfSeat,   \* per deal, which has one seller: the latest line on it
    deal          \* per deal: stage, unpaid, horizon, and the seller's assignment

lineVars == <<line, lineOfSeat>>
vars == <<vaultVars, lineVars, deal>>

Key(l) == <<Finance, l>>
DealOf(l) == deal[TermsOf[l].deal]
Seller(l) == SellerOf[TermsOf[l].deal]
Ends == {"REPAID", "DEFAULTED", "WAIVED"}
Expiry(horizon) == horizon + Longstop + SettleWindow

-----------------------------------------------------------------------------
(***************************************************************************)
(* The escrow's side: an accepted, fully funded deal pays its seller in    *)
(* parts, may be disputed, ends, and moves its horizon later.              *)
(***************************************************************************)
StillOpen(d) == deal[d].stage # "Ended"

\* payTo, as an assignee sees it: first in line, up to what is left of the assignment.
DealPays(d, x) ==
    /\ StillOpen(d) /\ x <= deal[d].unpaid
    /\ deal' = [deal EXCEPT ![d].unpaid = @ - x,
                            ![d].paid = @ + AtMost(x, deal[d].amount - deal[d].paid)]
    /\ UNCHANGED <<vaultVars, lineVars>>

DealMoves(d, stage) ==
    /\ StillOpen(d) /\ stage # deal[d].stage
    /\ deal' = [deal EXCEPT ![d].stage = stage]
    /\ UNCHANGED <<vaultVars, lineVars>>

DealExtends(d, horizon) ==
    /\ StillOpen(d) /\ horizon > deal[d].horizon /\ horizon <= now + MaxHorizon
    /\ deal' = [deal EXCEPT ![d].horizon = horizon]
    /\ UNCHANGED <<vaultVars, lineVars>>

Unassigned(d) == deal[d].assignee = None
Assigned(d, u, x) == [deal EXCEPT ![d].assignee = u, ![d].amount = x, ![d].paid = 0]

\* assignPayout called by the seller, for someone Trade finance knows nothing of.
SellerAssigns(d, u, x) ==
    /\ StillOpen(d) /\ Unassigned(d) /\ u # SellerOf[d] /\ x > 0
    /\ deal' = Assigned(d, u, x)
    /\ UNCHANGED <<vaultVars, lineVars>>

ReleaseAssignment(d) ==
    /\ ~Unassigned(d)
    /\ deal' = Assigned(d, None, 0)
    /\ UNCHANGED <<vaultVars, lineVars>>

-----------------------------------------------------------------------------
(***************************************************************************)
(* Lines.  Each step is one transaction: the vault's calls are part of it. *)
(***************************************************************************)

Outlasts(l, until) == until >= Expiry(DealOf(l).horizon)

Acceptable(t) ==
    /\ deal[t.deal].stage = "Accepted"
    /\ t.advance # 0 /\ t.advance <= t.repay /\ t.repay <= deal[t.deal].unpaid
    /\ t.stake * BPS >= t.advance * MinStakeBps

\* The seat's latest line, which a new one waives if it is still open.
Earlier(l) == lineOfSeat[TermsOf[l].deal]
Replaces(l) == Earlier(l) # None /\ line[Earlier(l)] = "OPEN"

\* assignPayout and reserve, over the vault's tables as an earlier line's release left them.
Opens(l, until, h, r, lines) ==
    LET t == TermsOf[l]
        p == PersonOf[Seller(l)]
    IN  /\ Escrow \in family /\ Acceptable(t) /\ Outlasts(l, until) /\ line[l] = "None"
        /\ Unassigned(t.deal) /\ t.financier # Seller(l)
        /\ Finance \in family /\ t.stake > 0 /\ InTerm(until) /\ Fresh(Key(l))
        /\ p # None /\ t.stake <= FreeOf(r, p)
        /\ line' = [lines EXCEPT ![l] = "OPEN"]
        /\ lineOfSeat' = [lineOfSeat EXCEPT ![t.deal] = l]
        /\ deal' = Assigned(t.deal, t.financier, t.repay)
        /\ used' = used \cup {Key(l)}
        /\ reserved' = [r EXCEPT ![p] = @ + t.stake]
        /\ held' = Booked(h, Key(l), p, t.stake, t.financier, until)
        /\ UNCHANGED <<now, family, active, cooling, coolUntil, payVars>>

Open(l, until) ==
    IF Replaces(l)
    THEN LET k == Key(Earlier(l)) IN
         /\ Frees(k)
         /\ Opens(l, until, HeldFreed(held, k), ReservedFreed(reserved, held, k),
                  [line EXCEPT ![Earlier(l)] = "WAIVED"])
    ELSE Opens(l, until, held, reserved, line)

\* A line ends and whatever its stake still holds is freed.
Ended(l, state) ==
    /\ line' = [line EXCEPT ![l] = state]
    /\ Release(Key(l))
    /\ UNCHANGED <<lineOfSeat, deal>>

\* The line's own assignment is still the one on the deal.
Stands(l) == DealOf(l).assignee = TermsOf[l].financier /\ DealOf(l).amount = TermsOf[l].repay

\* Slip: what the escrow already repaid is not deducted.
SlipShortfall(l) == TermsOf[l].repay
Shortfall(l) == TermsOf[l].repay - DealOf(l).paid

\* A shortfall is slashed and the rest of the stake freed, in one transaction.
CanSlashThenRelease(l) ==
    LET r == held[Key(l)]
    IN  r.amount <= reserved[r.owner] /\ AtMost(Shortfall(l), r.amount) <= active[r.owner]

SlashThenRelease(l) ==
    LET r == held[Key(l)]
        paid == AtMost(Shortfall(l), r.amount)
    IN  /\ CanSlashThenRelease(l)
        /\ held' = HeldFreed(held, Key(l)) /\ reserved' = ReservedFreed(reserved, held, Key(l))
        /\ active' = [active EXCEPT ![r.owner] = @ - paid]
        /\ Deliver(r.beneficiary, paid)
        /\ UNCHANGED <<now, family, cooling, coolUntil, used>>

\* Slip: the slash is asked for without looking whether the reservation stands.
SlipCanDefault(l) == Slashable(Key(l)) /\ CanSlashThenRelease(l)
\* What the vault asks of a default: only a reservation that stands is slashed.
CanDefault(l) == IF Slashable(Key(l)) THEN CanSlashThenRelease(l) ELSE Frees(Key(l))

Defaults(l) ==
    /\ CanDefault(l)
    /\ IF Slashable(Key(l))
       THEN SlashThenRelease(l) /\ line' = [line EXCEPT ![l] = "DEFAULTED"] /\ UNCHANGED <<lineOfSeat, deal>>
       ELSE Ended(l, "DEFAULTED")

\* settle: anyone, once the deal has ended.
Settle(l) ==
    /\ line[l] = "OPEN" /\ ~StillOpen(TermsOf[l].deal)
    /\ \/ ~Stands(l) /\ Ended(l, "WAIVED")
       \/ Stands(l) /\ Shortfall(l) <= 0 /\ Ended(l, "REPAID")
       \/ Stands(l) /\ Shortfall(l) > 0 /\ Defaults(l)

Waive(l) == line[l] = "OPEN" /\ Ended(l, "WAIVED")

KeepStake(l) ==
    /\ line[l] = "OPEN"
    /\ Extend(Key(l), Expiry(DealOf(l).horizon))
    /\ UNCHANGED <<lineVars, deal>>

-----------------------------------------------------------------------------
Init ==
    /\ VaultInit
    /\ line = [l \in Lines |-> "None"] /\ lineOfSeat = [d \in Deals |-> None]
    /\ deal = [d \in Deals |-> [stage |-> "Accepted", unpaid |-> Size, horizon |-> MaxHorizon,
                                assignee |-> None, amount |-> 0, paid |-> 0]]

LineStep ==
    \E l \in Lines :
        \/ \E until \in now + 1..now + MaxTerm : Open(l, until)
        \/ Settle(l) \/ Waive(l) \/ KeepStake(l)

DealStep ==
    \E d \in Deals :
        \/ \E x \in 1..MaxAsk : DealPays(d, x)
        \/ \E stage \in {"Accepted", "Disputed", "Ended"} : DealMoves(d, stage)
        \/ \E horizon \in now + 1..now + MaxHorizon : DealExtends(d, horizon)
        \/ \E u \in Beneficiaries, x \in 1..MaxAsk : SellerAssigns(d, u, x)
        \/ ReleaseAssignment(d)

\* The vault's own callers: people, anyone freeing a stale reservation, other families under refs
\* of their own (a bound: keys never meet across families), the hub.
VaultStep ==
    /\ \/ PersonStep \/ PublicStep \/ Tick
       \/ \E f \in Families \ {Finance} : FamilyStep(f, Refs \ Lines)
       \/ \E f \in Families : RevokeFamily(f)
    /\ UNCHANGED <<lineVars, deal>>

Next == LineStep \/ DealStep \/ VaultStep

Spec == Init /\ [][Next]_vars

-----------------------------------------------------------------------------
(***************************************************************************)
(* Properties.                                                             *)
(***************************************************************************)
DealView == [stage : {"Accepted", "Disputed", "Ended"}, unpaid : Nat, horizon : Nat,
             assignee : Users \cup {None}, amount : Nat, paid : Nat]

\* Every variable has its type.
TypeOK ==
    /\ VaultTypeOK
    /\ line \in [Lines -> {"None", "OPEN"} \cup Ends]
    /\ lineOfSeat \in [Deals -> Lines \cup {None}]
    /\ deal \in [Deals -> DealView]

\* An open line's stake is reserved whole, for its financier alone, until it expires or Trade finance
\* itself is revoked: no other deal, withdrawal or family of the same person takes it first.
OpenLineIsBacked ==
    \A l \in Lines : line[l] = "OPEN" =>
        LET r == held[Key(l)] IN
        \/ /\ r.active /\ r.owner = PersonOf[Seller(l)]
           /\ r.beneficiary = TermsOf[l].financier /\ r.amount = TermsOf[l].stake
        \/ now > r.expiresAt \/ Finance \notin family

\* A line that ended holds nobody's stake, a deal carries at most one open line, and it is the one
\* the seat remembers, whichever way the earlier ones ended.
EndedLinesFreeStake ==
    \A l \in Lines :
        /\ line[l] \in Ends \cup {"None"} => ~held[Key(l)].active
        /\ line[l] = "OPEN" => lineOfSeat[TermsOf[l].deal] = l

\* A person's stake is behind a line exactly while the line is open.
LinesHoldStake == OpenLineIsBacked /\ EndedLinesFreeStake

\* When a line defaults while its reservation stands, the financier gets the whole shortfall or the
\* whole stake, and never more than the shortfall; every other end of a line takes no stake at all.
DefaultIsCovered ==
    [][\A l \in Lines : line[l] = "OPEN" /\ line'[l] \in Ends =>
           LET p == PersonOf[Seller(l)]
               r == held[Key(l)]
               due == IF line'[l] = "DEFAULTED" /\ Finance \in family /\ r.active /\ now <= r.expiresAt
                      THEN AtMost(TermsOf[l].repay - DealOf(l).paid, TermsOf[l].stake) ELSE 0
           IN  /\ active[p] - active'[p] = due
               /\ (cash - cash') + (owed'[TermsOf[l].financier] - owed[TermsOf[l].financier]) = due]_vars

\* No line is stuck: once its deal has ended the vault refuses nothing that settling it asks for,
\* whatever became of its stake, and while its stake stands anyone can keep it for as long as the deal
\* may run.
LinesNeverJam ==
    \A l \in Lines : line[l] = "OPEN" =>
        /\ IF Stands(l) /\ Shortfall(l) > 0 THEN CanDefault(l) ELSE Frees(Key(l))
        /\ /\ held[Key(l)].active /\ now <= held[Key(l)].expiresAt
           /\ Expiry(DealOf(l).horizon) > held[Key(l)].expiresAt
           => CanExtend(Key(l), Expiry(DealOf(l).horizon))
=============================================================================
