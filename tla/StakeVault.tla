----------------------------- MODULE StakeVault -----------------------------
(***************************************************************************)
(* KarwanStakeVault: people stake to back their deals, and registered      *)
(* families reserve, slash and free that stake.  One asset is enough: no   *)
(* call touches the stakes of two.  A person's signature over the terms of *)
(* a reservation is the freedom to reserve on those terms, once; the rest  *)
(* of this module is what happens to the stake after that.                 *)
(***************************************************************************)
EXTENDS Integers, FiniteSets, Functions

CONSTANTS
    People,      \* identities
    Users,       \* addresses
    None,
    PersonOf,    \* the identity a wallet is bound to, None for an agent's or an unbound one
    Families,    \* contracts that may be registered as families
    Refs,        \* what a family reserves under
    Cooldown,    \* COOLDOWN
    MaxTerm,     \* MAX_TERM
    Beneficiaries,   \* bound: whom reservations may name
    MaxStake,    \* bound: the most a person stakes
    MaxAsk,      \* bound: the largest amount of one call
    MaxTime      \* bound: the last block time considered

ASSUME VaultAssumption ==
    /\ None \notin People \cup Users
    /\ IsFiniteSet(Families) /\ IsFiniteSet(Refs)   \* 160-bit addresses, 256-bit refs
    /\ PersonOf \in [Users -> People \cup {None}]
    /\ Beneficiaries \subseteq Users
    /\ {Cooldown, MaxTerm, MaxStake, MaxAsk, MaxTime} \subseteq Nat

VARIABLES
    now,         \* block.timestamp
    family,      \* the families hub.isFamily answers for
    active, reserved, cooling, coolUntil,   \* per person: _stakes
    held,        \* per family and ref: _reservations
    used,        \* reservationUsed
    cash,        \* the vault's balance of the token
    owed, owedTotal

stakeVars == <<active, reserved, cooling, coolUntil>>
payVars == <<cash, owed, owedTotal>>
vaultVars == <<now, family, stakeVars, held, used, payVars>>

Keys == Families \X Refs
NoReservation == [owner |-> None, active |-> FALSE, beneficiary |-> None, amount |-> 0, expiresAt |-> 0]

\* _free, of a table of what is reserved.
FreeOf(r, p) == active[p] - r[p] - cooling[p]

AtMost(x, y) == IF x < y THEN x ELSE y

-----------------------------------------------------------------------------
(***************************************************************************)
(* A person and their stake.                                               *)
(***************************************************************************)
Stake(u, x) ==
    /\ PersonOf[u] # None /\ x > 0
    /\ active' = [active EXCEPT ![PersonOf[u]] = @ + x]
    /\ cash' = cash + x
    /\ UNCHANGED <<now, family, reserved, cooling, coolUntil, held, used, owed, owedTotal>>

\* A new request restarts the cooldown of everything cooling.
RequestWithdraw(u, x) ==
    /\ PersonOf[u] # None /\ x > 0 /\ x <= FreeOf(reserved, PersonOf[u])
    /\ cooling' = [cooling EXCEPT ![PersonOf[u]] = @ + x]
    /\ coolUntil' = [coolUntil EXCEPT ![PersonOf[u]] = now + Cooldown]
    /\ UNCHANGED <<now, family, active, reserved, held, used, payVars>>

CancelWithdraw(u) ==
    /\ PersonOf[u] # None
    /\ cooling' = [cooling EXCEPT ![PersonOf[u]] = 0]
    /\ UNCHANGED <<now, family, active, reserved, coolUntil, held, used, payVars>>

\* Once it has cooled, and the transfer goes through or the call reverts.
Withdraw(u) ==
    LET p == PersonOf[u] IN
    /\ p # None /\ cooling[p] # 0 /\ now >= coolUntil[p]
    /\ cooling[p] <= active[p] /\ cooling[p] <= cash
    /\ cooling' = [cooling EXCEPT ![p] = 0]
    /\ active' = [active EXCEPT ![p] = @ - cooling[p]]
    /\ cash' = cash - cooling[p]
    /\ UNCHANGED <<now, family, reserved, coolUntil, held, used, owed, owedTotal>>

-----------------------------------------------------------------------------
(***************************************************************************)
(* Reservations.  TradeFinance makes several of these calls in one         *)
(* transaction, so the tables they leave are operators of their own.       *)
(***************************************************************************)
InTerm(until) == until > now /\ until <= now + MaxTerm

Booked(h, k, p, x, to, until) ==
    [h EXCEPT ![k] = [owner |-> p, active |-> TRUE, beneficiary |-> to, amount |-> x, expiresAt |-> until]]

\* _release, the reservation's side.
HeldFreed(h, k) == [h EXCEPT ![k].active = FALSE, ![k].amount = 0]

\* Slip: a freed reservation still counts as reserved.
SlipReservedFreed(r, h, k) == r
\* _release, the person's side: nothing to free is a no-op.
ReservedFreed(r, h, k) == IF h[k].active THEN [r EXCEPT ![h[k].owner] = @ - h[k].amount] ELSE r

Frees(k) == held[k].active => held[k].amount <= reserved[held[k].owner]

\* A ref reserves once, ever.
Fresh(k) == k \notin used

Reserve(k, u, x, to, until) ==
    LET p == PersonOf[u] IN
    /\ k[1] \in family /\ x > 0 /\ InTerm(until) /\ Fresh(k) /\ p # None /\ x <= FreeOf(reserved, p)
    /\ used' = used \cup {k}
    /\ reserved' = [reserved EXCEPT ![p] = @ + x]
    /\ held' = Booked(held, k, p, x, to, until)
    /\ UNCHANGED <<now, family, active, cooling, coolUntil, payVars>>

CanExtend(k, until) ==
    /\ held[k].active /\ now <= held[k].expiresAt
    /\ until > held[k].expiresAt /\ until <= now + MaxTerm

\* The reserving family moves the expiry later while it has not passed.
Extend(k, until) ==
    /\ CanExtend(k, until)
    /\ held' = [held EXCEPT ![k].expiresAt = until]
    /\ UNCHANGED <<now, family, stakeVars, used, payVars>>

\* _deliver: the beneficiary is paid, or credited when the token refuses the transfer.
Deliver(to, x) ==
    \/ x <= cash /\ cash' = cash - x /\ UNCHANGED <<owed, owedTotal>>
    \/ owed' = [owed EXCEPT ![to] = @ + x] /\ owedTotal' = owedTotal + x /\ UNCHANGED cash

\* Slip: an expired reservation can still be slashed.
SlipSlashable(k) == k[1] \in family /\ held[k].active
Slashable(k) == k[1] \in family /\ held[k].active /\ now <= held[k].expiresAt

\* Up to `x` of the reservation leaves the stake, to the one beneficiary it names.
Slash(k, x) ==
    LET r == held[k]
        paid == AtMost(x, r.amount)
    IN  /\ Slashable(k) /\ paid # 0
        /\ paid <= reserved[r.owner] /\ paid <= active[r.owner]
        /\ held' = [held EXCEPT ![k].amount = @ - paid, ![k].active = (r.amount # paid)]
        /\ reserved' = [reserved EXCEPT ![r.owner] = @ - paid]
        /\ active' = [active EXCEPT ![r.owner] = @ - paid]
        /\ Deliver(r.beneficiary, paid)
        /\ UNCHANGED <<now, family, cooling, coolUntil, used>>

Release(k) ==
    /\ Frees(k)
    /\ held' = HeldFreed(held, k) /\ reserved' = ReservedFreed(reserved, held, k)
    /\ UNCHANGED <<now, family, active, cooling, coolUntil, used, payVars>>

\* Slip: anyone may free a reservation at any time.
SlipStale(k) == held[k].active
Stale(k) == held[k].active /\ (now > held[k].expiresAt \/ k[1] \notin family)

\* Anyone, once the reservation expired or its family was revoked.
ReleaseStale(k) == Stale(k) /\ Release(k)

WithdrawOwed(u) ==
    /\ owed[u] # 0 /\ owed[u] <= owedTotal /\ owed[u] <= cash
    /\ owed' = [owed EXCEPT ![u] = 0]
    /\ owedTotal' = owedTotal - owed[u]
    /\ cash' = cash - owed[u]
    /\ UNCHANGED <<now, family, stakeVars, held, used>>

\* hub.revokeFamily, for good.
RevokeFamily(f) ==
    /\ family' = family \ {f}
    /\ UNCHANGED <<now, stakeVars, held, used, payVars>>

Tick ==
    /\ now < MaxTime
    /\ now' = now + 1
    /\ UNCHANGED <<family, stakeVars, held, used, payVars>>

-----------------------------------------------------------------------------
VaultInit ==
    /\ now = 0 /\ family = Families
    /\ active = [p \in People |-> 0] /\ reserved = [p \in People |-> 0]
    /\ cooling = [p \in People |-> 0] /\ coolUntil = [p \in People |-> 0]
    /\ held = [k \in Keys |-> NoReservation] /\ used = {}
    /\ cash = 0 /\ owed = [u \in Users |-> 0] /\ owedTotal = 0

PersonStep ==
    \E u \in Users :
        \/ \E x \in 1..MaxAsk :
               \/ Stake(u, x) /\ active'[PersonOf[u]] <= MaxStake
               \/ RequestWithdraw(u, x)
        \/ CancelWithdraw(u) \/ Withdraw(u) \/ WithdrawOwed(u)

\* What a registered family may ask, and what anyone may.
FamilyStep(f, rs) ==
    \E r \in rs :
        \/ \E u \in Users, to \in Beneficiaries, x \in 1..MaxAsk, until \in now + 1..now + MaxTerm :
               Reserve(<<f, r>>, u, x, to, until)
        \/ \E until \in now + 1..now + MaxTerm : Extend(<<f, r>>, until)
        \/ \E x \in 1..MaxAsk : Slash(<<f, r>>, x)
        \/ Release(<<f, r>>)

PublicStep == \E k \in Keys : ReleaseStale(k)

-----------------------------------------------------------------------------
(***************************************************************************)
(* Properties.                                                             *)
(***************************************************************************)
Reservation == [owner : People \cup {None}, active : BOOLEAN, beneficiary : Users \cup {None},
                amount : Nat, expiresAt : Nat]

\* Every variable of the vault has its type.
VaultTypeOK ==
    /\ now \in Nat /\ family \subseteq Families
    /\ active \in [People -> Nat] /\ reserved \in [People -> Nat]
    /\ cooling \in [People -> Nat] /\ coolUntil \in [People -> Nat]
    /\ held \in [Keys -> Reservation] /\ used \subseteq Keys
    /\ cash \in Nat /\ owed \in [Users -> Nat] /\ owedTotal \in Nat

\* Reserved and cooling stake are parts of the stake that never overlap, whatever order people and
\* families reserve, slash, cool and withdraw in; and a reservation that is not live holds nothing.
StakeCoversReservations ==
    /\ \A p \in People : reserved[p] + cooling[p] <= active[p]
    /\ \A k \in Keys : held[k].active <=> held[k].amount # 0
    /\ \A k \in Keys : held[k].active => k \in used /\ held[k].owner \in People /\ held[k].beneficiary \in Users

\* What the live reservations of a person come to, one entry per reservation.
LiveAmounts(p) == [k \in Keys |-> IF held[k].active /\ held[k].owner = p THEN held[k].amount ELSE 0]

\* The one number the vault keeps per person is the sum of the reservations it keeps apart, through
\* reserving, slashing part by part, freeing once or twice and replacing; so whatever is reserved can
\* be freed, by its family or, once stale, by anyone.
ReservationsAddUp ==
    /\ \A p \in People : reserved[p] = FoldFunctionOnSet(LAMBDA x, y : x + y, 0, LiveAmounts(p), Keys)
    /\ \A k \in Keys : Frees(k)

\* The vault's books of a person's stake: every reservation on it is covered and counted, once.
StakeBooksKept == StakeCoversReservations /\ ReservationsAddUp

\* Stake leaves a person only after the cooldown they asked for, or under a reservation of theirs
\* that has not expired, made by a family in good standing, which falls by as much.
StakeLeavesAsSigned ==
    [][\A p \in People : active'[p] < active[p] =>
           LET gone == active[p] - active'[p] IN
           \/ now >= coolUntil[p] /\ gone = cooling[p] /\ cooling'[p] = 0
           \/ \E k \in Keys : /\ held[k].active /\ held[k].owner = p /\ now <= held[k].expiresAt
                              /\ k[1] \in family /\ held'[k].amount + gone <= held[k].amount]_vaultVars
=============================================================================
