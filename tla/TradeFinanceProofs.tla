------------------------- MODULE TradeFinanceProofs -------------------------
(***************************************************************************)
(* Theorems about the stake vault and the financing lines on it, for any   *)
(* number of people, families, lines and deals.  The inductive invariant   *)
(* is the conjunction of the types, the cover of every reservation by its  *)
(* owner's stake, and what an open and an ended line hold.  Two more are   *)
(* proved over it: what the vault keeps per person is the sum of that      *)
(* person's reservations, and no deal's horizon outruns what a reservation *)
(* may last; together they are why no line is ever stuck.                  *)
(***************************************************************************)
EXTENDS TradeFinance, FiniteSums, TLAPS

USE VaultAssumption, FinanceAssumption

VaultInv == VaultTypeOK /\ StakeCoversReservations

-----------------------------------------------------------------------------
(***************************************************************************)
(* The reservations a step rewrites, entry by entry.                       *)
(***************************************************************************)

\* Freeing a reservation empties it and leaves every other one, and who it was between, alone.
LEMMA FreedTable ==
    ASSUME NEW h \in [Keys -> Reservation], NEW k \in Keys
    PROVE  /\ HeldFreed(h, k) \in [Keys -> Reservation]
           /\ \A j \in Keys \ {k} : HeldFreed(h, k)[j] = h[j]
           /\ HeldFreed(h, k)[k].active = FALSE /\ HeldFreed(h, k)[k].amount = 0
           /\ HeldFreed(h, k)[k].owner = h[k].owner
           /\ HeldFreed(h, k)[k].beneficiary = h[k].beneficiary
           /\ HeldFreed(h, k)[k].expiresAt = h[k].expiresAt
<1> DEFINE h1 == [h EXCEPT ![k].active = FALSE]
           h2 == [h1 EXCEPT ![k].amount = 0]
<1>1. h1 \in [Keys -> Reservation] /\ h1[k] = [h[k] EXCEPT !.active = FALSE]
      /\ \A j \in Keys \ {k} : h1[j] = h[j]
  BY DEF Reservation
<1>2. h1[k].amount = h[k].amount /\ h1[k].active = FALSE /\ h1[k].owner = h[k].owner
      /\ h1[k].beneficiary = h[k].beneficiary /\ h1[k].expiresAt = h[k].expiresAt
  BY <1>1 DEF Reservation
<1> HIDE DEF h1
<1>3. h2 \in [Keys -> Reservation] /\ h2[k] = [h1[k] EXCEPT !.amount = 0]
      /\ \A j \in Keys \ {k} : h2[j] = h1[j]
  <2>1. h1 \in [Keys -> Reservation]
    BY <1>1
  <2>2. h2[k] = [h1[k] EXCEPT !.amount = 0] /\ \A j \in Keys \ {k} : h2[j] = h1[j]
    BY <2>1
  <2>3. [h1[k] EXCEPT !.amount = 0] \in Reservation
    BY <2>1 DEF Reservation
  <2> QED BY <2>1, <2>2, <2>3
<1>4. h2[k].amount = 0 /\ h2[k].active = h1[k].active /\ h2[k].owner = h1[k].owner
      /\ h2[k].beneficiary = h1[k].beneficiary /\ h2[k].expiresAt = h1[k].expiresAt
  BY <1>1, <1>3 DEF Reservation
<1>5. HeldFreed(h, k) = h2
  BY DEF HeldFreed, h1
<1> QED BY <1>1, <1>2, <1>3, <1>4, <1>5

LEMMA FreedHeld ==
    ASSUME VaultTypeOK, NEW k \in Keys, held' = HeldFreed(held, k)
    PROVE  /\ held' \in [Keys -> Reservation]
           /\ held'[k].active = FALSE /\ held'[k].amount = 0 /\ held'[k].expiresAt = held[k].expiresAt
           /\ \A j \in Keys \ {k} : held'[j] = held[j]
<1>1. held \in [Keys -> Reservation]
  BY DEF VaultTypeOK
<1>2. /\ HeldFreed(held, k) \in [Keys -> Reservation]
      /\ \A j \in Keys \ {k} : HeldFreed(held, k)[j] = held[j]
      /\ HeldFreed(held, k)[k].active = FALSE /\ HeldFreed(held, k)[k].amount = 0
      /\ HeldFreed(held, k)[k].expiresAt = held[k].expiresAt
  BY <1>1, FreedTable
<1> QED BY <1>2

\* The person's side of freeing: the reserved stake falls by what was still reserved.
LEMMA FreedStake ==
    ASSUME VaultInv, NEW k \in Keys, Frees(k)
    PROVE  /\ ReservedFreed(reserved, held, k) \in [People -> Nat]
           /\ \A p \in People : ReservedFreed(reserved, held, k)[p]
                  = IF held[k].active /\ held[k].owner = p THEN reserved[p] - held[k].amount ELSE reserved[p]
<1>1. CASE held[k].active
  <2>1. held[k].owner \in People /\ held[k].amount \in Nat /\ held[k].amount <= reserved[held[k].owner]
    BY <1>1 DEF VaultInv, VaultTypeOK, StakeCoversReservations, Frees, Reservation
  <2>2. reserved[held[k].owner] - held[k].amount \in Nat
    BY <2>1 DEF VaultInv, VaultTypeOK
  <2> QED BY <1>1, <2>1, <2>2 DEF ReservedFreed, VaultInv, VaultTypeOK
<1>2. CASE ~held[k].active
  BY <1>2 DEF ReservedFreed, VaultInv, VaultTypeOK
<1> QED BY <1>1, <1>2

-----------------------------------------------------------------------------
(***************************************************************************)
(* Every call of the vault keeps its types and its cover.                  *)
(***************************************************************************)

\* Freeing a reservation.
LEMMA ReleaseKeeps ==
    ASSUME VaultInv, NEW k \in Keys, Release(k)
    PROVE  VaultInv'
<1>1. held' \in [Keys -> Reservation] /\ reserved' \in [People -> Nat]
  BY FreedTable, FreedStake DEF Release, VaultInv, VaultTypeOK
<1>2. \A p \in People : reserved'[p] <= reserved[p]
  BY FreedStake DEF Release, VaultInv, VaultTypeOK, Reservation
<1>3. \A j \in Keys : (held'[j].active <=> held'[j].amount # 0)
                      /\ (held'[j].active => held[j].active /\ held'[j] = held[j])
  <2>2. /\ held'[k].active = FALSE /\ held'[k].amount = 0
        /\ \A j \in Keys \ {k} : held'[j] = held[j]
    BY FreedHeld DEF Release, VaultInv
  <2> QED BY <2>2 DEF VaultInv, StakeCoversReservations
<1> QED BY <1>1, <1>2, <1>3 DEF Release, VaultInv, VaultTypeOK, StakeCoversReservations, payVars

\* What a person does with their stake.
LEMMA PersonKeeps == VaultInv /\ PersonStep => VaultInv'
<1> SUFFICES ASSUME VaultInv, PersonStep PROVE VaultInv'
  OBVIOUS
<1> USE DEF VaultInv, VaultTypeOK, StakeCoversReservations
<1>1. ASSUME NEW u \in Users, NEW x \in 1..MaxAsk, Stake(u, x) PROVE VaultInv'
  BY <1>1 DEF Stake
<1>2. ASSUME NEW u \in Users, NEW x \in 1..MaxAsk, RequestWithdraw(u, x) PROVE VaultInv'
  BY <1>2 DEF RequestWithdraw, FreeOf, payVars
<1>3. ASSUME NEW u \in Users, CancelWithdraw(u) PROVE VaultInv'
  BY <1>3 DEF CancelWithdraw, payVars
<1>4. ASSUME NEW u \in Users, Withdraw(u) PROVE VaultInv'
  BY <1>4 DEF Withdraw
<1>5. ASSUME NEW u \in Users, WithdrawOwed(u) PROVE VaultInv'
  BY <1>5 DEF WithdrawOwed, stakeVars
<1> QED BY <1>1, <1>2, <1>3, <1>4, <1>5 DEF PersonStep

\* A reservation made over tables that already keep the cover.
LEMMA BookedTable ==
    ASSUME NEW h \in [Keys -> Reservation], NEW k \in Keys, NEW p \in People, NEW x \in Nat,
           NEW to \in Users, NEW until \in Nat
    PROVE  /\ Booked(h, k, p, x, to, until) \in [Keys -> Reservation]
           /\ Booked(h, k, p, x, to, until)[k] =
                [owner |-> p, active |-> TRUE, beneficiary |-> to, amount |-> x, expiresAt |-> until]
           /\ \A j \in Keys \ {k} : Booked(h, k, p, x, to, until)[j] = h[j]
BY DEF Booked, Reservation

\* Another family's calls.
LEMMA FamilyKeeps ==
    ASSUME VaultInv, NEW f \in Families, NEW rs \in SUBSET Refs, FamilyStep(f, rs)
    PROVE  VaultInv'
<1>1. ASSUME NEW k \in Keys, NEW u \in Users, NEW to \in Beneficiaries, NEW x \in 1..MaxAsk,
             NEW until \in now + 1..now + MaxTerm, Reserve(k, u, x, to, until)
      PROVE  VaultInv'
  <2> DEFINE p == PersonOf[u]
  <2>1. p \in People /\ to \in Users /\ until \in Nat /\ x \in Nat /\ x # 0
    BY <1>1 DEF Reserve, VaultInv, VaultTypeOK
  <2>2. held' = Booked(held, k, p, x, to, until) /\ held \in [Keys -> Reservation]
    BY <1>1 DEF Reserve, VaultInv, VaultTypeOK
  <2> HIDE DEF p
  <2>3. held' \in [Keys -> Reservation]
    BY <2>1, <2>2, BookedTable
  <2>4. \A j \in Keys : /\ held'[j].active <=> held'[j].amount # 0
                        /\ held'[j].active => j \in used' /\ held'[j].owner \in People /\ held'[j].beneficiary \in Users
    <3>1. /\ held'[k] = [owner |-> p, active |-> TRUE, beneficiary |-> to, amount |-> x, expiresAt |-> until]
          /\ \A j \in Keys \ {k} : held'[j] = held[j]
      BY <2>1, <2>2, BookedTable
    <3>2. used' = used \cup {k}
      BY <1>1 DEF Reserve
    <3> QED BY <2>1, <3>1, <3>2 DEF VaultInv, StakeCoversReservations
  <2>5. reserved' \in [People -> Nat] /\ \A q \in People : reserved'[q] + cooling[q] <= active[q]
    BY <1>1, <2>1 DEF Reserve, FreeOf, p, VaultInv, VaultTypeOK, StakeCoversReservations
  <2> QED BY <1>1, <2>3, <2>4, <2>5 DEF Reserve, VaultInv, VaultTypeOK, StakeCoversReservations, payVars
<1>2. ASSUME NEW k \in Keys, NEW until \in now + 1..now + MaxTerm, Extend(k, until) PROVE VaultInv'
  <2>1. held' \in [Keys -> Reservation] /\ \A j \in Keys : /\ held'[j].active = held[j].active
                                                           /\ held'[j].amount = held[j].amount
                                                           /\ held'[j].owner = held[j].owner
                                                           /\ held'[j].beneficiary = held[j].beneficiary
    BY <1>2 DEF Extend, VaultInv, VaultTypeOK, Reservation
  <2> QED BY <1>2, <2>1 DEF Extend, VaultInv, VaultTypeOK, StakeCoversReservations, payVars, stakeVars
<1>3. ASSUME NEW k \in Keys, NEW x \in 1..MaxAsk, Slash(k, x) PROVE VaultInv'
  <2> DEFINE r == held[k]
             paid == AtMost(x, r.amount)
             h1 == [held EXCEPT ![k].amount = @ - paid]
             left == (r.amount # paid)
  <2>1. /\ r \in Reservation /\ r.owner \in People /\ r.beneficiary \in Users /\ k \in used
        /\ paid \in Nat /\ paid # 0 /\ paid <= r.amount /\ r.amount \in Nat
        /\ paid <= reserved[r.owner] /\ paid <= active[r.owner]
    BY <1>3 DEF Slash, Slashable, AtMost, VaultInv, VaultTypeOK, StakeCoversReservations, Reservation
  <2>2. /\ h1 \in [Keys -> Reservation] /\ h1[k].amount = r.amount - paid /\ h1[k].owner = r.owner
        /\ h1[k].beneficiary = r.beneficiary /\ \A j \in Keys \ {k} : h1[j] = held[j]
    <3> HIDE DEF paid
    <3> QED BY <2>1 DEF VaultInv, VaultTypeOK, Reservation
  <2>3. held' = [h1 EXCEPT ![k].active = left] /\ left \in BOOLEAN
    BY <1>3 DEF Slash
  <2>9. left <=> h1[k].amount # 0
    BY <2>1, <2>2
  <2> HIDE DEF r, paid, h1, left
  <2>4. /\ held' \in [Keys -> Reservation] /\ held'[k].amount = h1[k].amount /\ held'[k].owner = h1[k].owner
        /\ held'[k].beneficiary = h1[k].beneficiary /\ held'[k].active = left
        /\ \A j \in Keys \ {k} : held'[j] = h1[j]
    BY <2>2, <2>3 DEF Reservation
  <2>5. \A j \in Keys : /\ held'[j].active <=> held'[j].amount # 0
                        /\ held'[j].active => j \in used /\ held'[j].owner \in People /\ held'[j].beneficiary \in Users
    BY <2>1, <2>2, <2>4, <2>9 DEF VaultInv, StakeCoversReservations
  <2>6. /\ reserved' = [reserved EXCEPT ![r.owner] = @ - paid]
        /\ active' = [active EXCEPT ![r.owner] = @ - paid]
        /\ Deliver(r.beneficiary, paid) /\ UNCHANGED <<now, family, cooling, coolUntil, used>>
    BY <1>3 DEF Slash, r, paid
  <2>7. /\ reserved' \in [People -> Nat] /\ active' \in [People -> Nat]
        /\ \A p \in People : reserved'[p] + cooling[p] <= active'[p]
    BY <2>1, <2>6 DEF VaultInv, VaultTypeOK, StakeCoversReservations
  <2>8. cash' \in Nat /\ owed' \in [Users -> Nat] /\ owedTotal' \in Nat
    BY <2>1, <2>6 DEF Deliver, VaultInv, VaultTypeOK
  <2> QED BY <2>4, <2>5, <2>6, <2>7, <2>8 DEF VaultInv, VaultTypeOK, StakeCoversReservations
<1>4. \A r \in rs : <<f, r>> \in Keys
  BY DEF Keys
<1> QED BY <1>1, <1>2, <1>3, <1>4, ReleaseKeeps DEF FamilyStep

-----------------------------------------------------------------------------
(***************************************************************************)
(* The inductive invariant of the composition.                             *)
(***************************************************************************)
PaidWithin == \A d \in Deals : deal[d].paid <= deal[d].amount
LineInv == OpenLineIsBacked /\ EndedLinesFreeStake
KnownSellers == \A l \in Lines : line[l] # "None" => PersonOf[Seller(l)] \in People
Inv == TypeOK /\ StakeCoversReservations /\ LineInv /\ PaidWithin /\ KnownSellers

LEMMA KeyFacts ==
    /\ \A l \in Lines : Key(l) \in Keys
    /\ \A l, m \in Lines : l # m => Key(l) # Key(m)
    /\ \A l \in Lines : TermsOf[l] \in LineTerms /\ TermsOf[l].deal \in Deals /\ TermsOf[l].financier \in Users
                        /\ Seller(l) \in Users
BY DEF Key, Keys, LineTerms, Seller

\* A new assignment, or none, is all that changes of the deals.
LEMMA AssignedDeals ==
    ASSUME deal \in [Deals -> DealView], NEW d \in Deals, NEW u \in Users \cup {None}, NEW x \in Nat
    PROVE  /\ Assigned(d, u, x) \in [Deals -> DealView]
           /\ Assigned(d, u, x)[d].paid = 0 /\ Assigned(d, u, x)[d].amount = x
           /\ \A e \in Deals \ {d} : Assigned(d, u, x)[e] = deal[e]
<1> DEFINE d1 == [deal EXCEPT ![d].assignee = u]
           d2 == [d1 EXCEPT ![d].amount = x]
           d3 == [d2 EXCEPT ![d].paid = 0]
<1>1. d1 \in [Deals -> DealView] /\ \A e \in Deals \ {d} : d1[e] = deal[e]
  BY DEF DealView
<1> HIDE DEF d1
<1>2. d2 \in [Deals -> DealView] /\ d2[d].amount = x /\ \A e \in Deals \ {d} : d2[e] = d1[e]
  BY <1>1 DEF DealView
<1> HIDE DEF d2
<1>3. d3 \in [Deals -> DealView] /\ d3[d].amount = d2[d].amount /\ d3[d].paid = 0
      /\ \A e \in Deals \ {d} : d3[e] = d2[e]
  <2>1. d2 \in [Deals -> DealView]
    BY <1>2
  <2>2. d3[d] = [d2[d] EXCEPT !.paid = 0] /\ \A e \in Deals \ {d} : d3[e] = d2[e]
    BY <2>1
  <2>3. [d2[d] EXCEPT !.paid = 0] \in DealView /\ [d2[d] EXCEPT !.paid = 0].amount = d2[d].amount
        /\ [d2[d] EXCEPT !.paid = 0].paid = 0
    BY <2>1 DEF DealView
  <2> QED BY <2>1, <2>2, <2>3
<1>4. Assigned(d, u, x) = d3
  BY DEF Assigned, d1, d2
<1> QED BY <1>1, <1>2, <1>3, <1>4

LEMMA AssignedPaid ==
    ASSUME deal \in [Deals -> DealView], PaidWithin, NEW d \in Deals, NEW u \in Users \cup {None}, NEW x \in Nat,
           deal' = Assigned(d, u, x)
    PROVE  deal' \in [Deals -> DealView] /\ PaidWithin'
<1>1. /\ deal' \in [Deals -> DealView] /\ deal'[d].paid = 0 /\ deal'[d].amount = x
      /\ \A e \in Deals \ {d} : deal'[e] = deal[e]
  BY AssignedDeals
<1>2. \A e \in Deals : deal'[e].paid <= deal'[e].amount
  BY <1>1 DEF PaidWithin
<1> QED BY <1>1, <1>2 DEF PaidWithin

\* What keeps the lines' invariant while no line changes: a line's reservation is untouched, or was
\* already anyone's to free.
LEMMA LinesKept ==
    ASSUME Inv, UNCHANGED lineVars, family' \subseteq family, now' \in Nat, now' >= now,
           held' \in [Keys -> Reservation],
           \A l \in Lines :
               \/ held'[Key(l)] = held[Key(l)]
               \/ /\ ~held'[Key(l)].active /\ held'[Key(l)].expiresAt = held[Key(l)].expiresAt
                  /\ now > held[Key(l)].expiresAt \/ Finance \notin family
    PROVE  LineInv'
<1>1. \A l \in Lines : held[Key(l)].expiresAt \in Nat /\ held'[Key(l)].expiresAt \in Nat /\ now \in Nat
  BY KeyFacts DEF Inv, TypeOK, VaultTypeOK, Reservation
<1>2. OpenLineIsBacked'
  <2> SUFFICES ASSUME NEW l \in Lines, line[l] = "OPEN"
               PROVE  \/ /\ held'[Key(l)].active /\ held'[Key(l)].owner = PersonOf[Seller(l)]
                         /\ held'[Key(l)].beneficiary = TermsOf[l].financier
                         /\ held'[Key(l)].amount = TermsOf[l].stake
                      \/ now' > held'[Key(l)].expiresAt \/ Finance \notin family'
    BY DEF OpenLineIsBacked, lineVars, Key, Seller
  <2>1. CASE held'[Key(l)] = held[Key(l)]
    BY <1>1, <2>1 DEF Inv, LineInv, OpenLineIsBacked
  <2>2. CASE held'[Key(l)] # held[Key(l)]
    BY <1>1, <2>2
  <2> QED BY <2>1, <2>2
<1>3. EndedLinesFreeStake'
  BY DEF Inv, LineInv, EndedLinesFreeStake, lineVars, Key
<1> QED BY <1>2, <1>3 DEF LineInv

-----------------------------------------------------------------------------
(***************************************************************************)
(* Every step keeps it.                                                    *)
(***************************************************************************)

\* The escrow's steps touch neither lines nor the vault.
LEMMA DealKeeps == Inv /\ DealStep => Inv' /\ UNCHANGED <<vaultVars, lineVars>>
<1> SUFFICES ASSUME Inv, DealStep PROVE Inv' /\ UNCHANGED <<vaultVars, lineVars>>
  OBVIOUS
<1>1. ASSUME UNCHANGED <<vaultVars, lineVars>>, deal' \in [Deals -> DealView], PaidWithin'
      PROVE  Inv'
  <2>1. UNCHANGED <<now, family, active, reserved, cooling, coolUntil, held, used, cash, owed, owedTotal>>
        /\ UNCHANGED <<line, lineOfSeat>>
    BY <1>1 DEF vaultVars, stakeVars, payVars, lineVars
  <2>2. VaultTypeOK' /\ StakeCoversReservations' /\ TypeOK'
    BY <1>1, <2>1 DEF Inv, TypeOK, VaultTypeOK, StakeCoversReservations
  <2>3. LineInv'
    BY <2>1 DEF Inv, LineInv, OpenLineIsBacked, EndedLinesFreeStake, Key, Seller
  <2>4. KnownSellers'
    BY <2>1 DEF Inv, KnownSellers, Seller
  <2> QED BY <1>1, <2>2, <2>3, <2>4 DEF Inv
<1>2. deal \in [Deals -> DealView] /\ PaidWithin /\ now \in Nat
  BY DEF Inv, TypeOK, VaultTypeOK
<1>3. ASSUME NEW d \in Deals, NEW x \in 1..MaxAsk, DealPays(d, x) PROVE Inv' /\ UNCHANGED <<vaultVars, lineVars>>
  <2> DEFINE cut == AtMost(x, deal[d].amount - deal[d].paid)
             d1 == [deal EXCEPT ![d].unpaid = @ - x]
  <2>1. deal[d].unpaid - x \in Nat /\ cut \in Nat /\ deal[d].paid + cut <= deal[d].amount
        /\ deal[d].amount \in Nat /\ deal[d].paid \in Nat
    BY <1>2, <1>3 DEF DealPays, AtMost, PaidWithin, DealView
  <2> HIDE DEF cut
  <2>2. d1 \in [Deals -> DealView] /\ \A e \in Deals : d1[e].paid = deal[e].paid /\ d1[e].amount = deal[e].amount
    BY <1>2, <2>1 DEF DealView
  <2>3. deal' = [d1 EXCEPT ![d].paid = @ + cut]
    BY <1>3 DEF DealPays, cut
  <2> HIDE DEF d1
  <2>4. deal' \in [Deals -> DealView] /\ \A e \in Deals : /\ deal'[e].amount = d1[e].amount
                                                          /\ deal'[e].paid = IF e = d THEN d1[e].paid + cut ELSE d1[e].paid
    BY <2>1, <2>2, <2>3 DEF DealView
  <2>5. PaidWithin'
    BY <1>2, <2>1, <2>2, <2>4 DEF PaidWithin
  <2> QED BY <1>1, <1>3, <2>4, <2>5 DEF DealPays
<1>4. ASSUME NEW d \in Deals, NEW stage \in {"Accepted", "Disputed", "Ended"}, DealMoves(d, stage)
      PROVE  Inv' /\ UNCHANGED <<vaultVars, lineVars>>
  <2>1. deal' \in [Deals -> DealView] /\ \A e \in Deals : deal'[e].paid = deal[e].paid /\ deal'[e].amount = deal[e].amount
    BY <1>2, <1>4 DEF DealMoves, DealView
  <2> QED BY <1>1, <1>2, <1>4, <2>1 DEF DealMoves, PaidWithin
<1>5. ASSUME NEW d \in Deals, NEW horizon \in now + 1..now + MaxHorizon, DealExtends(d, horizon)
      PROVE  Inv' /\ UNCHANGED <<vaultVars, lineVars>>
  <2>1. deal' \in [Deals -> DealView] /\ \A e \in Deals : deal'[e].paid = deal[e].paid /\ deal'[e].amount = deal[e].amount
    BY <1>2, <1>5 DEF DealExtends, DealView
  <2> QED BY <1>1, <1>2, <1>5, <2>1 DEF DealExtends, PaidWithin
<1>6. ASSUME NEW d \in Deals, NEW u \in Beneficiaries, NEW x \in 1..MaxAsk, SellerAssigns(d, u, x)
      PROVE  Inv' /\ UNCHANGED <<vaultVars, lineVars>>
  <2>1. deal' = Assigned(d, u, x) /\ u \in Users /\ x \in Nat
    BY <1>6 DEF SellerAssigns
  <2>2. deal' \in [Deals -> DealView] /\ PaidWithin'
    BY <1>2, <2>1, AssignedPaid
  <2> QED BY <1>1, <1>6, <2>2 DEF SellerAssigns
<1>7. ASSUME NEW d \in Deals, ReleaseAssignment(d) PROVE Inv' /\ UNCHANGED <<vaultVars, lineVars>>
  <2>1. deal' \in [Deals -> DealView] /\ PaidWithin'
    BY <1>2, <1>7, AssignedPaid DEF ReleaseAssignment
  <2> QED BY <1>1, <1>7, <2>1 DEF ReleaseAssignment
<1> QED BY <1>3, <1>4, <1>5, <1>6, <1>7 DEF DealStep

\* Nor do the vault's other callers reach a line's reservation before anyone may free it.
LEMMA VaultStepKeeps == Inv /\ VaultStep => Inv'
<1> SUFFICES ASSUME Inv, VaultStep PROVE Inv'
  OBVIOUS
<1>1. VaultInv /\ VaultTypeOK /\ held \in [Keys -> Reservation]
  BY DEF Inv, TypeOK, VaultInv, VaultTypeOK
<1>2. UNCHANGED lineVars /\ UNCHANGED deal /\ UNCHANGED <<line, lineOfSeat>>
  BY DEF VaultStep, lineVars
<1>3. VaultInv' /\ LineInv'
  <2>1. CASE PersonStep
    <3>1. VaultInv'
      BY <1>1, <2>1, PersonKeeps
    <3>2. UNCHANGED <<now, family, held>>
      BY <2>1 DEF PersonStep, Stake, RequestWithdraw, CancelWithdraw, Withdraw, WithdrawOwed
    <3>3. now \in Nat
      BY <1>1 DEF VaultTypeOK
    <3> QED BY <1>1, <1>2, <3>1, <3>2, <3>3, LinesKept
  <2>2. CASE PublicStep
    <3>1. PICK k \in Keys : Stale(k) /\ Release(k)
      BY <2>2 DEF PublicStep, ReleaseStale
    <3>2. VaultInv'
      BY <1>1, <3>1, ReleaseKeeps
    <3>3. /\ held' = HeldFreed(held, k) /\ UNCHANGED <<now, family>>
      BY <3>1 DEF Release
    <3>4. /\ held' \in [Keys -> Reservation] /\ held'[k].active = FALSE
          /\ held'[k].expiresAt = held[k].expiresAt
          /\ \A j \in Keys \ {k} : held'[j] = held[j]
      BY <1>1, <3>3, FreedHeld
    <3>5. ASSUME NEW l \in Lines
          PROVE  \/ held'[Key(l)] = held[Key(l)]
                 \/ /\ ~held'[Key(l)].active /\ held'[Key(l)].expiresAt = held[Key(l)].expiresAt
                    /\ now > held[Key(l)].expiresAt \/ Finance \notin family
      <4>1. CASE Key(l) = k
        BY <3>1, <3>4, <4>1 DEF Stale, Key
      <4>2. CASE Key(l) # k
        BY <3>4, <4>2, KeyFacts
      <4> QED BY <4>1, <4>2
    <3>6. now \in Nat
      BY <1>1 DEF VaultTypeOK
    <3>7. LineInv'
      BY <1>2, <3>3, <3>4, <3>5, <3>6, LinesKept
    <3> QED BY <3>2, <3>7
  <2>3. CASE Tick
    <3>1. now' \in Nat /\ now' >= now /\ UNCHANGED <<family, held, stakeVars, used, payVars>>
      BY <1>1, <2>3 DEF Tick, VaultTypeOK
    <3>2. VaultInv'
      BY <1>1, <3>1 DEF VaultInv, VaultTypeOK, StakeCoversReservations, stakeVars, payVars
    <3> QED BY <1>1, <1>2, <3>1, <3>2, LinesKept
  <2>4. ASSUME NEW f \in Families \ {Finance}, FamilyStep(f, Refs \ Lines) PROVE VaultInv' /\ LineInv'
    <3>1. VaultInv'
      BY <1>1, <2>4, FamilyKeeps
    <3>2. \A l \in Lines, r \in Refs : Key(l) # <<f, r>>
      BY <2>4 DEF Key
    <3>3. UNCHANGED <<now, family>> /\ \E r \in Refs : \A j \in Keys : j # <<f, r>> => held'[j] = held[j]
      <4>1. PICK r \in Refs \ Lines :
                \/ \E u \in Users, to \in Beneficiaries, x \in 1..MaxAsk, until \in now + 1..now + MaxTerm :
                       Reserve(<<f, r>>, u, x, to, until)
                \/ \E until \in now + 1..now + MaxTerm : Extend(<<f, r>>, until)
                \/ \E x \in 1..MaxAsk : Slash(<<f, r>>, x)
                \/ Release(<<f, r>>)
        BY <2>4 DEF FamilyStep
      <4>2. UNCHANGED <<now, family>> /\ \A j \in Keys : j # <<f, r>> => held'[j] = held[j]
        BY <1>1, <4>1 DEF Reserve, Booked, Extend, Slash, Release, HeldFreed
      <4> QED BY <4>2
    <3>4. held' \in [Keys -> Reservation] /\ now \in Nat
      BY <1>1, <3>1 DEF VaultInv, VaultTypeOK
    <3>5. \A l \in Lines : held'[Key(l)] = held[Key(l)]
      BY <3>2, <3>3, KeyFacts
    <3> QED BY <1>2, <3>1, <3>3, <3>4, <3>5, LinesKept
  <2>5. ASSUME NEW f \in Families, RevokeFamily(f) PROVE VaultInv' /\ LineInv'
    <3>1. family' \subseteq family /\ UNCHANGED <<now, held, stakeVars, used, payVars>>
      BY <2>5 DEF RevokeFamily
    <3>2. VaultInv'
      BY <1>1, <3>1 DEF VaultInv, VaultTypeOK, StakeCoversReservations, stakeVars, payVars
    <3>3. now \in Nat
      BY <1>1 DEF VaultTypeOK
    <3> QED BY <1>1, <1>2, <3>1, <3>2, <3>3, LinesKept
  <2> QED BY <2>1, <2>2, <2>3, <2>4, <2>5 DEF VaultStep
<1> QED BY <1>2, <1>3 DEF Inv, TypeOK, VaultInv, PaidWithin, KnownSellers, Seller

\* A line that ends: its stake is free, every other line's reservation is untouched.
LEMMA EndsFree ==
    ASSUME Inv, NEW l \in Lines, NEW state \in Ends, line[l] = "OPEN", VaultInv',
           held' = HeldFreed(held, Key(l)), line' = [line EXCEPT ![l] = state],
           UNCHANGED <<now, family, lineOfSeat, deal>>
    PROVE  Inv'
<1>1. /\ held'[Key(l)].active = FALSE
      /\ \A m \in Lines \ {l} : held'[Key(m)] = held[Key(m)]
  <2>1. VaultTypeOK /\ Key(l) \in Keys
    BY KeyFacts DEF Inv, TypeOK
  <2> QED BY <2>1, FreedHeld, KeyFacts
<1>2. line' \in [Lines -> {"None", "OPEN"} \cup Ends] /\ line'[l] # "OPEN"
      /\ \A m \in Lines \ {l} : line'[m] = line[m]
  BY DEF Inv, TypeOK, Ends
<1>3. OpenLineIsBacked'
  BY <1>1, <1>2 DEF Inv, LineInv, OpenLineIsBacked, Key, Seller
<1>4. EndedLinesFreeStake'
  BY <1>1, <1>2 DEF Inv, LineInv, EndedLinesFreeStake, Key
<1> QED BY <1>2, <1>3, <1>4 DEF Inv, TypeOK, VaultInv, LineInv, PaidWithin, KnownSellers, Seller

\* Ending a line without a slash.
LEMMA EndedKeeps ==
    ASSUME Inv, NEW l \in Lines, NEW state \in Ends, line[l] = "OPEN", Ended(l, state)
    PROVE  Inv' /\ UNCHANGED <<active, cash, owed>> /\ line' = [line EXCEPT ![l] = state]
<1>1. VaultInv'
  BY ReleaseKeeps, KeyFacts DEF Ended, Inv, TypeOK, VaultInv
<1> QED BY <1>1, EndsFree DEF Ended, Release, payVars

\* What a line that stands and is slashed finds: its own reservation, whole.
LEMMA StandingLine ==
    ASSUME Inv, NEW l \in Lines, line[l] = "OPEN", Slashable(Key(l)), Shortfall(l) > 0
    PROVE  /\ held[Key(l)].active /\ held[Key(l)].owner = PersonOf[Seller(l)] /\ held[Key(l)].owner \in People
           /\ held[Key(l)].beneficiary = TermsOf[l].financier
           /\ held[Key(l)].amount = TermsOf[l].stake /\ held[Key(l)].amount \in Nat
           /\ AtMost(Shortfall(l), held[Key(l)].amount) \in Nat
           /\ AtMost(Shortfall(l), held[Key(l)].amount) <= held[Key(l)].amount
<1>1. held[Key(l)] \in Reservation /\ Finance \in family /\ held[Key(l)].active
      /\ now <= held[Key(l)].expiresAt /\ now \in Nat
  BY KeyFacts DEF Inv, TypeOK, VaultTypeOK, Slashable, Key
<1>2. held[Key(l)].expiresAt \in Nat /\ held[Key(l)].amount \in Nat
  BY <1>1 DEF Reservation
<1>3. ~(now > held[Key(l)].expiresAt)
  BY <1>1, <1>2
<1>4. /\ held[Key(l)].owner = PersonOf[Seller(l)]
      /\ held[Key(l)].beneficiary = TermsOf[l].financier /\ held[Key(l)].amount = TermsOf[l].stake
  BY <1>1, <1>3 DEF Inv, LineInv, OpenLineIsBacked
<1>5. held[Key(l)].owner \in People
  BY <1>1, KeyFacts DEF Inv, StakeCoversReservations
<1>6. Shortfall(l) \in Nat
  BY KeyFacts DEF Shortfall, DealOf, Inv, TypeOK, DealView, LineTerms
<1> QED BY <1>1, <1>2, <1>4, <1>5, <1>6 DEF AtMost

\* Ending a line with one.
LEMMA SlashedKeeps ==
    ASSUME Inv, NEW l \in Lines, line[l] = "OPEN", Slashable(Key(l)), Shortfall(l) > 0,
           SlashThenRelease(l), line' = [line EXCEPT ![l] = "DEFAULTED"], UNCHANGED <<lineOfSeat, deal>>
    PROVE  Inv'
<1> DEFINE r == held[Key(l)]
           paid == AtMost(Shortfall(l), r.amount)
<1>1. VaultInv /\ Key(l) \in Keys
  BY KeyFacts DEF Inv, TypeOK, VaultInv
<1>2. Frees(Key(l)) /\ paid \in Nat /\ paid <= r.amount /\ r.owner \in People /\ r.active
      /\ r.beneficiary \in Users /\ r.amount \in Nat /\ paid <= active[r.owner] /\ r.amount <= reserved[r.owner]
  BY StandingLine, KeyFacts DEF SlashThenRelease, CanSlashThenRelease, Frees
<1>3. /\ held' = HeldFreed(held, Key(l)) /\ reserved' = ReservedFreed(reserved, held, Key(l))
      /\ active' = [active EXCEPT ![r.owner] = @ - paid]
      /\ Deliver(r.beneficiary, paid) /\ UNCHANGED <<now, family, cooling, coolUntil, used>>
  BY DEF SlashThenRelease
<1> HIDE DEF paid, r
<1>4. /\ held' \in [Keys -> Reservation]
      /\ \A j \in Keys : (held'[j].active <=> held'[j].amount # 0)
                         /\ (held'[j].active => held[j].active /\ held'[j] = held[j])
  <2>1. /\ held' \in [Keys -> Reservation] /\ held'[Key(l)].active = FALSE /\ held'[Key(l)].amount = 0
        /\ \A j \in Keys \ {Key(l)} : held'[j] = held[j]
    BY <1>1, <1>3, FreedHeld DEF VaultInv
  <2> QED BY <1>1, <2>1 DEF VaultInv, StakeCoversReservations
<1>5. /\ reserved' \in [People -> Nat] /\ active' \in [People -> Nat]
      /\ \A p \in People : reserved'[p] + cooling[p] <= active'[p]
  <2>1. /\ reserved' \in [People -> Nat]
        /\ \A p \in People : reserved'[p] = IF r.owner = p THEN reserved[p] - r.amount ELSE reserved[p]
    BY <1>1, <1>2, <1>3, FreedStake DEF r
  <2>2. /\ active' \in [People -> Nat]
        /\ \A p \in People : active'[p] = IF r.owner = p THEN active[p] - paid ELSE active[p]
    BY <1>1, <1>2, <1>3 DEF VaultInv, VaultTypeOK
  <2>3. ASSUME NEW p \in People PROVE reserved'[p] + cooling[p] <= active'[p]
    <3>1. reserved[p] + cooling[p] <= active[p] /\ reserved[p] \in Nat /\ cooling[p] \in Nat /\ active[p] \in Nat
      BY <1>1 DEF VaultInv, VaultTypeOK, StakeCoversReservations
    <3>2. CASE r.owner = p
      BY <1>2, <2>1, <2>2, <3>1, <3>2
    <3>3. CASE r.owner # p
      BY <2>1, <2>2, <3>1, <3>3
    <3> QED BY <3>2, <3>3
  <2> QED BY <2>1, <2>2, <2>3
<1>6. cash' \in Nat /\ owed' \in [Users -> Nat] /\ owedTotal' \in Nat
  BY <1>1, <1>2, <1>3 DEF Deliver, VaultInv, VaultTypeOK
<1>7. VaultInv'
  BY <1>1, <1>3, <1>4, <1>5, <1>6 DEF VaultInv, VaultTypeOK, StakeCoversReservations
<1> QED BY <1>3, <1>7, EndsFree DEF Ends

\* Opening a line over tables that keep the cover, when no other line is open on the deal.
LEMMA OpensKeeps ==
    ASSUME Inv, NEW l \in Lines, NEW until \in Nat,
           NEW h \in [Keys -> Reservation], NEW r \in [People -> Nat],
           NEW lines \in [Lines -> {"None", "OPEN"} \cup Ends],
           \A p \in People : r[p] + cooling[p] <= active[p],
           \A k \in Keys : h[k].active <=> h[k].amount # 0,
           \A k \in Keys : h[k].active => k \in used /\ h[k].owner \in People /\ h[k].beneficiary \in Users,
           \A m \in Lines \ {l} : lines[m] = "OPEN" =>
               line[m] = "OPEN" /\ h[Key(m)] = held[Key(m)] /\ TermsOf[m].deal # TermsOf[l].deal,
           \A m \in Lines \ {l} : lines[m] # "OPEN" => ~h[Key(m)].active,
           \A m \in Lines \ {l} : lines[m] # "None" => line[m] # "None",
           Opens(l, until, h, r, lines)
    PROVE  Inv' /\ UNCHANGED <<active, cash, owed>>
<1> DEFINE t == TermsOf[l]
           p == PersonOf[Seller(l)]
           new == [owner |-> p, active |-> TRUE, beneficiary |-> t.financier, amount |-> t.stake,
                   expiresAt |-> until]
<1>1. /\ p \in People /\ t.stake \in Nat /\ t.stake # 0 /\ t.financier \in Users /\ t.repay \in Nat
      /\ t.deal \in Deals /\ Key(l) \in Keys
  BY KeyFacts DEF Opens, LineTerms
<1>2. /\ line' = [lines EXCEPT ![l] = "OPEN"] /\ lineOfSeat' = [lineOfSeat EXCEPT ![t.deal] = l]
      /\ deal' = Assigned(t.deal, t.financier, t.repay) /\ used' = used \cup {Key(l)}
      /\ reserved' = [r EXCEPT ![p] = @ + t.stake] /\ t.stake <= active[p] - r[p] - cooling[p]
      /\ held' = Booked(h, Key(l), p, t.stake, t.financier, until)
      /\ UNCHANGED <<now, family, active, cooling, coolUntil, cash, owed, owedTotal>>
  BY DEF Opens, FreeOf, payVars
<1> HIDE DEF p, t
<1>3. held' \in [Keys -> Reservation] /\ held'[Key(l)] = new /\ \A k \in Keys \ {Key(l)} : held'[k] = h[k]
  <2>1. /\ Booked(h, Key(l), p, t.stake, t.financier, until) \in [Keys -> Reservation]
        /\ Booked(h, Key(l), p, t.stake, t.financier, until)[Key(l)] = new
        /\ \A k \in Keys \ {Key(l)} : Booked(h, Key(l), p, t.stake, t.financier, until)[k] = h[k]
    BY <1>1, BookedTable
  <2> QED BY <1>2, <2>1
<1>4. reserved' \in [People -> Nat] /\ \A q \in People : reserved'[q] + cooling[q] <= active[q]
  BY <1>1, <1>2 DEF Inv, TypeOK, VaultTypeOK
<1>5. VaultTypeOK' /\ StakeCoversReservations'
  <2>1. VaultTypeOK'
    BY <1>1, <1>2, <1>3, <1>4 DEF Inv, TypeOK, VaultTypeOK
  <2>2. \A k \in Keys : /\ held'[k].active <=> held'[k].amount # 0
                        /\ held'[k].active => k \in used' /\ held'[k].owner \in People /\ held'[k].beneficiary \in Users
    BY <1>1, <1>2, <1>3
  <2> QED BY <1>2, <1>4, <2>1, <2>2 DEF StakeCoversReservations
<1>6. /\ line' \in [Lines -> {"None", "OPEN"} \cup Ends] /\ line'[l] = "OPEN"
      /\ \A m \in Lines \ {l} : line'[m] = lines[m] /\ held'[Key(m)] = h[Key(m)]
  BY <1>2, <1>3, KeyFacts
<1>7. /\ lineOfSeat' \in [Deals -> Lines \cup {None}] /\ lineOfSeat'[t.deal] = l
      /\ \A d \in Deals \ {t.deal} : lineOfSeat'[d] = lineOfSeat[d]
  BY <1>1, <1>2 DEF Inv, TypeOK
<1>8. deal' \in [Deals -> DealView] /\ PaidWithin'
  BY <1>1, <1>2, AssignedPaid DEF Inv, TypeOK
<1>9. OpenLineIsBacked'
  <2> SUFFICES ASSUME NEW m \in Lines, line'[m] = "OPEN"
               PROVE  \/ /\ held'[Key(m)].active /\ held'[Key(m)].owner = PersonOf[Seller(m)]
                         /\ held'[Key(m)].beneficiary = TermsOf[m].financier
                         /\ held'[Key(m)].amount = TermsOf[m].stake
                      \/ now' > held'[Key(m)].expiresAt \/ Finance \notin family'
    BY DEF OpenLineIsBacked, Key, Seller
  <2>1. CASE m = l
    BY <1>3, <2>1 DEF p, t
  <2>2. CASE m # l
    BY <1>2, <1>6, <2>2 DEF Inv, LineInv, OpenLineIsBacked
  <2> QED BY <2>1, <2>2
<1>10. EndedLinesFreeStake'
  <2>1. \A m \in Lines : line'[m] \in Ends \cup {"None"} => ~held'[Key(m)].active
    BY <1>6 DEF Ends
  <2>2. ASSUME NEW m \in Lines, line'[m] = "OPEN" PROVE lineOfSeat'[TermsOf[m].deal] = m
    <3>1. CASE m = l
      BY <1>7, <3>1 DEF t
    <3>2. CASE m # l
      BY <1>6, <1>7, <2>2, <3>2, KeyFacts DEF t, Inv, LineInv, EndedLinesFreeStake
    <3> QED BY <3>1, <3>2
  <2> QED BY <2>1, <2>2 DEF EndedLinesFreeStake, Key
<1>11. KnownSellers'
  BY <1>1, <1>6 DEF p, Inv, KnownSellers, Seller
<1> QED BY <1>2, <1>5, <1>6, <1>7, <1>8, <1>9, <1>10, <1>11 DEF Inv, TypeOK, LineInv

\* Opening a line, over an earlier one or not.
LEMMA OpenKeeps ==
    ASSUME Inv, NEW l \in Lines, NEW until \in Nat, Open(l, until)
    PROVE  Inv' /\ UNCHANGED <<active, cash, owed>>
<1>1. /\ VaultInv /\ VaultTypeOK /\ held \in [Keys -> Reservation] /\ reserved \in [People -> Nat]
      /\ line \in [Lines -> {"None", "OPEN"} \cup Ends] /\ lineOfSeat \in [Deals -> Lines \cup {None}]
  BY DEF Inv, TypeOK, VaultInv, VaultTypeOK
<1>2. ASSUME NEW m \in Lines, line[m] = "OPEN", TermsOf[m].deal = TermsOf[l].deal
      PROVE  Replaces(l) /\ m = Earlier(l)
  BY <1>1, <1>2 DEF Inv, LineInv, EndedLinesFreeStake, Replaces, Earlier
<1>3. \A m \in Lines : line[m] # "OPEN" => ~held[Key(m)].active
  BY <1>1 DEF Inv, LineInv, EndedLinesFreeStake
<1>4. CASE ~Replaces(l)
  <2>1. Opens(l, until, held, reserved, line)
    BY <1>4 DEF Open
  <2>2. \A m \in Lines \ {l} : line[m] = "OPEN" => TermsOf[m].deal # TermsOf[l].deal
    BY <1>2, <1>4
  <2>3. /\ \A p \in People : reserved[p] + cooling[p] <= active[p]
        /\ \A k \in Keys : held[k].active <=> held[k].amount # 0
        /\ \A k \in Keys : held[k].active => k \in used /\ held[k].owner \in People /\ held[k].beneficiary \in Users
    BY <1>1 DEF VaultInv, StakeCoversReservations
  <2> QED BY <1>1, <1>3, <2>1, <2>2, <2>3, OpensKeeps
<1>5. CASE Replaces(l)
  <2> DEFINE e == Earlier(l)
             h == HeldFreed(held, Key(e))
             r == ReservedFreed(reserved, held, Key(e))
             lines == [line EXCEPT ![e] = "WAIVED"]
  <2>1. e \in Lines /\ Key(e) \in Keys /\ Frees(Key(e)) /\ Opens(l, until, h, r, lines)
    BY <1>1, <1>5, KeyFacts DEF Replaces, Earlier, Open
  <2>2. /\ h \in [Keys -> Reservation] /\ h[Key(e)].active = FALSE /\ h[Key(e)].amount = 0
        /\ \A j \in Keys \ {Key(e)} : h[j] = held[j]
    BY <1>1, <2>1, FreedTable
  <2>3. r \in [People -> Nat] /\ \A p \in People : r[p] <= reserved[p]
    BY <1>1, <2>1, FreedStake DEF Reservation
  <2>4. lines \in [Lines -> {"None", "OPEN"} \cup Ends] /\ lines[e] = "WAIVED"
        /\ \A m \in Lines \ {e} : lines[m] = line[m]
    BY <1>1, <2>1 DEF Ends
  <2> HIDE DEF h, r, lines
  <2>5. \A p \in People : r[p] + cooling[p] <= active[p]
    <3> SUFFICES ASSUME NEW p \in People PROVE r[p] + cooling[p] <= active[p]
      OBVIOUS
    <3>1. /\ reserved[p] + cooling[p] <= active[p]
          /\ reserved[p] \in Nat /\ cooling[p] \in Nat /\ active[p] \in Nat
      BY <1>1 DEF VaultInv, VaultTypeOK, StakeCoversReservations
    <3>2. r[p] \in Nat /\ r[p] <= reserved[p]
      BY <2>3
    <3> QED BY <3>1, <3>2
  <2>6. \A k \in Keys : /\ h[k].active <=> h[k].amount # 0
                        /\ h[k].active => k \in used /\ h[k].owner \in People /\ h[k].beneficiary \in Users
    BY <1>1, <2>1, <2>2 DEF VaultInv, StakeCoversReservations
  <2>7. \A m \in Lines \ {l} : lines[m] = "OPEN" =>
            line[m] = "OPEN" /\ h[Key(m)] = held[Key(m)] /\ TermsOf[m].deal # TermsOf[l].deal
    BY <1>2, <2>1, <2>2, <2>4, KeyFacts
  <2>8. \A m \in Lines \ {l} : lines[m] # "OPEN" => ~h[Key(m)].active
    BY <1>3, <2>1, <2>2, <2>4, KeyFacts
  <2>9. \A m \in Lines \ {l} : lines[m] # "None" => line[m] # "None"
    BY <1>5, <2>4 DEF Replaces
  <2>10. \A k \in Keys : h[k].active <=> h[k].amount # 0
    BY <2>6
  <2>11. \A k \in Keys : h[k].active => k \in used /\ h[k].owner \in People /\ h[k].beneficiary \in Users
    BY <2>6
  <2>12. h \in [Keys -> Reservation] /\ r \in [People -> Nat] /\ lines \in [Lines -> {"None", "OPEN"} \cup Ends]
         /\ Opens(l, until, h, r, lines)
    BY <2>1, <2>2, <2>3, <2>4
  <2> HIDE DEF e
  <2> QED BY <2>5, <2>7, <2>8, <2>9, <2>10, <2>11, <2>12, OpensKeeps
<1> QED BY <1>4, <1>5

\* A line's end: what leaves its seller's stake and reaches its financier.
Covered(l) ==
    LET p == PersonOf[Seller(l)]
        r == held[Key(l)]
        due == IF line'[l] = "DEFAULTED" /\ Finance \in family /\ r.active /\ now <= r.expiresAt
               THEN AtMost(TermsOf[l].repay - DealOf(l).paid, TermsOf[l].stake) ELSE 0
    IN  /\ active[p] - active'[p] = due
        /\ (cash - cash') + (owed'[TermsOf[l].financier] - owed[TermsOf[l].financier]) = due

\* A step that takes no stake and defaults no line covers every line that ends.
LEMMA CoveredIdle ==
    ASSUME Inv, UNCHANGED <<active, cash, owed>>, NEW l \in Lines,
           line'[l] # "DEFAULTED" \/ ~Slashable(Key(l)), PersonOf[Seller(l)] \in People
    PROVE  Covered(l)
<1>1. /\ active[PersonOf[Seller(l)]] \in Nat /\ cash \in Nat /\ owed[TermsOf[l].financier] \in Nat
  BY KeyFacts DEF Inv, TypeOK, VaultTypeOK
<1>2. ~(line'[l] = "DEFAULTED" /\ Finance \in family /\ held[Key(l)].active /\ now <= held[Key(l)].expiresAt)
  BY DEF Slashable, Key
<1> QED BY <1>1, <1>2 DEF Covered

\* What a step of the lines does to the invariant, to the stakes and to what financiers are paid.
LEMMA LineStepKeeps ==
    ASSUME Inv, LineStep
    PROVE  /\ Inv'
           /\ \A l \in Lines : line[l] = "OPEN" /\ line'[l] \in Ends => Covered(l)
<1> DEFINE Goal == Inv' /\ \A l \in Lines : line[l] = "OPEN" /\ line'[l] \in Ends => Covered(l)
<1>1. ASSUME NEW l \in Lines, NEW until \in now + 1..now + MaxTerm, Open(l, until) PROVE Goal
  <2>1. until \in Nat
    BY DEF Inv, TypeOK, VaultTypeOK
  <2>2. Inv' /\ UNCHANGED <<active, cash, owed>>
    BY <1>1, <2>1, OpenKeeps
  <2>3. ASSUME NEW m \in Lines, line[m] = "OPEN", line'[m] \in Ends PROVE line'[m] # "DEFAULTED"
    BY <1>1, <2>3 DEF Open, Opens, Ends, Inv, TypeOK
  <2>4. \A m \in Lines : line[m] = "OPEN" => PersonOf[Seller(m)] \in People
    BY DEF Inv, KnownSellers
  <2> QED BY <2>2, <2>3, <2>4, CoveredIdle
<1>2. ASSUME NEW l \in Lines, NEW state \in Ends, line[l] = "OPEN", Ended(l, state),
             state = "DEFAULTED" => ~Slashable(Key(l))
      PROVE  Goal
  <2>1. Inv' /\ UNCHANGED <<active, cash, owed>> /\ line' = [line EXCEPT ![l] = state]
    BY <1>2, EndedKeeps
  <2>2. ASSUME NEW m \in Lines, line[m] = "OPEN", line'[m] \in Ends
        PROVE  m = l /\ (line'[m] = "DEFAULTED" => ~Slashable(Key(m)))
    BY <1>2, <2>1, <2>2 DEF Ends, Inv, TypeOK
  <2>3. \A m \in Lines : line[m] = "OPEN" => PersonOf[Seller(m)] \in People
    BY DEF Inv, KnownSellers
  <2> QED BY <2>1, <2>2, <2>3, CoveredIdle
<1>3. ASSUME NEW l \in Lines, line[l] = "OPEN", Slashable(Key(l)), Shortfall(l) > 0, SlashThenRelease(l),
             line' = [line EXCEPT ![l] = "DEFAULTED"], UNCHANGED <<lineOfSeat, deal>>
      PROVE  Goal
  <2> DEFINE r == held[Key(l)]
             paid == AtMost(Shortfall(l), r.amount)
             p == PersonOf[Seller(l)]
             f == TermsOf[l].financier
  <2>1. Inv'
    BY <1>3, SlashedKeeps
  <2>2. /\ r.active /\ r.owner = p /\ p \in People /\ r.beneficiary = f /\ f \in Users
        /\ r.amount = TermsOf[l].stake /\ paid \in Nat /\ paid <= active[p]
        /\ Finance \in family /\ now <= r.expiresAt
    BY <1>3, StandingLine, KeyFacts DEF SlashThenRelease, CanSlashThenRelease, Slashable, Key
  <2>3. /\ active \in [People -> Nat] /\ cash \in Nat /\ owed \in [Users -> Nat] /\ owedTotal \in Nat
    BY DEF Inv, TypeOK, VaultTypeOK
  <2>4. active' = [active EXCEPT ![r.owner] = @ - paid] /\ Deliver(r.beneficiary, paid)
    BY <1>3 DEF SlashThenRelease
  <2>5. paid = AtMost(TermsOf[l].repay - DealOf(l).paid, TermsOf[l].stake)
    BY <2>2 DEF Shortfall
  <2> HIDE DEF paid, p, f, r
  <2>6. active[p] - active'[p] = paid
    BY <2>2, <2>3, <2>4
  <2>7. (cash - cash') + (owed'[f] - owed[f]) = paid
    <3>1. CASE cash' = cash - paid /\ UNCHANGED owed
      BY <2>2, <2>3, <3>1
    <3>2. CASE owed' = [owed EXCEPT ![f] = @ + paid] /\ UNCHANGED cash
      BY <2>2, <2>3, <3>2
    <3> QED BY <2>2, <2>4, <3>1, <3>2 DEF Deliver
  <2>8. line'[l] = "DEFAULTED"
    BY <1>3 DEF Inv, TypeOK
  <2>9. Covered(l)
    BY <2>2, <2>5, <2>6, <2>7, <2>8 DEF Covered, p, f, r
  <2>10. \A m \in Lines \ {l} : line'[m] = line[m]
    BY <1>3 DEF Inv, TypeOK
  <2> QED BY <2>1, <2>9, <2>10 DEF Ends
<1>4. ASSUME NEW l \in Lines, Settle(l) PROVE Goal
  <2>1. CASE Ended(l, "WAIVED")
    BY <1>2, <1>4, <2>1 DEF Settle, Ends
  <2>2. CASE Ended(l, "REPAID")
    BY <1>2, <1>4, <2>2 DEF Settle, Ends
  <2>3. CASE Shortfall(l) > 0 /\ Defaults(l)
    <3>1. CASE Slashable(Key(l))
      BY <1>3, <1>4, <2>3, <3>1 DEF Settle, Defaults
    <3>2. CASE ~Slashable(Key(l))
      BY <1>2, <1>4, <2>3, <3>2 DEF Settle, Defaults, Ends
    <3> QED BY <3>1, <3>2
  <2> QED BY <1>4, <2>1, <2>2, <2>3 DEF Settle
<1>5. ASSUME NEW l \in Lines, Waive(l) PROVE Goal
  BY <1>2, <1>5 DEF Waive, Ends
<1>6. ASSUME NEW l \in Lines, KeepStake(l) PROVE Goal
  <2> DEFINE k == Key(l)
             until == Expiry(DealOf(l).horizon)
  <2>1. /\ k \in Keys /\ held \in [Keys -> Reservation] /\ until \in Nat /\ VaultTypeOK
    BY KeyFacts DEF Inv, TypeOK, VaultTypeOK, DealOf, DealView, Expiry
  <2>2. /\ line[l] = "OPEN" /\ held' = [held EXCEPT ![k].expiresAt = until] /\ UNCHANGED <<lineVars, deal>>
        /\ UNCHANGED <<now, family, stakeVars, used, payVars>>
        /\ held[k].active /\ now <= held[k].expiresAt /\ until > held[k].expiresAt
    BY <1>6 DEF KeepStake, Extend, CanExtend
  <2> HIDE DEF k, until
  <2>3. held' \in [Keys -> Reservation] /\ \A j \in Keys : /\ held'[j].active = held[j].active
                                                           /\ held'[j].amount = held[j].amount
                                                           /\ held'[j].owner = held[j].owner
                                                           /\ held'[j].beneficiary = held[j].beneficiary
                                                           /\ j # k => held'[j] = held[j]
    BY <2>1, <2>2 DEF Reservation
  <2>4. VaultTypeOK' /\ StakeCoversReservations'
    BY <2>1, <2>2, <2>3 DEF Inv, VaultTypeOK, StakeCoversReservations, stakeVars, payVars
  <2>5. OpenLineIsBacked'
    <3> SUFFICES ASSUME NEW m \in Lines, line[m] = "OPEN"
                 PROVE  \/ /\ held'[Key(m)].active /\ held'[Key(m)].owner = PersonOf[Seller(m)]
                           /\ held'[Key(m)].beneficiary = TermsOf[m].financier
                           /\ held'[Key(m)].amount = TermsOf[m].stake
                        \/ now' > held'[Key(m)].expiresAt \/ Finance \notin family'
      BY <2>2 DEF OpenLineIsBacked, lineVars, Key, Seller
    <3>1. \/ /\ held[Key(m)].active /\ held[Key(m)].owner = PersonOf[Seller(m)]
             /\ held[Key(m)].beneficiary = TermsOf[m].financier
             /\ held[Key(m)].amount = TermsOf[m].stake
          \/ now > held[Key(m)].expiresAt \/ Finance \notin family
      BY DEF Inv, LineInv, OpenLineIsBacked
    <3>2. CASE Key(m) = k
      <4>1. held[k].expiresAt \in Nat /\ now \in Nat
        BY <2>1 DEF VaultTypeOK, Reservation
      <4> QED BY <2>1, <2>2, <2>3, <3>1, <3>2, <4>1
    <3>3. CASE Key(m) # k
      BY <2>2, <2>3, <3>1, <3>3, KeyFacts
    <3> QED BY <3>2, <3>3
  <2>6. EndedLinesFreeStake'
    BY <2>2, <2>3, KeyFacts DEF Inv, LineInv, EndedLinesFreeStake, lineVars, Key
  <2>7. Inv'
    BY <2>2, <2>4, <2>5, <2>6 DEF Inv, TypeOK, LineInv, PaidWithin, KnownSellers, lineVars, Seller
  <2> QED BY <2>2, <2>7 DEF lineVars, Ends
<1> QED BY <1>1, <1>4, <1>5, <1>6 DEF LineStep

-----------------------------------------------------------------------------
(***************************************************************************)
(* The theorems.                                                           *)
(***************************************************************************)
LEMMA InitKeeps == Init => Inv
<1> SUFFICES ASSUME Init PROVE Inv
  OBVIOUS
<1>1. NoReservation \in Reservation
  BY DEF NoReservation, Reservation
<1>2. VaultTypeOK /\ StakeCoversReservations
  BY <1>1 DEF Init, VaultInit, VaultTypeOK, StakeCoversReservations, NoReservation
<1>3. TypeOK
  BY <1>2 DEF Init, TypeOK, DealView
<1>4. LineInv
  BY KeyFacts DEF Init, VaultInit, LineInv, OpenLineIsBacked, EndedLinesFreeStake, NoReservation, Ends
<1>5. PaidWithin /\ KnownSellers
  BY DEF Init, PaidWithin, KnownSellers
<1> QED BY <1>2, <1>3, <1>4, <1>5 DEF Inv

LEMMA StepKeeps == Inv /\ [Next]_vars => Inv'
<1> SUFFICES ASSUME Inv, [Next]_vars PROVE Inv'
  OBVIOUS
<1>1. CASE UNCHANGED vars
  BY <1>1 DEF vars, vaultVars, stakeVars, payVars, lineVars, Inv, TypeOK, VaultTypeOK,
              StakeCoversReservations, LineInv, OpenLineIsBacked, EndedLinesFreeStake, PaidWithin,
              KnownSellers, Key, Seller
<1> QED BY <1>1, LineStepKeeps, DealKeeps, VaultStepKeeps DEF Next

LEMMA InvHolds == Spec => []Inv
BY InitKeeps, StepKeeps, PTL DEF Spec

\* Every variable of the vault, the lines and the deals keeps its type.
THEOREM FinanceTypesHold == Spec => []TypeOK
<1>1. Inv => TypeOK
  BY DEF Inv
<1> QED BY <1>1, InvHolds, PTL

\* In any order of staking, cooling, reserving, slashing and freeing, reserved and cooling stake
\* stay within the stake, and every live reservation has an owner, a beneficiary and an amount.
THEOREM StakeCovers == Spec => []StakeCoversReservations
<1>1. Inv => StakeCoversReservations
  BY DEF Inv
<1> QED BY <1>1, InvHolds, PTL

\* An open line keeps its whole stake until it expires or Trade finance is revoked.
THEOREM OpenLinesAreBacked == Spec => []OpenLineIsBacked
<1>1. Inv => OpenLineIsBacked
  BY DEF Inv, LineInv
<1> QED BY <1>1, InvHolds, PTL

\* An ended line holds no stake, and a deal carries at most the open line its seat remembers.
THEOREM EndedLinesFree == Spec => []EndedLinesFreeStake
<1>1. Inv => EndedLinesFreeStake
  BY DEF Inv, LineInv
<1> QED BY <1>1, InvHolds, PTL

\* A person's stake is behind a line exactly while the line is open.
THEOREM LinesAlwaysHoldStake == Spec => []LinesHoldStake
<1>1. Inv => LinesHoldStake
  BY DEF Inv, LineInv, LinesHoldStake
<1> QED BY <1>1, InvHolds, PTL

\* A default takes the shortfall or the whole stake for the financier; no other end takes any.
THEOREM DefaultsAreCovered == Spec => DefaultIsCovered
<1>1. ASSUME Inv, Next, NEW l \in Lines, line[l] = "OPEN", line'[l] \in Ends PROVE Covered(l)
  <2>1. CASE LineStep
    BY <1>1, <2>1, LineStepKeeps
  <2>2. CASE DealStep \/ VaultStep
    <3>1. UNCHANGED lineVars
      BY <1>1, <2>2, DealKeeps DEF VaultStep
    <3> QED BY <1>1, <3>1 DEF lineVars, Ends
  <2> QED BY <1>1, <2>1, <2>2 DEF Next
<1>2. ASSUME UNCHANGED vars, NEW l \in Lines, line[l] = "OPEN", line'[l] \in Ends PROVE FALSE
  BY <1>2 DEF vars, lineVars, Ends
<1>3. Inv /\ [Next]_vars =>
        [\A l \in Lines : line[l] = "OPEN" /\ line'[l] \in Ends =>
           LET p == PersonOf[Seller(l)]
               r == held[Key(l)]
               due == IF line'[l] = "DEFAULTED" /\ Finance \in family /\ r.active /\ now <= r.expiresAt
                      THEN AtMost(TermsOf[l].repay - DealOf(l).paid, TermsOf[l].stake) ELSE 0
           IN  /\ active[p] - active'[p] = due
               /\ (cash - cash') + (owed'[TermsOf[l].financier] - owed[TermsOf[l].financier]) = due]_vars
  BY <1>1, <1>2 DEF Covered
<1> QED BY <1>3, InvHolds, PTL DEF Spec, DefaultIsCovered

\* How a person's stake may fall in one step.
SignedFall(p) ==
    active'[p] < active[p] =>
        LET gone == active[p] - active'[p] IN
        \/ now >= coolUntil[p] /\ gone = cooling[p] /\ cooling'[p] = 0
        \/ \E k \in Keys : /\ held[k].active /\ held[k].owner = p /\ now <= held[k].expiresAt
                           /\ k[1] \in family /\ held'[k].amount + gone <= held[k].amount

\* A slash takes from the one stake its reservation was made of, and from the reservation as much.
LEMMA TakenFall ==
    ASSUME Inv, NEW k \in Keys, NEW paid \in Nat, Slashable(k), paid <= held[k].amount,
           active' = [active EXCEPT ![held[k].owner] = @ - paid],
           held'[k].amount + paid <= held[k].amount, NEW p \in People
    PROVE  SignedFall(p)
<1>1. active \in [People -> Nat] /\ held[k].owner \in People
  BY DEF Inv, TypeOK, VaultTypeOK, StakeCoversReservations, Slashable
<1>2. CASE held[k].owner = p
  <2>1. active[p] - active'[p] = paid
    BY <1>1, <1>2
  <2> QED BY <1>2, <2>1 DEF SignedFall, Slashable
<1>3. CASE held[k].owner # p
  BY <1>1, <1>3 DEF SignedFall
<1> QED BY <1>2, <1>3

\* Stake leaves a person only cooled, or under a live reservation of theirs that falls by as much.
THEOREM StakeIsSigned == Spec => StakeLeavesAsSigned
<1>1. ASSUME Inv, Next, NEW p \in People PROVE SignedFall(p)
  <2>1. /\ active \in [People -> Nat] /\ cooling \in [People -> Nat] /\ held \in [Keys -> Reservation]
        /\ VaultTypeOK
    BY <1>1 DEF Inv, TypeOK, VaultTypeOK
  <2>2. ASSUME UNCHANGED active PROVE SignedFall(p)
    BY <2>1, <2>2 DEF SignedFall
  <2>3. ASSUME NEW u \in Users, NEW x \in 1..MaxAsk, Stake(u, x) PROVE SignedFall(p)
    BY <2>1, <2>3 DEF Stake, SignedFall
  <2>4. ASSUME NEW u \in Users, Withdraw(u) PROVE SignedFall(p)
    BY <2>1, <2>4 DEF Withdraw, SignedFall
  <2>5. ASSUME NEW k \in Keys, NEW x \in 1..MaxAsk, Slash(k, x) PROVE SignedFall(p)
    <3> DEFINE paid == AtMost(x, held[k].amount)
    <3>1. /\ Slashable(k) /\ paid \in Nat /\ paid <= held[k].amount /\ held[k].amount \in Nat
          /\ active' = [active EXCEPT ![held[k].owner] = @ - paid]
          /\ held' = [held EXCEPT ![k].amount = @ - paid, ![k].active = (held[k].amount # paid)]
      BY <2>1, <2>5 DEF Slash, AtMost, Reservation
    <3> HIDE DEF paid
    <3>2. held'[k].amount = held[k].amount - paid
      BY <2>1, <3>1 DEF Reservation
    <3>3. held'[k].amount + paid <= held[k].amount
      BY <3>1, <3>2
    <3> QED BY <1>1, <3>1, <3>3, TakenFall
  <2>6. ASSUME NEW l \in Lines, line[l] = "OPEN", Slashable(Key(l)), Shortfall(l) > 0, SlashThenRelease(l)
        PROVE  SignedFall(p)
    <3> DEFINE paid == AtMost(Shortfall(l), held[Key(l)].amount)
    <3>1. /\ paid \in Nat /\ paid <= held[Key(l)].amount /\ held[Key(l)].amount \in Nat
      BY <1>1, <2>6, StandingLine
    <3>2. /\ active' = [active EXCEPT ![held[Key(l)].owner] = @ - paid] /\ held' = HeldFreed(held, Key(l))
      BY <2>6 DEF SlashThenRelease
    <3> HIDE DEF paid
    <3>3. Key(l) \in Keys /\ held'[Key(l)].amount + paid <= held[Key(l)].amount
      <4>1. Key(l) \in Keys
        BY KeyFacts
      <4>2. held'[Key(l)].amount = 0
        BY <2>1, <3>2, <4>1, FreedHeld
      <4> QED BY <3>1, <4>1, <4>2
    <3> QED BY <1>1, <2>6, <3>1, <3>2, <3>3, TakenFall
  <2>7. CASE PersonStep
    BY <2>2, <2>3, <2>4, <2>7 DEF PersonStep, RequestWithdraw, CancelWithdraw, WithdrawOwed, stakeVars
  <2>8. ASSUME NEW f \in Families, FamilyStep(f, Refs \ Lines) PROVE SignedFall(p)
    <3>1. \A r \in Refs : <<f, r>> \in Keys
      BY DEF Keys
    <3> QED BY <2>2, <2>5, <2>8, <3>1 DEF FamilyStep, Reserve, Extend, Release, stakeVars
  <2>9. CASE VaultStep
    BY <2>2, <2>7, <2>8, <2>9 DEF VaultStep, PublicStep, ReleaseStale, Release, Tick, RevokeFamily, stakeVars
  <2>10. CASE DealStep
    BY <1>1, <2>2, <2>10, DealKeeps DEF vaultVars, stakeVars
  <2>11. CASE LineStep
    <3>1. ASSUME NEW l \in Lines, NEW until \in now + 1..now + MaxTerm, Open(l, until) PROVE SignedFall(p)
      <4>1. UNCHANGED active
        BY <3>1 DEF Open, Opens
      <4> QED BY <2>2, <4>1
    <3>2. ASSUME NEW l \in Lines, NEW state \in Ends, Ended(l, state) PROVE SignedFall(p)
      BY <2>2, <3>2 DEF Ended, Release
    <3>3. ASSUME NEW l \in Lines, Settle(l) PROVE SignedFall(p)
      BY <2>6, <3>2, <3>3 DEF Settle, Defaults, Ends
    <3>4. ASSUME NEW l \in Lines, Waive(l) \/ KeepStake(l) PROVE SignedFall(p)
      BY <2>2, <3>2, <3>4 DEF Waive, KeepStake, Extend, stakeVars, Ends
    <3> QED BY <2>11, <3>1, <3>3, <3>4 DEF LineStep
  <2> QED BY <1>1, <2>9, <2>10, <2>11 DEF Next
<1>2. ASSUME UNCHANGED vaultVars, Inv, NEW p \in People PROVE SignedFall(p)
  BY <1>2 DEF vaultVars, stakeVars, SignedFall, Inv, TypeOK, VaultTypeOK
<1>3. ASSUME UNCHANGED vars PROVE UNCHANGED vaultVars
  BY <1>3 DEF vars
<1>4. Inv /\ [Next]_vars =>
        [\A p \in People : active'[p] < active[p] =>
           LET gone == active[p] - active'[p] IN
           \/ now >= coolUntil[p] /\ gone = cooling[p] /\ cooling'[p] = 0
           \/ \E k \in Keys : /\ held[k].active /\ held[k].owner = p /\ now <= held[k].expiresAt
                              /\ k[1] \in family /\ held'[k].amount + gone <= held[k].amount]_vaultVars
  BY <1>1, <1>2, <1>3 DEF SignedFall
<1> QED BY <1>4, InvHolds, PTL DEF Spec, StakeLeavesAsSigned

-----------------------------------------------------------------------------
(***************************************************************************)
(* What is reserved of a person's stake is the sum of their reservations.  *)
(* A call rewrites one entry of the table, so the sum moves by what that   *)
(* entry counted for before and counts for after.                          *)
(***************************************************************************)

\* What a reservation counts for in what person p has reserved.
Counts(e, p) == IF e.active /\ e.owner = p THEN e.amount ELSE 0
Amounts(h, p) == [k \in Keys |-> Counts(h[k], p)]
AddsUp(r, h) == \A p \in People : r[p] = SumOn(Amounts(h, p), Keys)
SumsInv == AddsUp(reserved, held)

LEMMA KeysFinite == IsFiniteSet(Keys)
BY FS_Product DEF Keys

LEMMA AmountsType ==
    ASSUME NEW h \in [Keys -> Reservation], NEW p
    PROVE  \A k \in Keys : Amounts(h, p)[k] \in Nat /\ Amounts(h, p)[k] = Counts(h[k], p)
BY DEF Amounts, Counts, Reservation

\* One entry rewritten, and the person's number moved by as much.
LEMMA OneEntryMoves ==
    ASSUME NEW h \in [Keys -> Reservation], NEW g \in [Keys -> Reservation], NEW k \in Keys,
           \A j \in Keys \ {k} : g[j] = h[j],
           NEW r \in [People -> Nat], NEW s, AddsUp(r, h),
           \A p \in People : s[p] = r[p] + (Counts(g[k], p) - Counts(h[k], p))
    PROVE  AddsUp(s, g)
<1> SUFFICES ASSUME NEW p \in People PROVE s[p] = SumOn(Amounts(g, p), Keys)
  BY DEF AddsUp
<1>1. \A j \in Keys : /\ Amounts(h, p)[j] \in Nat /\ Amounts(g, p)[j] \in Nat
                      /\ j # k => Amounts(h, p)[j] = Amounts(g, p)[j]
  BY AmountsType
<1>2. SumOn(Amounts(g, p), Keys) = SumOn(Amounts(h, p), Keys) + (Amounts(g, p)[k] - Amounts(h, p)[k])
  BY <1>1, KeysFinite, SumChange
<1>3. Amounts(g, p)[k] = Counts(g[k], p) /\ Amounts(h, p)[k] = Counts(h[k], p)
  BY AmountsType
<1>4. r[p] = SumOn(Amounts(h, p), Keys)
  BY DEF AddsUp
<1> QED BY <1>2, <1>3, <1>4

\* A live reservation is within what its owner has reserved.
LEMMA HeldWithin ==
    ASSUME NEW h \in [Keys -> Reservation], NEW r, AddsUp(r, h), NEW k \in Keys,
           h[k].active, h[k].owner \in People
    PROVE  h[k].amount <= r[h[k].owner]
<1> DEFINE f == Amounts(h, h[k].owner)
<1>1. \A j \in Keys : f[j] \in Nat /\ f[j] \in Int
  BY AmountsType
<1>2. f[k] = h[k].amount
  BY AmountsType DEF Counts
<1>3. r[h[k].owner] = SumOn(f, Keys)
  BY DEF AddsUp
<1> HIDE DEF f
<1>4. SumOn(f, {k}) <= SumOn(f, Keys)
  BY <1>1, KeysFinite, SumPart
<1>5. SumOn(f, {k}) = f[k] + SumOn(f, {k} \ {k})
  BY <1>1, KeysFinite, SumRemove
<1>6. SumOn(f, {}) = 0 /\ {k} \ {k} = {}
  BY KeysFinite, SumStep
<1>7. SumOn(f, {k}) = f[k]
  <2>1. SumOn(f, {k}) = f[k] + SumOn(f, {})
    BY <1>5, <1>6
  <2>2. SumOn(f, {}) = 0 /\ f[k] \in Int
    BY <1>1, <1>6
  <2> QED BY <2>1, <2>2
<1> QED BY <1>2, <1>3, <1>4, <1>7

LEMMA EverythingFrees ==
    ASSUME VaultInv, SumsInv
    PROVE  \A k \in Keys : Frees(k)
BY HeldWithin DEF VaultInv, VaultTypeOK, StakeCoversReservations, SumsInv, Frees

\* Freeing an entry takes it out of the sum.
LEMMA FreedAddsUp ==
    ASSUME VaultInv, SumsInv, NEW k \in Keys
    PROVE  AddsUp(ReservedFreed(reserved, held, k), HeldFreed(held, k))
<1> DEFINE h == HeldFreed(held, k)
           r == ReservedFreed(reserved, held, k)
<1>1. held \in [Keys -> Reservation] /\ reserved \in [People -> Nat] /\ held[k] \in Reservation
  BY DEF VaultInv, VaultTypeOK
<1>2. /\ h \in [Keys -> Reservation] /\ h[k].active = FALSE /\ \A j \in Keys \ {k} : h[j] = held[j]
  BY <1>1, FreedTable
<1>3. \A p \in People : r[p] = IF held[k].active /\ held[k].owner = p
                               THEN reserved[p] - held[k].amount ELSE reserved[p]
  BY EverythingFrees, FreedStake
<1>4. \A p \in People : r[p] = reserved[p] + (Counts(h[k], p) - Counts(held[k], p))
  <2> HIDE DEF h, r
  <2>1. held[k].amount \in Nat
    BY <1>1 DEF Reservation
  <2> QED BY <1>1, <1>2, <1>3, <2>1 DEF Counts
<1> HIDE DEF h, r
<1>5. AddsUp(reserved, held)
  BY DEF SumsInv
<1>6. AddsUp(r, h)
  BY <1>1, <1>2, <1>4, <1>5, OneEntryMoves
<1> QED BY <1>6 DEF h, r

\* A reservation under a key that holds nothing adds to the sum what it reserves.
LEMMA BookedAddsUp ==
    ASSUME NEW h \in [Keys -> Reservation], NEW r \in [People -> Nat], AddsUp(r, h),
           NEW k \in Keys, ~h[k].active, NEW p \in People, NEW x \in Nat,
           NEW to \in Users, NEW until \in Nat
    PROVE  AddsUp([r EXCEPT ![p] = @ + x], Booked(h, k, p, x, to, until))
<1> DEFINE g == Booked(h, k, p, x, to, until)
           s == [r EXCEPT ![p] = @ + x]
<1>1. /\ g \in [Keys -> Reservation] /\ g[k].active /\ g[k].owner = p /\ g[k].amount = x
      /\ \A j \in Keys \ {k} : g[j] = h[j]
  <2>1. g[k] = [owner |-> p, active |-> TRUE, beneficiary |-> to, amount |-> x, expiresAt |-> until]
    BY BookedTable
  <2>2. g \in [Keys -> Reservation]
    BY BookedTable
  <2>3. \A j \in Keys \ {k} : g[j] = h[j]
    BY DEF Booked
  <2> HIDE DEF g
  <2> QED BY <2>1, <2>2, <2>3
<1>2. \A q \in People : s[q] = IF q = p THEN r[q] + x ELSE r[q]
  OBVIOUS
<1> HIDE DEF g, s
<1>3. \A q \in People : s[q] = r[q] + (Counts(g[k], q) - Counts(h[k], q))
  BY <1>1, <1>2 DEF Counts
<1>4. AddsUp(s, g)
  BY <1>1, <1>3, OneEntryMoves
<1> QED BY <1>4 DEF g, s

\* Only the expiry of an entry moves.
LEMMA ExtendAddsUp ==
    ASSUME VaultInv, SumsInv, NEW k \in Keys, NEW until \in Nat, Extend(k, until)
    PROVE  SumsInv'
<1>1. held \in [Keys -> Reservation] /\ reserved \in [People -> Nat] /\ AddsUp(reserved, held)
      /\ reserved' = reserved
  BY DEF VaultInv, VaultTypeOK, SumsInv, Extend, stakeVars
<1>2. /\ held' \in [Keys -> Reservation]
      /\ held'[k].active = held[k].active /\ held'[k].owner = held[k].owner /\ held'[k].amount = held[k].amount
      /\ \A j \in Keys \ {k} : held'[j] = held[j]
  BY <1>1 DEF Extend, Reservation
<1>3. \A p \in People : reserved[p] = reserved[p] + (Counts(held'[k], p) - Counts(held[k], p))
  BY <1>1, <1>2 DEF Counts, Reservation
<1> DEFINE g == held'
<1>4. g \in [Keys -> Reservation] /\ \A j \in Keys \ {k} : g[j] = held[j]
  BY <1>2
<1>5. \A p \in People : reserved[p] = reserved[p] + (Counts(g[k], p) - Counts(held[k], p))
  BY <1>3
<1>6. SumsInv' <=> AddsUp(reserved, g)
  BY <1>1 DEF SumsInv, AddsUp, Amounts
<1> HIDE DEF g
<1>7. AddsUp(reserved, g)
  BY <1>1, <1>4, <1>5, OneEntryMoves
<1> QED BY <1>6, <1>7

\* A slash takes from the entry what it takes from the number.
LEMMA SlashAddsUp ==
    ASSUME VaultInv, SumsInv, NEW k \in Keys, NEW x \in Nat, Slash(k, x)
    PROVE  SumsInv'
<1> DEFINE e == held[k]
           paid == AtMost(x, e.amount)
           h1 == [held EXCEPT ![k].amount = @ - paid]
           left == (e.amount # paid)
           g == held'
           s == reserved'
<1>1. /\ held \in [Keys -> Reservation] /\ reserved \in [People -> Nat] /\ AddsUp(reserved, held)
      /\ e \in Reservation /\ e.active /\ e.owner \in People /\ e.amount \in Nat
      /\ paid \in Nat /\ paid <= e.amount
  BY DEF VaultInv, VaultTypeOK, StakeCoversReservations, SumsInv, Slash, Slashable, AtMost, Reservation
<1>2. /\ h1 \in [Keys -> Reservation] /\ h1[k].amount = e.amount - paid /\ h1[k].owner = e.owner
      /\ \A j \in Keys \ {k} : h1[j] = held[j]
  <2> HIDE DEF paid
  <2> QED BY <1>1 DEF Reservation
<1>3. g = [h1 EXCEPT ![k].active = left] /\ left \in BOOLEAN
      /\ s = [reserved EXCEPT ![e.owner] = @ - paid]
  BY DEF Slash
<1>4. left <=> h1[k].amount # 0
  BY <1>1, <1>2
<1>5. SumsInv' <=> AddsUp(s, g)
  BY DEF SumsInv, AddsUp, Amounts
<1> HIDE DEF e, paid, h1, left, g, s
<1>6. /\ g \in [Keys -> Reservation] /\ g[k].amount = e.amount - paid /\ g[k].owner = e.owner
      /\ g[k].active = left /\ \A j \in Keys \ {k} : g[j] = held[j]
  BY <1>2, <1>3 DEF Reservation
<1>7. \A p \in People : s[p] = reserved[p] + (Counts(g[k], p) - Counts(held[k], p))
  <2> SUFFICES ASSUME NEW p \in People PROVE s[p] = reserved[p] + (Counts(g[k], p) - Counts(held[k], p))
    OBVIOUS
  <2>1. CASE e.owner = p
    <3>1. s[p] = reserved[p] - paid /\ reserved[p] \in Nat
      BY <1>1, <1>3, <2>1
    <3>2. Counts(held[k], p) = e.amount
      BY <1>1, <2>1 DEF Counts, e
    <3>3. Counts(g[k], p) = e.amount - paid
      BY <1>1, <1>2, <1>4, <1>6, <2>1 DEF Counts
    <3> QED BY <1>1, <3>1, <3>2, <3>3
  <2>2. CASE e.owner # p
    <3>1. s[p] = reserved[p] /\ reserved[p] \in Nat
      BY <1>1, <1>3, <2>2
    <3>2. Counts(held[k], p) = 0 /\ Counts(g[k], p) = 0
      BY <1>6, <2>2 DEF Counts, e
    <3> QED BY <3>1, <3>2
  <2> QED BY <2>1, <2>2
<1>8. AddsUp(s, g)
  BY <1>1, <1>6, <1>7, OneEntryMoves
<1> QED BY <1>5, <1>8


LEMMA FreedSums ==
    ASSUME VaultInv, SumsInv, NEW k \in Keys,
           held' = HeldFreed(held, k), reserved' = ReservedFreed(reserved, held, k)
    PROVE  SumsInv'
<1>1. AddsUp(ReservedFreed(reserved, held, k), HeldFreed(held, k))
  BY FreedAddsUp
<1> QED BY <1>1 DEF SumsInv, AddsUp, Amounts

\* What any step does to the sums.
LEMMA FamilyAddsUp ==
    ASSUME VaultInv, SumsInv, NEW f \in Families, NEW rs \in SUBSET Refs, FamilyStep(f, rs)
    PROVE  SumsInv'
<1>1. ASSUME NEW k \in Keys, NEW u \in Users, NEW to \in Beneficiaries, NEW x \in 1..MaxAsk,
             NEW until \in now + 1..now + MaxTerm, Reserve(k, u, x, to, until)
      PROVE  SumsInv'
  <2> DEFINE p == PersonOf[u]
  <2>1. /\ p \in People /\ to \in Users /\ until \in Nat /\ x \in Nat /\ ~held[k].active
        /\ held \in [Keys -> Reservation] /\ reserved \in [People -> Nat] /\ AddsUp(reserved, held)
    BY <1>1 DEF Reserve, Fresh, VaultInv, VaultTypeOK, StakeCoversReservations, SumsInv
  <2>2. held' = Booked(held, k, p, x, to, until) /\ reserved' = [reserved EXCEPT ![p] = @ + x]
    BY <1>1 DEF Reserve
  <2> HIDE DEF p
  <2>3. AddsUp([reserved EXCEPT ![p] = @ + x], Booked(held, k, p, x, to, until))
    BY <2>1, BookedAddsUp
  <2> QED BY <2>2, <2>3 DEF SumsInv, AddsUp, Amounts
<1>2. ASSUME NEW k \in Keys, NEW until \in now + 1..now + MaxTerm, Extend(k, until) PROVE SumsInv'
  BY <1>2, ExtendAddsUp DEF VaultInv, VaultTypeOK
<1>3. ASSUME NEW k \in Keys, NEW x \in 1..MaxAsk, Slash(k, x) PROVE SumsInv'
  BY <1>3, SlashAddsUp
<1>4. ASSUME NEW k \in Keys, Release(k) PROVE SumsInv'
  BY <1>4, FreedSums DEF Release
<1>5. \A r \in rs : <<f, r>> \in Keys
  BY DEF Keys
<1> QED BY <1>1, <1>2, <1>3, <1>4, <1>5 DEF FamilyStep

\* A line opened over tables that add up, under a key that was never used.
LEMMA OpensAddsUp ==
    ASSUME Inv, NEW l \in Lines, NEW until \in Nat, NEW h \in [Keys -> Reservation],
           NEW r \in [People -> Nat], NEW lines, AddsUp(r, h), ~h[Key(l)].active,
           Opens(l, until, h, r, lines)
    PROVE  SumsInv'
<1> DEFINE k == Key(l)
           p == PersonOf[Seller(l)]
           x == TermsOf[l].stake
           to == TermsOf[l].financier
<1>1. k \in Keys /\ p \in People /\ x \in Nat /\ to \in Users
  BY KeyFacts DEF Opens, LineTerms
<1>2. held' = Booked(h, k, p, x, to, until) /\ reserved' = [r EXCEPT ![p] = @ + x]
  BY DEF Opens
<1>3. ~h[k].active
  OBVIOUS
<1> HIDE DEF k, p, x, to
<1>4. AddsUp([r EXCEPT ![p] = @ + x], Booked(h, k, p, x, to, until))
  BY <1>1, <1>3, BookedAddsUp
<1> QED BY <1>2, <1>4 DEF SumsInv, AddsUp, Amounts

LEMMA OpenAddsUp ==
    ASSUME Inv, SumsInv, NEW l \in Lines, NEW until \in Nat, Open(l, until)
    PROVE  SumsInv'
<1>1. /\ VaultInv /\ held \in [Keys -> Reservation] /\ reserved \in [People -> Nat] /\ Key(l) \in Keys
      /\ line[l] = "None" /\ ~held[Key(l)].active /\ AddsUp(reserved, held)
  BY KeyFacts DEF Inv, TypeOK, VaultInv, VaultTypeOK, LineInv, EndedLinesFreeStake, Open, Opens, SumsInv
<1>2. CASE ~Replaces(l)
  <2>1. Opens(l, until, held, reserved, line)
    BY <1>2 DEF Open
  <2> QED BY <1>1, <2>1, OpensAddsUp
<1>3. CASE Replaces(l)
  <2> DEFINE k == Key(Earlier(l))
             h == HeldFreed(held, k)
             r == ReservedFreed(reserved, held, k)
             lines == [line EXCEPT ![Earlier(l)] = "WAIVED"]
  <2>1. k \in Keys /\ Frees(k) /\ Opens(l, until, h, r, lines)
    BY <1>3, KeyFacts DEF Replaces, Earlier, Open, Inv, TypeOK
  <2>2. h \in [Keys -> Reservation] /\ h[k].active = FALSE /\ \A j \in Keys \ {k} : h[j] = held[j]
    BY <1>1, <2>1, FreedTable
  <2>3. r \in [People -> Nat]
    BY <1>1, <2>1, FreedStake
  <2>4. AddsUp(r, h)
    BY <1>1, <2>1, FreedAddsUp
  <2> HIDE DEF k, h, r, lines
  <2>5. ~h[Key(l)].active
    BY <1>1, <2>2
  <2> QED BY <2>1, <2>2, <2>3, <2>4, <2>5, OpensAddsUp
<1> QED BY <1>2, <1>3

LEMMA SumsStepKeeps == Inv /\ SumsInv /\ [Next]_vars => SumsInv'
<1> SUFFICES ASSUME Inv, SumsInv, [Next]_vars PROVE SumsInv'
  OBVIOUS
<1>1. VaultInv /\ VaultTypeOK
  BY DEF Inv, TypeOK, VaultInv
<1>2. ASSUME UNCHANGED <<reserved, held>> PROVE SumsInv'
  BY <1>2 DEF SumsInv, AddsUp, Amounts
<1>3. ASSUME NEW k \in Keys, held' = HeldFreed(held, k), reserved' = ReservedFreed(reserved, held, k)
      PROVE  SumsInv'
  BY <1>1, <1>3, FreedSums
<1>4. CASE LineStep
  <2>1. ASSUME NEW l \in Lines, NEW until \in now + 1..now + MaxTerm, Open(l, until) PROVE SumsInv'
    BY <1>1, <2>1, OpenAddsUp DEF VaultTypeOK
  <2>2. ASSUME NEW l \in Lines, NEW state, Ended(l, state) PROVE SumsInv'
    BY <1>3, <2>2, KeyFacts DEF Ended, Release
  <2>3. ASSUME NEW l \in Lines, Settle(l) PROVE SumsInv'
    <3>1. CASE SlashThenRelease(l)
      BY <1>3, <3>1, KeyFacts DEF SlashThenRelease
    <3>2. CASE ~SlashThenRelease(l)
      BY <2>2, <2>3, <3>2 DEF Settle, Defaults
    <3> QED BY <3>1, <3>2
  <2>4. ASSUME NEW l \in Lines, Waive(l) PROVE SumsInv'
    BY <2>2, <2>4 DEF Waive
  <2>5. ASSUME NEW l \in Lines, KeepStake(l) PROVE SumsInv'
    <3>1. Expiry(DealOf(l).horizon) \in Nat /\ Key(l) \in Keys
      BY KeyFacts DEF Inv, TypeOK, DealOf, DealView, Expiry
    <3> QED BY <1>1, <2>5, <3>1, ExtendAddsUp DEF KeepStake
  <2> QED BY <1>4, <2>1, <2>3, <2>4, <2>5 DEF LineStep
<1>5. CASE DealStep
  BY <1>2, <1>5, DealKeeps DEF vaultVars, stakeVars
<1>6. CASE VaultStep
  <2>1. CASE PersonStep
    BY <1>2, <2>1 DEF PersonStep, Stake, RequestWithdraw, CancelWithdraw, Withdraw, WithdrawOwed, stakeVars
  <2>2. CASE PublicStep
    <3>1. PICK k \in Keys : Release(k)
      BY <2>2 DEF PublicStep, ReleaseStale
    <3> QED BY <1>3, <3>1 DEF Release
  <2>3. CASE Tick
    BY <1>2, <2>3 DEF Tick, stakeVars
  <2>4. ASSUME NEW f \in Families, FamilyStep(f, Refs \ Lines) PROVE SumsInv'
    BY <1>1, <2>4, FamilyAddsUp
  <2>5. ASSUME NEW f \in Families, RevokeFamily(f) PROVE SumsInv'
    BY <1>2, <2>5 DEF RevokeFamily, stakeVars
  <2> QED BY <1>6, <2>1, <2>2, <2>3, <2>4, <2>5 DEF VaultStep
<1>7. CASE UNCHANGED vars
  BY <1>2, <1>7 DEF vars, vaultVars, stakeVars
<1> QED BY <1>4, <1>5, <1>6, <1>7 DEF Next

LEMMA SumsStart == Init => SumsInv
<1> SUFFICES ASSUME Init, NEW p \in People PROVE reserved[p] = SumOn(Amounts(held, p), Keys)
  BY DEF SumsInv, AddsUp
<1>1. reserved[p] = 0 /\ \A k \in Keys : Amounts(held, p)[k] = 0
  BY DEF Init, VaultInit, NoReservation, Amounts, Counts
<1> QED BY <1>1, KeysFinite, SumZero

-----------------------------------------------------------------------------
(***************************************************************************)
(* No deal's horizon outruns what a reservation may last.                  *)
(***************************************************************************)
HorizonInv == \A d \in Deals : deal[d].horizon <= now + MaxHorizon

LEMMA HorizonStart == Init => HorizonInv
BY DEF Init, VaultInit, HorizonInv

\* A new assignment leaves the horizons alone.
LEMMA AssignedHorizons ==
    ASSUME deal \in [Deals -> DealView], NEW d \in Deals, NEW u, NEW x
    PROVE  \A e \in Deals : Assigned(d, u, x)[e].horizon = deal[e].horizon
BY DEF Assigned, DealView

LEMMA HorizonStepKeeps == Inv /\ HorizonInv /\ [Next]_vars => HorizonInv'
<1> SUFFICES ASSUME Inv, HorizonInv, [Next]_vars PROVE HorizonInv'
  OBVIOUS
<1>1. deal \in [Deals -> DealView] /\ now \in Nat /\ \A d \in Deals : deal[d].horizon \in Nat
  BY DEF Inv, TypeOK, VaultTypeOK, DealView
<1>2. ASSUME \A d \in Deals : deal'[d].horizon = deal[d].horizon, now' \in Nat, now' >= now
      PROVE  HorizonInv'
  BY <1>1, <1>2 DEF HorizonInv
<1>3. CASE LineStep
  <2>1. now' = now
    BY <1>3 DEF LineStep, Open, Opens, Settle, Defaults, SlashThenRelease, Ended, Release, Waive, KeepStake, Extend
  <2>2. \A d \in Deals : deal'[d].horizon = deal[d].horizon
    <3>1. ASSUME NEW l \in Lines, NEW until \in now + 1..now + MaxTerm, Open(l, until)
          PROVE  \A d \in Deals : deal'[d].horizon = deal[d].horizon
      <4>1. deal' = Assigned(TermsOf[l].deal, TermsOf[l].financier, TermsOf[l].repay)
        BY <3>1 DEF Open, Opens
      <4> QED BY <1>1, <4>1, KeyFacts, AssignedHorizons
    <3>2. ASSUME NEW l \in Lines, Settle(l) \/ Waive(l) \/ KeepStake(l) PROVE deal' = deal
      BY <3>2 DEF Settle, Defaults, Ended, Waive, KeepStake
    <3> QED BY <1>3, <3>1, <3>2 DEF LineStep
  <2> QED BY <1>1, <1>2, <2>1, <2>2
<1>4. CASE DealStep
  <2>1. now' = now
    BY <1>4, DealKeeps DEF vaultVars
  <2>2. ASSUME NEW d \in Deals, NEW horizon \in now + 1..now + MaxHorizon, DealExtends(d, horizon)
        PROVE  HorizonInv'
    BY <1>1, <2>1, <2>2 DEF DealExtends, HorizonInv, DealView
  <2>3. ASSUME NEW d \in Deals, NEW x \in 1..MaxAsk, DealPays(d, x) PROVE HorizonInv'
    <3>1. \A e \in Deals : deal'[e].horizon = deal[e].horizon
      BY <1>1, <2>3 DEF DealPays, DealView
    <3> QED BY <1>1, <1>2, <2>1, <3>1
  <2>4. ASSUME NEW d \in Deals, NEW stage, DealMoves(d, stage) PROVE HorizonInv'
    <3>1. \A e \in Deals : deal'[e].horizon = deal[e].horizon
      BY <1>1, <2>4 DEF DealMoves, DealView
    <3> QED BY <1>1, <1>2, <2>1, <3>1
  <2>5. ASSUME NEW d \in Deals, NEW u, NEW x, SellerAssigns(d, u, x) \/ ReleaseAssignment(d) PROVE HorizonInv'
    <3>1. \A e \in Deals : deal'[e].horizon = deal[e].horizon
      BY <1>1, <2>5, AssignedHorizons DEF SellerAssigns, ReleaseAssignment
    <3> QED BY <1>1, <1>2, <2>1, <3>1
  <2> QED BY <1>4, <2>2, <2>3, <2>4, <2>5 DEF DealStep
<1>5. CASE VaultStep
  <2>1. deal' = deal
    BY <1>5 DEF VaultStep
  <2>2. now' = now \/ now' = now + 1
    <3>1. CASE PersonStep
      BY <3>1 DEF PersonStep, Stake, RequestWithdraw, CancelWithdraw, Withdraw, WithdrawOwed
    <3>2. CASE PublicStep
      BY <3>2 DEF PublicStep, ReleaseStale, Release
    <3>3. ASSUME NEW f \in Families, FamilyStep(f, Refs \ Lines) PROVE now' = now
      BY <3>3 DEF FamilyStep, Reserve, Extend, Slash, Release
    <3>4. ASSUME NEW f \in Families, Tick \/ RevokeFamily(f) PROVE now' = now \/ now' = now + 1
      BY <3>4 DEF Tick, RevokeFamily
    <3>5. CASE Tick
      BY <3>5 DEF Tick
    <3> QED BY <1>5, <3>1, <3>2, <3>3, <3>4, <3>5 DEF VaultStep
  <2> QED BY <1>1, <1>2, <2>1, <2>2
<1>6. CASE UNCHANGED vars
  <2>1. deal' = deal /\ now' = now
    BY <1>6 DEF vars, vaultVars
  <2> QED BY <1>1, <1>2, <2>1
<1> QED BY <1>3, <1>4, <1>5, <1>6 DEF Next

LEMMA SumsHold == Spec => [](Inv /\ SumsInv /\ HorizonInv)
BY InitKeeps, StepKeeps, SumsStart, SumsStepKeeps, HorizonStart, HorizonStepKeeps, PTL DEF Spec

-----------------------------------------------------------------------------
\* What the vault keeps per person is the sum of that person's live reservations, and each of them
\* can be freed.
THEOREM ReservationsAlwaysAddUp == Spec => []ReservationsAddUp
<1>1. ASSUME Inv, SumsInv PROVE ReservationsAddUp
  <2>1. VaultInv
    BY <1>1 DEF Inv, TypeOK, VaultInv
  <2>2. \A p \in People : LiveAmounts(p) = Amounts(held, p)
    BY DEF LiveAmounts, Amounts, Counts
  <2>3. \A p \in People : reserved[p] = SumOn(LiveAmounts(p), Keys)
    BY <1>1, <2>2 DEF SumsInv, AddsUp
  <2>4. \A k \in Keys : Frees(k)
    BY <1>1, <2>1, EverythingFrees
  <2> QED BY <2>3, <2>4 DEF ReservationsAddUp, SumOn
<1> QED BY <1>1, SumsHold, PTL

\* The vault's books of a stake are kept: its reservations are covered and add up.
THEOREM StakeBooksAlwaysKept == Spec => []StakeBooksKept
<1>1. StakeCoversReservations /\ ReservationsAddUp => StakeBooksKept
  BY DEF StakeBooksKept
<1> QED BY <1>1, StakeCovers, ReservationsAlwaysAddUp, PTL

\* Settling an open line and keeping its stake are never refused by the vault.
THEOREM LinesNeverStuck == Spec => []LinesNeverJam
<1>1. ASSUME Inv, SumsInv, HorizonInv PROVE LinesNeverJam
  <2> SUFFICES ASSUME NEW l \in Lines, line[l] = "OPEN"
               PROVE  /\ IF Stands(l) /\ Shortfall(l) > 0 THEN CanDefault(l) ELSE Frees(Key(l))
                      /\ /\ held[Key(l)].active /\ now <= held[Key(l)].expiresAt
                         /\ Expiry(DealOf(l).horizon) > held[Key(l)].expiresAt
                         => CanExtend(Key(l), Expiry(DealOf(l).horizon))
    BY DEF LinesNeverJam
  <2>1. VaultInv /\ Key(l) \in Keys /\ Frees(Key(l))
    <3>1. VaultInv /\ Key(l) \in Keys
      BY <1>1, KeyFacts DEF Inv, TypeOK, VaultInv
    <3> QED BY <1>1, <3>1, EverythingFrees
  <2>2. ASSUME Shortfall(l) > 0, Slashable(Key(l)) PROVE CanSlashThenRelease(l)
    <3> DEFINE r == held[Key(l)]
               paid == AtMost(Shortfall(l), r.amount)
    <3>1. r.active /\ r.owner \in People /\ r.amount \in Nat /\ paid \in Nat /\ paid <= r.amount
      BY <1>1, <2>2, StandingLine
    <3>2. r.amount <= reserved[r.owner]
      BY <2>1, <3>1 DEF Frees
    <3>3. /\ reserved[r.owner] \in Nat /\ cooling[r.owner] \in Nat /\ active[r.owner] \in Nat
          /\ reserved[r.owner] + cooling[r.owner] <= active[r.owner]
      BY <2>1, <3>1 DEF VaultInv, VaultTypeOK, StakeCoversReservations
    <3> HIDE DEF paid, r
    <3>4. paid <= active[r.owner]
      BY <3>1, <3>2, <3>3
    <3> QED BY <3>2, <3>4 DEF CanSlashThenRelease, paid, r
  <2>3. Expiry(DealOf(l).horizon) <= now + MaxTerm
    <3>1. /\ DealOf(l).horizon <= now + MaxHorizon /\ DealOf(l).horizon \in Nat /\ now \in Nat
      BY <1>1, KeyFacts DEF HorizonInv, DealOf, Inv, TypeOK, VaultTypeOK, DealView
    <3> QED BY <3>1 DEF Expiry
  <2> QED BY <2>1, <2>2, <2>3 DEF CanDefault, CanExtend
<1> QED BY <1>1, SumsHold, PTL
=============================================================================
