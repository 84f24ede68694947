\* One person's stake behind two lines on a deal and another family's reservation.
SPECIFICATION Spec
CONSTANTS
    seller = seller
    financier = financier
    person = person
    l1 = l1
    l2 = l2
    r1 = r1
    People = {person}
    Users = {seller, financier}
    None = None
    PersonOf <- Persons
    Finance = Finance
    Escrow = Escrow
    Families = {Finance, Escrow}
    Refs = {l1, l2, r1}
    Cooldown = 1
    MaxTerm = 1
    Beneficiaries = {financier}
    MaxStake = 2
    MaxAsk = 1
    MaxTime = 2
    Deals = {d1}
    Lines = {l1, l2}
    TermsOf <- LinePair
    SellerOf <- Sellers
    Size = 1
    BPS = 2
    MinStakeBps = 1
    Longstop = 0
    SettleWindow = 0
    MaxHorizon = 1
INVARIANTS StakeBooksKept LinesHoldStake LinesNeverJam
PROPERTIES StakeLeavesAsSigned DefaultIsCovered
