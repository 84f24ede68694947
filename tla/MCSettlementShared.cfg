\* Two deals share the books: fees, parked money, refused transfers, and governance at any moment.
SPECIFICATION Spec
CONSTANTS
    buyer = buyer
    seller = seller
    backer = backer
    feeSafe = feeSafe
    None = None
    d1 = d1
    d2 = d2
    Deals = {d1, d2}
    Users = {buyer, seller, feeSafe}
    FeeRecipient = feeSafe
    Subjects = {}
    Nonces = {}
    BPS = 2
    MaxFeeBps = 1
    FeeRates = {1}
    YieldShares = {1}
    DealCaps = {1, 2}
    TotalCaps = {1, 2}
    MaxPayees = 1
    Longstop = 1
    MaxHorizon = 1
    HoldStep = 0
    HoldCap = 0
    MinYieldTerm = 1
    Payers = {buyer}
    Payees = {seller}
    Assignees = {}
    MaxTime = 0
    MaxAmount = 2
    MaxFunded = 2
    Acts = {"pause", "retire", "revoke", "list", "caps"}
    Purse <- Purse2
SYMMETRY Symmetry
INVARIANTS Solvent BooksAddUp ExitsStayOpen
PROPERTIES ExposureWithinCap
