SPECIFICATION Spec
CONSTANTS
    BPS = 4
    MaxFeeBps = 2
    MaxTranches = 3
    MaxExtensions = 1
    MaxRequests = 1
    MaxCancelFee = 3
    MinReview = 1
    MaxReview = 2
    FamilyHorizon = 6
    HighValue = 0
    ProposalWindow = 2
    AppealWindow = 1
    RulingPeriod = 1
    Longstop = 2
    MaxHorizon = 8
    HoldStep = 1
    HoldCap = 1
    StakeSlack = 1
    MaxTerm = 11
    Offered <- DeliveryTerms
    Shares = {0, 2, 4}
    Deadlines = {4}
    Moves <- DeliveryMoves
    MaxRevision = 2
    LastMove = 11
    LastLate = 11
    MaxTime = 11
INVARIANTS BooksKept ReviewsAsAgreed
PROPERTIES OpenClocksStay DealIsAccount
CHECK_DEADLOCK FALSE
