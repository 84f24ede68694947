SPECIFICATION FairSpec
CONSTANTS
    BPS = 4
    MaxFeeBps = 2
    MaxTranches = 3
    MaxExtensions = 1
    MaxRequests = 1
    MaxCancelFee = 3
    MinReview = 1
    MaxReview = 2
    FamilyHorizon = 6
    HighValue = 0
    ProposalWindow = 1
    AppealWindow = 1
    RulingPeriod = 1
    Longstop = 2
    MaxHorizon = 8
    HoldStep = 1
    HoldCap = 1
    StakeSlack = 1
    MaxTerm = 11
    Offered <- DisputeTerms
    Shares = {0, 2}
    Deadlines = {4}
    Moves <- DisputeMoves
    MaxRevision = 2
    LastMove = 5
    LastLate = 8
    MaxTime = 20
INVARIANTS NothingJams LongstopComesLast DisputeMatchesState StakeAnswers
PROPERTIES AcceptedDealEnds
CHECK_DEADLOCK FALSE
