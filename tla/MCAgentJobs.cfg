\* Two calls at once, in one process or two, about one job with an odd budget.
SPECIFICATION Spec
CONSTANTS
    w1 = w1
    w2 = w2
    t1 = t1
    Workers = {w1, w2}
    Tokens = {t1}
    NoLink = NoLink
    BPS = 4
    FeeBps = 1
    Budgets = {5}
    Rulings = {0, 1}
    ExpiredAt = 2
    ReviewWindow = 1
    RejectWindow = 1
    HoldStep = 1
    MaxTime = 4
    MaxFaults = 1

INVARIANTS AccountKept RecordIsTrue
PROPERTIES DeliveredWorkEnds RecordCatchesUp
CHECK_DEADLOCK FALSE
