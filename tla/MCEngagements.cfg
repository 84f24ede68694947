\* One engagement of two weeks, two calls of its people beside the runner's pass, one fault.
SPECIFICATION Spec
CONSTANTS
    c1 = c1
    c2 = c2
    Callers = {c1, c2}
    Runner = Runner
    BPS = 2
    FeeBps = 1
    Rate = 5
    UnitScale = 2
    MaxUnits = 2
    Periods = 2
    Start = 1
    Cycle = 1
    Grace = 1
    Review = 1
    NoticeCycles = 1
    RulingPeriod = 1
    FallbackBps = 1
    Rulings = {1}
    CoolOff = 1
    RulingMs = 1
    MostAhead = 1
    Ops = {"accept", "decline", "cancel", "log", "approve", "object", "fund", "notice"}
    Billed = {0}
    Outside = {"settle", "rule"}
    MaxTime = 5
    MaxCall <- SlowPass
    MaxFaults = 1
SYMMETRY Symmetry
INVARIANTS AccountKept RecordIsTrue
PROPERTIES ApprovalsStand AnsweredOnce WorkIsAccount
CHECK_DEADLOCK FALSE
