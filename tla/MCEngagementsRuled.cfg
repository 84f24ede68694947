\* One call at a time, no fault, and an objection the review team rules on.
SPECIFICATION Spec
CONSTANTS
    c1 = c1
    c2 = c2
    Callers = {c1}
    Runner = Runner
    BPS = 2
    FeeBps = 1
    Rate = 5
    UnitScale = 2
    MaxUnits = 2
    Periods = 1
    Start = 1
    Cycle = 1
    Grace = 1
    Review = 1
    NoticeCycles = 1
    RulingPeriod = 1
    FallbackBps = 1
    Rulings = {0, 2}
    CoolOff = 1
    RulingMs = 1
    MostAhead = 1
    Ops = {"accept", "log", "object"}
    Billed = {0}
    Outside = {"rule"}
    MaxTime = 6
    MaxCall <- AllSlow
    MaxFaults = 0
PROPERTIES WorkCloses
CHECK_DEADLOCK FALSE
