\* Two families over a Teller that moves, refuses, caps and falls silent.
SPECIFICATION Spec
CONSTANTS
    f1 = f1
    f2 = f2
    Families = {f1, f2}
    BPS = 2
    MinMargin = 2
    Unit = 2
    Quotes <- QuotePoints
    Settings <- SettingPoints
    Rooms = {1, 9}
    MaxCash = 10
    MaxParked = 3
SYMMETRY Symmetry
INVARIANTS FamiliesCanLeave QuotedSubscriptionStands
PROPERTIES SweepLeavesCovered MarginAbsorbs
