\* Processes that start, stop and start again under new names, with a job that acts on the deal from
\* its ticks only and one that acts on events too.
SPECIFICATION WatchSpec
CONSTANTS
    p1 = p1
    p2 = p2
    p3 = p3
    NoOne = NoOne
    Gone = Gone
    Processes = {p1, p2, p3}
    LeaseTtl = 1
    ClaimTtl = 1
    RunBy <- Fleet
INVARIANTS OneAtATime
PROPERTIES DealStaysAttended
