SPECIFICATION FairSpec
CONSTANTS
    close = close
    shadow = shadow
    a = a
    b = b
    None = None
    Tasks = {close, shadow}
    Workers = {a, b}
    MaxAttempts = 2
    LeaseMs = 2
    BatchSize = 2
    MaxBackoff = 1
    Delay = 1
    RetryMs = 1
    Grace <- MixedGrace
INVARIANTS RowsAreTrue
PROPERTIES StaleWorkerHarmless TasksEnd
