SPECIFICATION FairSpec
CONSTANTS
    close = close
    shadow = shadow
    a = a
    b = b
    None = None
    Tasks = {close}
    Workers = {a}
    MaxAttempts = 2
    LeaseMs = 1
    BatchSize = 2
    MaxBackoff = 1
    Delay = 1
    RetryMs = 1
    Grace <- LongGrace
PROPERTIES WaitingIsLookedAtAgain
