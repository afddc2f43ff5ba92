SPECIFICATION FairSpec
CONSTANTS
    Worker = {w1, w2}
    NoOne = NoOne
    TTL = 8
    Interval = 4
    Timeout = 1
    Startup = 3
    Heartbeat = 7
    Lag = 0
PROPERTIES
    LossIsNoticed
    LeaseIsFreed
CHECK_DEADLOCK FALSE
