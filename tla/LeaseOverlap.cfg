SPECIFICATION Spec
CONSTANTS
    Worker = {w1, w2}
    NoOne = NoOne
    TTL = 60
    Interval = 30
    Timeout = 10
    Startup = 16
    Heartbeat = 10
    Lag = 1
SYMMETRY Symmetry
INVARIANTS
    MutualExclusion
CHECK_DEADLOCK FALSE
