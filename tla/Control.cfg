SPECIFICATION Spec
CONSTANTS
    Start = {c1, c2}
    Stop = {s1}
    Instance = {i1, i2}
    Sweeper = {w1, w2}
    None = None
    Faults = {"fatal", "loss", "startup", "crash"}
SYMMETRY Symmetry
CONSTRAINT Bounded
INVARIANTS
    TypeOK
    RunnerHoldsLock
    
    EntryListed
    RunnerNamed
    StopRequestKept
    
    
    
PROPERTIES
    ImplementsSingleOwner
CHECK_DEADLOCK FALSE
