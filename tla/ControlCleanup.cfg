SPECIFICATION Spec
CONSTANTS
    Start = {c1, c2}
    Stop = {s1}
    Instance = {i1, i2}
    Sweeper = {w1}
    None = None
    Faults = {"fatal"}
SYMMETRY Symmetry
PROPERTIES
    CleanupSparesRunner
CHECK_DEADLOCK FALSE
