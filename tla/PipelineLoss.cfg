SPECIFICATION Spec
CONSTANTS
    MaxComments = 2
    Interval = 2
    Window = 2
    MaxSessions = 2
INVARIANT AtLeastOnce
CHECK_DEADLOCK FALSE
