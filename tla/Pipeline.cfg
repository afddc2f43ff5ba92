SPECIFICATION Spec
CONSTANTS
    MaxComments = 5
    Interval = 2
    Window = 2
    MaxSessions = 4
INVARIANTS TypeOK CheckpointCovers UnconfirmedBounded
PROPERTY ImplementsResumePoint
CHECK_DEADLOCK FALSE
