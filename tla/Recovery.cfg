SPECIFICATION Spec
CONSTANTS
    Threshold = 5
    Recovery = 60
    Successes = 2
    Multiplier = 2
    MaxBackoff = 3600
    Pause = 60
    ShortPause = 5
    Lag = {0, 60, 120, 240, 3600}
    MaxQuiet = 12
    MaxOpened = 8
CONSTRAINT Bounded
INVARIANTS TypeOK  SurvivesBlips
PROPERTY SparesUpstream
CHECK_DEADLOCK FALSE
