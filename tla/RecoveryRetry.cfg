SPECIFICATION FairSpec
CONSTANTS
    Threshold = 5
    Recovery = 60
    Successes = 2
    Multiplier = 2
    MaxBackoff = 3600
    Pause = 60
    ShortPause = 5
    Lag = {0, 240}
    MaxQuiet = 12
    MaxOpened = 8
CONSTRAINT Bounded
PROPERTY OpenIsRetried
CHECK_DEADLOCK FALSE
