SPECIFICATION FairSpec
CONSTANTS
    Instance = {a, b}
    None = None
    MaxSaves = 2
    MaxClaims = 2
PROPERTIES WorkerIsFlushed RegressNeedsRace ShutdownPersists
CHECK_DEADLOCK FALSE
