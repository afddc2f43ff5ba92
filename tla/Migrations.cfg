SPECIFICATION FairSpec
CONSTANTS
    Job = {j1, j2}
    Name <- Names
    Checksum = {x, y}
    None = None
INVARIANTS TypeOK NoSilentEdit
PROPERTIES LedgerSpec InOrderOnce EveryJobEnds
CHECK_DEADLOCK FALSE
