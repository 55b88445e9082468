SPECIFICATION FairSpec
CONSTANTS
    s1 = s1
    s2 = s2
    Sandbox = {s1, s2}
    MaxReported = 4
    MaxFailures = 2
    MAX_QUEUED_REPORTS = 1
    TERMINAL_RESERVE = 1
    MAX_PENDING_RESENDS = 2
    MAX_PENDING_RESENDS_PER_SANDBOX = 1
    MAX_RESENDS = 2
INVARIANTS
    TypeOK
    LandsOnce
    PoolIsExact
    ChainIsBounded
PROPERTIES
    HeldEndLands
CHECK_DEADLOCK FALSE
