SPECIFICATION FairSpec
CONSTANTS
    Copy = {c1, c2}
    MaxSockets = 2
    MaxFrames = 3
    MaxContainers = 2
    MaxRestarts = 1
    MAX_OUTBOUND_MESSAGES = 2
    DEFAULT_MAX_ATTEMPTS = 2
INVARIANTS TypeOK OncePerCopy KeptUnlessRaced
PROPERTIES KeptIsAcked
CHECK_DEADLOCK FALSE
