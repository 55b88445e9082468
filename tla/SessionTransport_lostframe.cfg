SPECIFICATION Spec
CONSTANTS
    Copy = {c1, c2}
    MaxSockets = 3
    MaxFrames = 2
    MaxContainers = 1
    MaxRestarts = 1
    MAX_OUTBOUND_MESSAGES = 2
    DEFAULT_MAX_ATTEMPTS = 2
INVARIANTS Kept
CHECK_DEADLOCK FALSE
