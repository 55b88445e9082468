SPECIFICATION Spec
CONSTANTS
    r1 = r1
    r2 = r2
    r3 = r3
    Request = {r1, r2, r3}
    d1 = d1
    d2 = d2
    Decider = {d1, d2}
    Decisions = {"approve", "similar", "deny", "supersede"}
    Scenes <- MCScenes
    SIMILAR_WINDOW_MAX_REQUESTS = 1
    NoRequest = NoRequest
INVARIANTS
    TypeOK
    MemoryDecisionReaches
    OneDecisionWins
    HoldLeavesNothing
    NoLostWakeup
    WindowIsBounded
CHECK_DEADLOCK FALSE
