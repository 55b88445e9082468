SPECIFICATION Spec
CONSTANTS
    Turn = {1, 2}
    Conversation = {1, 2}
    JobConversation = {2}
    h1 = h1
    Handler = {h1}
    MaxBoots = 2
    MaxParked = 1
    BlockerAnswers = {TRUE, FALSE}
    Feature = {"automation", "startFailure", "loss", "idle", "respawn", "restart", "ref", "heartbeat"}
INVARIANTS
    InFlightIsServed
    RestartStaysReset
CHECK_DEADLOCK FALSE
