SPECIFICATION FairSpec
CONSTANTS
    Turn = {1}
    Conversation = {1}
    JobConversation = {}
    h1 = h1
    Handler = {h1}
    MaxBoots = 3
    MaxParked = 1
    BlockerAnswers = {FALSE}
    Feature = {"send", "death", "loss", "idle", "respawn", "crash", "stale"}
PROPERTIES
    QueuedIsServed
CHECK_DEADLOCK FALSE
