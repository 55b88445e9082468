SPECIFICATION SweptSpec
CONSTANTS
    Turn = {1, 2}
    Conversation = {1}
    JobConversation = {}
    h1 = h1
    Handler = {h1}
    MaxBoots = 1
    MaxParked = 1
    BlockerAnswers = {FALSE}
    Feature = {"send", "crash", "ceiling", "abort", "heartbeat", "warm"}
PROPERTIES
    EveryMessageSettles
    SweptRunIsStopped
CHECK_DEADLOCK FALSE
