SPECIFICATION Spec
CONSTANTS
    Turn = {1, 2, 3}
    Conversation = {1}
    JobConversation = {}
    h1 = h1
    h2 = h2
    Handler = {h1, h2}
    MaxBoots = 1
    MaxParked = 1
    BlockerAnswers = {FALSE}
    Feature = {"send", "sendNow", "warm"}
SYMMETRY HandlerSymmetry
INVARIANTS
    SteeredInOrder
    JoinedWasDelivered
CHECK_DEADLOCK FALSE
