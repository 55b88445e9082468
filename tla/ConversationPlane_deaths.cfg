SPECIFICATION Spec
CONSTANTS
    Turn = {1, 2}
    Conversation = {1}
    JobConversation = {}
    h1 = h1
    h2 = h2
    Handler = {h1, h2}
    MaxBoots = 2
    MaxParked = 1
    BlockerAnswers = {FALSE}
    Feature = {"send", "death", "warm"}
SYMMETRY HandlerSymmetry
INVARIANTS
    TypeOK
    OneActivePerConversation
    InFlightIsServed
PROPERTIES
    FinishedStaysFinished
    RecoveredOnce
    ImplementsLifecycle
CHECK_DEADLOCK FALSE
