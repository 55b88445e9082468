SPECIFICATION FairSpec
CONSTANTS
    Copies = 2
    MaxContainers = 3
    MaxSockets = 3
    MaxReports = 2
    Scenes <- MCScenes
INVARIANTS
    TypeOK
    OneContainerRuns
    ChannelIsOfTheContainer
    OneRunIsOpen
PROPERTIES
    NewestKeepsChannel
    DeathIsNoticed
    DownIsNotCounted
    RunningIsCounted
CHECK_DEADLOCK FALSE
