CONSTANTS
    ChannelSize = 2
    MaxErrors = 2
    Cap = 2
    Retain = 1
    Scenes <- MCScenes
SPECIFICATION Spec
INVARIANTS ProcessedExact PublishedIsAChain ServesWhenLinked
CHECK_DEADLOCK FALSE
