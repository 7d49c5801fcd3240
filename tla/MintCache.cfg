CONSTANTS
    Keys = {1}
    MaxSlot = 5
    Anchor = 2
    Scenes <- MCScenes
SPECIFICATION Spec
INVARIANTS TableComplete CacheExact
PROPERTIES ReloadsRun GoesLive
CHECK_DEADLOCK FALSE
