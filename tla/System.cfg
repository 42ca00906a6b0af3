SPECIFICATION SystemSpec
CONSTANTS
    MaxImages = 3
    QueueLimit = 2
    Keys = {"W", "A"}
    MaxPresses = 2
    MaxLosses = 1
    MaxFalls = 1
INVARIANTS
    MixedByOverlapOnly
PROPERTIES
    ImagesInOrder
    CatchesUp
    RunawayEnds
    ServerObeys
    BadImageStopsAll
CHECK_DEADLOCK FALSE
