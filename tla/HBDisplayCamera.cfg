SPECIFICATION Spec
CONSTANTS
    Modules <- DisplayCameraModules
    Startup <- DisplayCamera
    N = 2
    TcpModules <- Tcp
    Critical <- CriticalOnes
    OpensMap <- Opens
    CreatesMap <- Creates
    ToleratesNull <- Tolerates
    Decoders <- Cameras
    Slots = {s1, s2}
    NoSlot = none
    PMTimeout = 0
    FirstTimeout = 0
    BeatTimeout <- One
    MaxSettle = 1
    MaxPoll = 1
    MaxBoot <- None
    MaxInit <- None
    MaxRest <- One
    MaxWork <- None
INVARIANTS
    OneProcess
    ArmedBeforeRead
PROPERTIES
    Supervises
