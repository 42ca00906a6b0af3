SPECIFICATION Spec
CONSTANTS
    Modules <- JustGnssModules
    Startup <- JustGnss
    N = 1
    TcpModules <- Tcp
    Critical <- CriticalOnes
    OpensMap <- Opens
    CreatesMap <- Creates
    ToleratesNull <- Tolerates
    Decoders <- Cameras
    Slots = {s1, s2}
    NoSlot = none
    PMTimeout = 2
    FirstTimeout = 2
    BeatTimeout <- Two
    MaxSettle = 1
    MaxPoll = 1
    MaxBoot <- None
    MaxInit <- None
    MaxRest <- One
    MaxWork <- None
INVARIANTS
    BeatIsOwed
PROPERTIES
    Recovery
    HungIsReplaced
    ShutdownIfServersAnswer
