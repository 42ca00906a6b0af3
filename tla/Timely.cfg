SPECIFICATION DeadlineSpec
CONSTANTS
    Modules <- LaserDisplayModules
    Startup <- LaserDisplay
    N = 2
    TcpModules <- Tcp
    Critical <- CriticalOnes
    OpensMap <- Opens
    CreatesMap = {}
    ToleratesNull = {}
    Decoders = {}
    Slots = {s1, s2}
    NoSlot = none
    PMTimeout = 2
    FirstTimeout = 3
    BeatTimeout <- Beats
    MaxSettle = 2
    MaxPoll = 2
    MaxBoot <- Boots
    MaxInit <- Inits
    MaxRest <- Rests
    MaxWork <- Works
INVARIANTS
    NoFalseAlarm
    NoFalseExit
    NoticedInTime
    EndsInTime
PROPERTIES
    BlindOnlyAtStartup
