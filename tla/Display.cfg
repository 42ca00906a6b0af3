SPECIFICATION DisplaySpec
CONSTANTS
    Unit = 4
    Pace = 2
    Room = 12
    Radian = 10
    Vertical = 16
    Steepest = 7
    SteepestLong = 5
    Chase <- MCDown45
    Drags <- MCDrags
    Span = 725
    Step = 10
    Upright = 1571
    MaxTurned = 2
    Metre = 1450
    NearDist = 120
    FarDist = 240
    TanH <- MCWide
    TanV <- MCHigh
    Grid <- MCGrid
    Dt = 15
    Field = 15
    Sizes = {"small", "large"}
    FirstSize = "small"
    ViewDepth = 32
    ProjDepth = 2
    MaxShapes = 2
    N = 3
    MaxItems = 6
INVARIANTS
    
    WithinRadian
    ComesBack
    KeysMoveAsSeen
    PlanesAsDrawn
    
    ShownAlongNose
    EveryCallCounts
    DrawnInPlace
    LossCostsOneShape
    CutItemsLeftOut
    KeepsInOrder
PROPERTIES
    Arrives
    DragsAddUp
    DrivesAsShown
