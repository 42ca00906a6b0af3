SPECIFICATION TraceSpec
CONSTANTS
    Parts = 4
    Cap = 6
    MaxFix = 3
    MaxTrace = 2
INVARIANTS
    KeepsWholeFixes
    TraceInOrder
    TornByOverlapOnly
