SPECIFICATION Spec
CONSTANTS
    Lead = 2
    Cap = 6
    Lengths <- SomeLengths
    MaxScan = 3
INVARIANTS
    LengthOfCoords
