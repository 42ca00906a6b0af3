SPECIFICATION Spec
CONSTANTS
    Parts = 3
    Cap = 4
    MaxFix = 2
PROPERTIES
    ValidatesWhatItStores
