SPECIFICATION Spec
CONSTANTS
    Limit = 1000
    Dead = 100
    Gain = 4
    GaugeMax = 1000
    Dts <- SpeedDts
PROPERTIES
    Stops
    Drives
