SPECIFICATION Spec
CONSTANTS
    NumRegions = 4
    Base <- TouchingBase
    Length <- TouchingLength
    Usable <- TouchingUsable
    MaxRegions = 4
    MapBytes = 4
CHECK_DEADLOCK FALSE
INVARIANTS
    TypeOK
    MarkedIsOwned
PROPERTIES
    NoFalseAlarm
    HangsOnlyAtSeam
    RefinesFramePool
