CONSTANTS
    Threads = {t1, t2, t3}
    PageSize = 4
    TablePages = 2
    NumRegions = 4
    NumFrames = 8
    Step = 2
    Images <- MCImages
    Requests <- MCRequests
SYMMETRY MCSymmetry
SPECIFICATION Spec
CHECK_DEADLOCK FALSE
INVARIANTS
    TypeOK
    FrameOneUse
    MappingsCounted
    MappedIsRecorded
PROPERTIES
    SegmentsReturned
    AlignedMapReturns
