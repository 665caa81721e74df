SPECIFICATION Spec
CONSTANTS
    Threads = {t1, t2, t3, t4}
    NoThread = NoThread
    Boot = Boot
    NoCtx = NoCtx
    MaxPid = 5
SYMMETRY ThreadSymmetry
INVARIANTS
    TypeOK
    RingLinked
    CountIsLive
    OneCycle
    IdleIsLast
    ExitFindsReady
PROPERTIES
    DriftsOnlyByExit
CHECK_DEADLOCK FALSE
