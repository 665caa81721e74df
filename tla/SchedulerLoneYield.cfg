SPECIFICATION FairSwitchSpec
CONSTANTS
    Threads = {t1, t2, t3}
    NoThread = NoThread
    Boot = Boot
    NoCtx = NoCtx
    MaxPid = 4
PROPERTIES
    EveryThreadRunsAlways
CHECK_DEADLOCK FALSE
