SPECIFICATION FairSwitchSpec
CONSTANTS
    Threads = {t1, t2, t3, t4}
    NoThread = NoThread
    Boot = Boot
    NoCtx = NoCtx
    MaxPid = 5
INVARIANTS
    CpuIsRunning
    SwitchNeverFails
    ContextsOwned
PROPERTIES
    OnlySelfExits
    RefinesRunQueue
    EveryThreadRuns
CHECK_DEADLOCK FALSE
