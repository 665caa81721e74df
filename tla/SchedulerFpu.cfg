SPECIFICATION FpuSpec
CONSTANTS
    Threads = {t1, t2, t3}
    NoThread = NoThread
    Boot = Boot
    NoCtx = NoCtx
    Zero = Zero
    MaxPid = 3
CHECK_DEADLOCK FALSE
INVARIANT
    FpuIsOwn
