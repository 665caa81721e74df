SPECIFICATION Spec
CONSTANT
    Threads = 2
INVARIANT
    MutualExclusion
