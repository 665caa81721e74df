SPECIFICATION Spec
CONSTANTS
    N = 7
    Chunk = 2
    MaxBytes = 16
    Clients = {c1, c2, c3}
    NoBlock = NoBlock
SYMMETRY ClientSymmetry
INVARIANTS
    TypeOK
    BlocksInHeap
    KfreeInHeap
    FullMeansFull
