CONSTANTS
    Capacity = 3
    Hash <- MCHash
    Files = {root, o1, o2}
    NoFile = NoFile
    Objs = {root, o1, o2}
    Root = root
    Null = Null
    Names = {a}
    Step = 1
    Deleters = {t1}
    MaxLost = 0
    Paths <- MCPaths
SYMMETRY MCSymmetry
SPECIFICATION Spec
CHECK_DEADLOCK FALSE
INVARIANT OpenFileExists
