CONSTANTS
    Threads = {t1, t2}
    NoThread = NoThread
    NumParams = 0
    MaxLeaves = 2
    MaxOps = 1
SPECIFICATION Spec
SYMMETRY Symmetry
INVARIANTS
    NoCircularWait
CHECK_DEADLOCK FALSE
