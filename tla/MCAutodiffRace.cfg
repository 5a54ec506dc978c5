CONSTANTS
    Threads = {t1, t2}
    NoThread = NoThread
    NumParams = 0
    MaxLeaves = 2
    MaxOps = 2
SPECIFICATION Spec
SYMMETRY Symmetry
INVARIANTS
    PossibleIsReady
CHECK_DEADLOCK FALSE
