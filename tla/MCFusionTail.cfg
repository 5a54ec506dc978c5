CONSTANTS
    NoThread = NoThread
    ta = ta
    tb = tb
    Threads = {ta, tb}
    MaxTensors = 3
    MaxClones = 2
    Lazy = {0, 1, 2, 3}
    Execution = {"single"}
    OwnerUses = FALSE
    LastReads = FALSE
    Overlap = 0
SPECIFICATION Spec
SYMMETRY Symmetry
INVARIANTS
    NoFault
CHECK_DEADLOCK FALSE
