CONSTANTS
    NoThread = NoThread
    ta = ta
    tb = tb
    Threads = {ta, tb}
    MaxTensors = 3
    MaxClones = 2
    Lazy = {0, 1, 2, 3}
    Execution = {"single", "fused"}
    OwnerUses = TRUE
    LastReads = TRUE
    Overlap = 2
SPECIFICATION Spec
SYMMETRY Symmetry
INVARIANTS
    TypeOK
    ProducedInTime
    LaterUsesTracked
    HeldTensorsHaveData
    NothingForgotten
CHECK_DEADLOCK FALSE
