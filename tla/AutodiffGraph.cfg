CONSTANTS
    Threads = {t1}
    NoThread = NoThread
    NumParams = 0
    MaxLeaves = 2
    MaxOps = 2
SPECIFICATION Spec
INVARIANTS
    TypeOK
    PossibleIsReady
    StepsHaveNodes
    StepsInOneGraph
    LocatorFindsSteps
    NothingUseless
PROPERTIES
    ImplementsTape
CHECK_DEADLOCK FALSE
