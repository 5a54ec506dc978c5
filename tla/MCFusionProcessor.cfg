CONSTANTS
    Streams = {s1, s2}
    Kinds = {k1}
    Tensors = {t1, t2}
    NoStream = NoStream
    MaxOps = 3
SPECIFICATION Spec
SYMMETRY Symmetry
INVARIANTS
    TypeOK
    ChosenPlanFits
    ExecutionIsTriggered
    RelativeIsCanonical
    AccountsForAll
    PolicySound
PROPERTIES
    StoreOnlyGrows
    ImplementsStream
