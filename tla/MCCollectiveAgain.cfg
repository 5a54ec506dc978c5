CONSTANTS
    a = a
    b = b
    a1 = a1
    a2 = a2
    a3 = a3
    a4 = a4
    b1 = b1
    Nodes <- MCNodes
    Peers <- MCPeers
    NodeOf <- MCNodeOf
    CoherentPrograms <- MCNone
    OtherPrograms <- AgainPrograms
SPECIFICATION Spec
INVARIANTS
    AllNodesTold
CHECK_DEADLOCK FALSE
