SPECIFICATION Spec
CONSTANTS
    m1 = m1
    m2 = m2
    p1 = p1
    p2 = p2
    Uids <- MCUids
    Paths <- MCPaths
    NameOf <- Namesakes
    None = None
SYMMETRY Symmetry
INVARIANTS
    TypeOK
    RelaySpared
    PairIsFresh
