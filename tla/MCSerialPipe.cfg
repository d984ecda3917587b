SPECIFICATION FairSpec
CONSTANTS
    Types = 3
    Says = 3
    Room = 2
INVARIANTS
    TypeOK
    InOrder
    EndsForAReason
    NothingIsLost
PROPERTIES
    RelayReturns
