SPECIFICATION LiveSpec
CONSTANTS
    u1 = u1
    u2 = u2
    b1 = b1
    b2 = b2
    None = None
    Uids <- MCUids
    Boards <- MCBoards
    UidOf <- SideBySide
    Serials = {s1}
    Flashes = {f1}
PROPERTIES
    FlashConcludes
    DepartureConcludes
    TerminatedExits
