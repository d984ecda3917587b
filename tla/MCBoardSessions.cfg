SPECIFICATION Spec
CONSTANTS
    u1 = u1
    u2 = u2
    b1 = b1
    b2 = b2
    None = None
    Uids <- MCUids
    Boards <- MCBoards
    UidOf <- Replugged
    Serials = {s1, s2}
    Flashes = {f1, f2}
SYMMETRY Symmetry
INVARIANTS
    TypeOK
    OneFlashPerBoard
    PortQuietDuringFlash
    NoLeakedOccupancy
    DisplacedIsTerminated
PROPERTIES
    ImplementsOccupancy
