SPECIFICATION Spec
CONSTANTS
    u1 = u1
    u2 = u2
    b1 = b1
    b2 = b2
    None = None
    Uids <- MCUids
    Boards <- MCBoards
    UidOf <- Replugged
    Serials = {s1}
    Flashes = {f1, f2}
INVARIANTS
    OneFlashPerUid
