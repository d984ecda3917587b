SPECIFICATION Spec
CONSTANTS
    Uids = {m1, m2}
    Procs = {p1, p2}
    Clearers = {}
    Anns = {a1}
    CanCrash = FALSE
    None = None
    Absent = Absent
    Unreadable = Unreadable
SYMMETRY Symmetry
INVARIANTS
    RegistryAlwaysKept
