SPECIFICATION Spec
CONSTANTS
    Uids = {m1, m2}
    Procs = {p1, p2}
    Clearers = {p2}
    Anns = {a1}
    CanCrash = TRUE
    None = None
    Absent = Absent
    Unreadable = Unreadable
SYMMETRY Symmetry
INVARIANTS
    TypeOK
    EnumsUnique
    RegistryKept
