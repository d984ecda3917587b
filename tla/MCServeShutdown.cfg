SPECIFICATION FairSpec
CONSTANTS
    Uids = {m1, m2}
    MaxSignals = 3
    None = None
INVARIANTS
    TypeOK
    TearsDownOnce
    AdvertiserClosedIdle
    ExitIsClean
PROPERTIES
    SignalEndsServe
