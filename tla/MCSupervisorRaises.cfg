SPECIFICATION FairSpec
CONSTANTS
    Uids = {m1, m2}
    BasePort = 10
    CanFail = TRUE
    None = None
PROPERTIES
    UnplugAlwaysTracked
