SPECIFICATION FairSpec
CONSTANTS
    Uids = {m1, m2, m3}
    BasePort = 10
    CanFail = TRUE
    None = None
INVARIANTS
    TypeOK
    PortsExclusive
    PortsConserved
PROPERTIES
    PlugTracked
    UnplugTracked
