SPECIFICATION Spec
CONSTANTS
    Uids = {m1}
    MaxSignals = 2
    None = None
INVARIANTS
    SecondCallIsNoOp
