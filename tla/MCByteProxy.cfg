SPECIFICATION FairSpec
CONSTANTS
    kms = kms
    sts = sts
    i1 = i1
    i2 = i2
    None = None
    Services = {kms, sts}
    Conns = {i1, i2}
    MaxConns = 1
INVARIANTS
    TypeOK
    SlotsCounted
    ShutdownComplete
PROPERTIES
    ShutdownDrains
    SlotFreed
