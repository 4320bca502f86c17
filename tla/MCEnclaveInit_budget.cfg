SPECIFICATION Spec
CONSTANTS
    N = 2
    RegionLimit = 10
    Prompt = 1
    RunTimeout = 15
    RpcTimeout = 12
    StartupTimeout = 30
    Backoff = 1
    MaxSick = 2
    MaxFaults = 2
INVARIANTS
    TypeOK
    FreshAfterRejection
    InBudget
