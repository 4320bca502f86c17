SPECIFICATION Spec
CONSTANTS
    N = 3
    RegionLimit = 10
    Prompt = 1
    RunTimeout = 30
    RpcTimeout = 30
    StartupTimeout = 45
    Backoff = 1
    MaxSick = 1
    MaxFaults = 2
INVARIANTS
    FailsLocallyOnly
