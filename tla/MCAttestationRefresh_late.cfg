SPECIFICATION Spec
CONSTANTS
    None = None
    Floor = 2
    Ceiling = 3
    Half = 1000
    Lives <- MCLives
    RpcTimeout = 2
    Latency = 1
    Margin = 4
    Horizon = 14
INVARIANT
    CallsBeforeExpiry
