SPECIFICATION Spec
CONSTANTS
    Regions = {"r1", "r2", "r3"}
    Commercial = {"r1", "r2"}
    None = None
    MaxBERDepth = 2
    MaxBERSize = 300
    MaxBERTagSize = 3
    BlockSize = 3
    KeySize = 4
    ErrDecrypt = ErrDecrypt
    Absent = Absent
    Failed = Failed
    Garbage = Garbage
    RouteInputs <- SomeRoutes
    BerInputs <- SomeStrings
    LongLengths <- SomeLengths
    MessageInputs <- SomeMessages
    PaddedInputs <- SomePadded
    KeyArns <- SomeKeyArns
    EnvelopeInputs <- SomeEnvelopes
    ClientInputs <- SomeConfigs
    DocumentInputs <- SomeDocuments
    StartupDefault = 30
    SignDefault = 1
INVARIANTS
    RouteAgrees
    BerExact
    RecipientExact
    EnvelopeRecovers
    ClientLimits
    WindowExact
CHECK_DEADLOCK FALSE
