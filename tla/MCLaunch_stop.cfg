SPECIFICATION FairSpec
CONSTANTS
    MaxPolls = 2
    Ceiling = 4
    SignLimit = 2
INVARIANTS
    TypeOK
    EnclaveBehindProxy
PROPERTIES
    SignsAnswered
    StopEnds
