SPECIFICATION Spec
CONSTANTS
    MaxPolls = 2
    Ceiling = 4
    SignLimit = 2
INVARIANTS
    StopsEverything
