SPECIFICATION FairSpec
CONSTANTS
    i1 = i1
    i2 = i2
    east = east
    west = west
    None = None
    Conns = {i1, i2}
    Regions = {east, west}
    Commercial = {east, west}
    Allowed = {east}
    MaxConns = 1
INVARIANTS
    TypeOK
    RightEndpoint
PROPERTIES
    Undisturbed
    ReleasesAll
CHECK_DEADLOCK FALSE
