SPECIFICATION FairSpec
CONSTANTS
    u1 = u1
    u2 = u2
    t1 = t1
    t2 = t2
    Renamed = Renamed
    Users <- OneUser
    Turns <- TwoTurns
    MaxRenames = 1
    MaxDeletes = 2
    MaxFaults = 1
    Keys <- Keyless
PROPERTIES
    EmptyResolves
CHECK_DEADLOCK FALSE
