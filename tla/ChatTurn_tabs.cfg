SPECIFICATION Spec
CONSTANTS
    u1 = u1
    u2 = u2
    t1 = t1
    t2 = t2
    Renamed = Renamed
    Users <- TwoUsers
    Turns <- TwoTurns
    MaxRenames = 0
    MaxDeletes = 1
    MaxFaults = 1
    Keys <- Keyed
SYMMETRY Symmetry
INVARIANTS
    TypeOK
    ThreadsAreWhole
    NoPhantom
    BilledInFull
PROPERTIES
    ConversationSpec
CHECK_DEADLOCK FALSE
