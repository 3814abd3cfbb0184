SPECIFICATION Spec
CONSTANTS
    u1 = u1
    u2 = u2
    q1 = q1
    q2 = q2
    b1 = b1
    b2 = b2
    t1 = t1
    t2 = t2
    Nobody = Nobody
    Unmarked = Unmarked
    Users <- MCUsers
    Questions <- MCQuestions
    Builds <- MCBuilds
    Turns <- MCTurns
    MaxSwaps = 1
    MaxFaults = 1
    MaxBoots = 2
    MaxRows = 1
    Retention = TRUE
SYMMETRY Symmetry
INVARIANTS
    TypeOK
PROPERTIES
    StoreSweeps
    ReplayIsRight
CHECK_DEADLOCK FALSE
