SPECIFICATION Spec
CONSTANTS
    p1 = p1
    p2 = p2
    h1 = h1
    r1 = r1
    r2 = r2
    c1 = c1
    c2 = c2
    s1 = s1
    s2 = s2
    u1 = u1
    u2 = u2
    Nobody = Nobody
    None = None
    Settings <- Deployments
    People <- TwoPeople
    Hosts <- OneHost
    Threads <- TwoThreads
    Window = 1
    Patience = 1
    MaxTime = 3
    Calls <- TwoCalls
    States <- TwoStates
    Subjects <- TwoSubjects
    StateTtl = 2
    JwksTtl = 2
    Floor = 1
    MaxRotations = 1
    MaxRestarts = 1
INVARIANTS
    TypeOK
    BudgetsHold
    OneSessionPerLogin
PROPERTIES
    BindingSticks
    RotationIsPickedUp
SYMMETRY Alike
CHECK_DEADLOCK FALSE
