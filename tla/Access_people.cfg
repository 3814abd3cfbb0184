SPECIFICATION Spec
CONSTANTS
    ann = ann
    bob = bob
    s1 = s1
    Emails <- TwoPeople
    Canon <- Variants
    AdminEmails <- Listed
    Methods <- AnyMethod
    Older = TRUE
    Slots <- OneSlot
    Bulk = 2
    MaxKeys = 1
    MaxActiveKeys = 1
    MaxRemovals = 1
    MaxBoots = 2
SYMMETRY Alike
INVARIANTS
    TypeOK
    SerialAccess
    DecisionsHold
PROPERTIES
    RestartRestoresNobody
CHECK_DEADLOCK FALSE
