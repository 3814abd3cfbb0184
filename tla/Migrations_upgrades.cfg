SPECIFICATION Spec
CONSTANTS
    None = None
    Torn = Torn
    Sidecar = Sidecar
    Newest = 3
    Kept = 2
    Keep = 1
    MaxWrites = 1
    MaxFaults = 1
    MaxRestores = 2
INVARIANTS
    TypeOK
    VersionTellsSchema
    TwoUpgradesBack
PROPERTIES
    NewerIsLeftAlone
    RestoreIsExact
CHECK_DEADLOCK FALSE
