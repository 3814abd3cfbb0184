SPECIFICATION Spec
CONSTANTS
    y1 = y1
    y2 = y2
    c1 = c1
    c2 = c2
    Years <- MCYears
    Contents <- MCContents
    Releases <- OneRelease
    Absent = Absent
    Corrupt = Corrupt
    Nobody = Nobody
    Asking = Asking
    Lost = Lost
    MaxJobs = 2
    MaxFaults = 2
    MaxCrashes = 1
    Aliased = FALSE
SYMMETRY Symmetry
CONSTRAINT TwoMishaps
INVARIANTS
    TypeOK
    OneHonestJob
    FilesFollowJobs
    SwapIsTold
PROPERTIES
    ServedSpec
CHECK_DEADLOCK FALSE
