SPECIFICATION FairSpec
CONSTANTS
    y1 = y1
    y2 = y2
    c1 = c1
    c2 = c2
    Years <- MCYears
    Contents <- OneContent
    Releases <- MCReleases
    Absent = Absent
    Corrupt = Corrupt
    Nobody = Nobody
    Asking = Asking
    Lost = Lost
    MaxJobs = 1
    MaxFaults = 2
    MaxCrashes = 1
    Aliased = TRUE
INVARIANTS
    LoaderSourcesKept
PROPERTIES
    JobsFinish
CHECK_DEADLOCK FALSE
