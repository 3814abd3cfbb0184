SPECIFICATION Spec
CONSTANTS
    s1 = s1
    s2 = s2
    v1 = v1
    a = a
    b = b
    i = i
    j = j
    q1 = q1
    c1 = c1
    t1 = t1
    b1 = b1
    None = None
    Texts <- MCTexts
    IdeaOf <- MCIdeaOf
    Written <- OneText
    Questions <- OneQuestion
    Learnable <- OneCategory
    Seeds <- AllSeeds
    FirstText <- OldText
    OldTables <- MCOldTables
    Releases <- MCReleases
    Turns <- OneTurn
    Tabs <- OneTab
    MaxActs = 2
    MaxBoots = 2
INVARIANTS
    TypeOK
    LibraryIsReviewed
PROPERTIES
    SeedsAreHandedOver
    GuidanceIsKept
CHECK_DEADLOCK FALSE
