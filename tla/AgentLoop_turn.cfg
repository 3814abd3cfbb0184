SPECIFICATION Spec
CONSTANTS
    c1 = c1
    c2 = c2
    r1 = r1
    Clean <- TwoAnswers
    Rebuttals <- OneRebuttal
    Ask = Ask
    Empty = Empty
    Degraded = Degraded
    MaxToolIters = 4
    CorrectionIters = 2
    MaxCalls = 1
    Settings <- Deployments
    ResultBytes = 8
    ValueBytes = 4
    MinValueBytes = 1
    MaxColumns = 4
    Widths <- OneWidth
INVARIANTS
    TypeOK
    ShippedIsSettled
    AnswerIsReviewed
    RequestsBounded
    QueryIsContained
PROPERTIES
    TurnEnds
CHECK_DEADLOCK FALSE
