SPECIFICATION FairSpec
CONSTANTS
    Workflows = {w1}
    NSteps = 2
    Handlers = {h1}
    Workers = {p1}
    Outcomes = {"BROADCAST", "SIGNED", "UNKNOWN"}
    Credit <- BorrowPlan
    QuotesOutput = TRUE
    Minimum = 2
    Limit = 1
    MaxReorgs = 1
    SerialReports = TRUE
    ClaimWaits = TRUE
INVARIANTS
    TypeOK
    StateIsLastTransition
    NoWriteReopenedWhileUncertain
    CompletedOnEvidence
PROPERTIES
    HistoryIsKept
    
    EffectsAreJudged
