SPECIFICATION Spec
CONSTANTS
    Workflows = {w1}
    NSteps = 2
    Handlers = {h1}
    Workers = {p1, p2}
    Outcomes = {"BROADCAST", "UNKNOWN"}
    Credit <- BorrowPlan
    QuotesOutput = TRUE
    Minimum = 2
    Limit = 1
    MaxReorgs = 1
    SerialReports = TRUE
    ClaimWaits = FALSE
PROPERTIES
    WorkerMovesOnlyWhatItRead
