SPECIFICATION FairSpec
CONSTANTS
    Workflows = {w1}
    NSteps = 1
    Handlers = {h1}
    Workers = {p1}
    Outcomes = {"BROADCAST"}
    Credit <- SinglePlan
    QuotesOutput = TRUE
    Minimum = 2
    Limit = 1
    MaxReorgs = 0
    SerialReports = TRUE
    ClaimWaits = FALSE
PROPERTIES
    DroppedReachesAPerson
