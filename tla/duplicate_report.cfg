SPECIFICATION Spec
CONSTANTS
    Workflows = {w1}
    NSteps = 1
    Handlers = {h1, h2}
    Workers = {p1}
    Outcomes = {"BROADCAST"}
    Credit <- SinglePlan
    QuotesOutput = TRUE
    Minimum = 2
    Limit = 1
    MaxReorgs = 0
    SerialReports = FALSE
    ClaimWaits = FALSE
PROPERTIES
    ReportingAgainChangesNothing
