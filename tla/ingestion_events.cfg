SPECIFICATION Spec
CONSTANTS
    Ingesters = {p1}
    Events <- NumberedEvents
    NEvents = 2
    PageSize = 2
    MaxBlocks = 2
    MaxRewind = 3
    MaxHeight = 4
    MaxReorgs = 1
    MaxFailures = 1
    NoBlock = NoBlock
INVARIANTS
    EvidenceKeepsTogether
PROPERTIES
    CheckpointContinues
