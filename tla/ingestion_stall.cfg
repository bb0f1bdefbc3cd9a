SPECIFICATION FairSpec
CONSTANTS
    Ingesters = {p1}
    Events <- NumberedEvents
    NEvents = 1
    PageSize = 1
    MaxBlocks = 2
    MaxRewind = 3
    MaxHeight = 3
    MaxReorgs = 1
    MaxFailures = 0
    NoBlock = NoBlock
PROPERTIES
    Converges
