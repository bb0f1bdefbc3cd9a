SPECIFICATION FairSpec
CONSTANTS
    Ingesters = {p1}
    Events <- NumberedEvents
    NEvents = 0
    PageSize = 1
    MaxBlocks = 2
    MaxRewind = 3
    MaxHeight = 4
    MaxReorgs = 2
    MaxFailures = 1
    NoBlock = NoBlock
INVARIANTS
    TypeOK
    CanonicalIsOneChain
PROPERTIES
    ImplementsCore
    Converges
