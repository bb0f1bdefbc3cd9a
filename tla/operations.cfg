SPECIFICATION Spec
CONSTANTS
    Evaluators = {e1, e2}
    LagWarning = 1
    LagCritical = 2
    FailuresCritical = 1
    MinAttempts = 2
    RateWarning = 50
    RateCritical = 100
    MaxChanges = 2
    i1 = i1
    i2 = i2
    b1 = b1
    Workers = {i1, i2, b1}
    Roles <- TwoIngestersAndABackfill
    Once = {i2}
    Genesis = 1
    FirstTip = 3
    MaxTip = 4
    Batch = 1
    From = 1
    To = 4
    MaxFaults = 2
    MarketFields = {"availableLiquidity", "capacity"}
    Compared = {"availableLiquidity", "capacity"}
    FieldValues = {"low", "high"}
    FirstValue = "low"
    MaxMoments = 2
    MaxPasses = 2
    MaxUnreadable = 1
    FlowActions = {"zest_supply", "zest_withdraw", "granite_withdraw", "granite_borrow_with_collateral", "granite_repay"}
    MaxEffectAmount = 2
    MaxEffectForks = 1
INVARIANTS
    TypeOK
    NoNoticeTwice
    RunsAlone
    EvidenceIsDated
PROPERTIES
    AlertsFollow
    BackfillEnds
    VerdictFits
CHECK_DEADLOCK FALSE
