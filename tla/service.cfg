SPECIFICATION Spec
CONSTANTS
    QuoteRequests = {q1}
    StartRequests = {s1, s2}
    Keys = {k1}
    Tenants = {t1, t2}
    Registry = "enabled"
    QuoteLife = 1
    MaxTime = 2
    MaxSwitches = 2
    NoOne = NoOne
    Calls = {1, 2, 3}
    Limit = 2
    WindowLength = 1
    NonceLife = 1
    SessionLife = 1
    MaxGateTime = 1
    Events = {v1}
    Recorders = {r1, r2}
    Dispatchers = {d1, d2}
    MaxAttempts = 2
    MaxTries = 3
    NoDelivery = NoDelivery
    Scopes = {a, b}
    FirstScope = a
    Resources = {quote_resource, positions}
    Quote = quote_resource
    MaxLoads = 2
    MaxScopeSwitches = 2
    Reads = {read1}
    Writes = {write1}
    Attempts = 3
    BaseDelay = 1
    MaxDelay = 2
    MaxRetryAfter = 4
    RetryAfters = {0, 3, 9}
    DepositAmounts = {3}
    SignerFees = {1, 4}
    DepositMinimum = 1
    LockTime = 1
    MaxDepositForks = 1
    WithdrawalAmount = 2
    WithdrawalMaxFee = 1
    Dust = 1
    PerWithdrawalCap = 2
    Payouts = {1, 2}
    MaxWithdrawalForks = 1
    Bps = 10
    BorrowLtv = 7
    LiquidationLtv = 8
    Buffer = 1
    CollateralUnit = 3
    DebtUnit = 2
    CollateralPrices = {4, 9}
    DebtPrices = {3}
    MaxHeld = 3
    MaxAmount = 2
    Steps = {1, 2}
    Quantities = {1, 2}
    MaxInputs = 2
    MaxSdkMoves = 9
    ShareWorth = 2
    PriceUnit = 2
    PriceSources = {o1, o2}
    FeedPrices = {4, 7}
    MaxSpreadPercent = 30
    MaxMoves = 1
    MaxWrites = 2
    Screen = {"earn", "borrow", "bridge", "swap"}
    QuoteSeconds = 2
    RefreshMargin = 1
    MaxSeconds = 2
    MaxQuotes = 2
    MaxStarts = 2
    MaxAsks = 2
    MaxReloads = 1
    Trades = {"supply", "withdraw_supply", "swap"}
    TradeAmounts = {3, 4}
    VaultRates <- TwoRates
    PoolPrices = {2, 3}
    Slippages = {1, 3}
    RouteBps = 10
    MaxSlippage = 3
    VaultCap = 8
    RouteLife = 1
    TradeLife = 1
    MaxRouteTime = 1
    MaxRouteMoves = 1
    MaxReplans = 1
    MaxRouteForks = 1
    ListApps = {"app1", "app2"}
    CallersApp = "app1"
    Addresses = {"x", "y"}
    TestnetAddresses = {"y"}
    RowIds = {1, 2, 3}
    CreatedTimes = {1, 2}
    PageLimit = 1
    MaxPages = 3
    ShareRates = {1, 2}
    SupplyAmounts = {2}
    QuotedFees = {1}
    MaxOwnerMoves = 3
    MaxObservations = 2
INVARIANTS
    TypeOK
    KeyNamesOneWorkflow
    StartedFromLiveQuote
    SwitchedOffStops
    SignatureJudgedOnce
    WithinLimit
    AbandonedAfterAllTries
    DroppedStaysDropped
    WritesOnce
    TroubleIsAnswered
    SpentWithinQuote
    CompleteIsExact
    OwnRowsOnce
    EarnedIsAhead
PROPERTIES
    CompleteDepositStays
    
    SafeToSign
    WalletOpensOnce
    
CHECK_DEADLOCK FALSE
