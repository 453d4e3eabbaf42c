SPECIFICATION Spec
CHECK_DEADLOCK FALSE
CONSTANTS
    AMM_RESERVE_PRECISION = 20
    MARK_PRICE_PRECISION = 100
    QUOTE_PRECISION = 10
    FUNDING_PAYMENT_PRECISION = 10
    MARGIN_PRECISION = 10000
    PEG_PRECISION = 2
    ONE_HOUR = 1
    DEFAULT_MINIMUM_TRADE_SIZE = 4
    DISCOUNT_TOKEN_UNIT = 1
    Users = {"alice"}
    Markets = {0}
    Admins = {"admin"}
    DepositAmounts = {10}
    WithdrawAmounts = {10}
    QuoteAmounts = {11}
    LimitPrices = {0}
    DiscountTokens <- NoTokens
    MarketInits <- LifecycleInits
    OracleReadings <- FairPrice
    PegCandidates = {}
    SqrtKs = {}
    ReservePairs <- MovedReserves
    FeeWithdrawals = {}
    InsuranceWithdrawals = {}
    TradeSizes = {30}
    AdminChoices <- LifecycleChoices
    DeletingUsers = {"alice"}
    Referrers = {{}}
    TwapMarkets = {0}
    GenesisState <- UninitializedState
    GenesisUsers = {}
    GenesisMarkets = {}
    GenesisMarketInit <- MCMarketInit
    GenesisOracle <- MCGenesisOracle
    GenesisDeposit = 0
    GenesisVault = 0
    TimeSteps = {9}
    MaxNow = 9
    MaxDeposits = 2
    MaxTrades = 2
    MaxLiquidations = 0
    MaxCurveChanges = 0
INVARIANT NoAccountNoFunds
PROPERTY PausedMeansFrozen
