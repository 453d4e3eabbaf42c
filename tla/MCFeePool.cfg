SPECIFICATION Spec
CHECK_DEADLOCK FALSE
CONSTANTS
    AMM_RESERVE_PRECISION = 20
    MARK_PRICE_PRECISION = 100
    QUOTE_PRECISION = 10
    FUNDING_PAYMENT_PRECISION = 10
    MARGIN_PRECISION = 10000
    PEG_PRECISION = 2
    ONE_HOUR = 1
    DEFAULT_MINIMUM_TRADE_SIZE = 4
    DISCOUNT_TOKEN_UNIT = 1
    Users = {"alice", "bob"}
    Markets = {0}
    Admins = {"admin"}
    DepositAmounts = {}
    WithdrawAmounts = {}
    QuoteAmounts = {60}
    LimitPrices = {0}
    DiscountTokens <- NoTokens
    MarketInits = {}
    OracleReadings <- FairPrice
    PegCandidates = {}
    SqrtKs = {1300}
    ReservePairs = {}
    FeeWithdrawals = {3}
    InsuranceWithdrawals = {}
    TradeSizes = {}
    AdminChoices <- NoChoices
    DeletingUsers = {}
    Referrers = {{}}
    TwapMarkets = {}
    GenesisState <- FeePoolState
    GenesisUsers = {"alice", "bob"}
    GenesisMarkets = {0}
    GenesisMarketInit <- MCMarketInit
    GenesisOracle <- MCGenesisOracle
    GenesisDeposit = 200
    GenesisVault = 400
    TimeSteps = {}
    MaxNow = 0
    MaxDeposits = 0
    MaxTrades = 2
    MaxLiquidations = 0
    MaxCurveChanges = 1
INVARIANT PortionOfFeesRemains
