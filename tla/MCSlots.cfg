SPECIFICATION Spec
CHECK_DEADLOCK FALSE
CONSTANTS
    AMM_RESERVE_PRECISION = 20
    MARK_PRICE_PRECISION = 100
    QUOTE_PRECISION = 10
    FUNDING_PAYMENT_PRECISION = 10
    MARGIN_PRECISION = 10000
    PEG_PRECISION = 2
    ONE_HOUR = 1
    DEFAULT_MINIMUM_TRADE_SIZE = 4
    DISCOUNT_TOKEN_UNIT = 1
    Users = {"alice"}
    Markets = {0, 1, 2, 3, 4, 5}
    Admins = {"admin"}
    DepositAmounts = {}
    WithdrawAmounts = {}
    QuoteAmounts = {11}
    LimitPrices = {150}
    DiscountTokens <- NoTokens
    MarketInits = {}
    OracleReadings <- FairPrice
    PegCandidates = {}
    SqrtKs = {}
    ReservePairs = {}
    FeeWithdrawals = {}
    InsuranceWithdrawals = {}
    TradeSizes = {}
    AdminChoices <- OtherShares
    DeletingUsers = {}
    Referrers = {{}}
    TwapMarkets = {}
    GenesisState <- MCState
    GenesisUsers = {"alice"}
    GenesisMarkets = {0, 1, 2, 3, 4, 5}
    GenesisMarketInit <- MCMarketInit
    GenesisOracle <- MCGenesisOracle
    GenesisDeposit = 200
    GenesisVault = 200
    TimeSteps = {}
    MaxNow = 0
    MaxDeposits = 0
    MaxTrades = 6
    MaxLiquidations = 0
    MaxCurveChanges = 0
INVARIANT UniqueSlotPerMarket
INVARIANT ClientFindsThePosition
