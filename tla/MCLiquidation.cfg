SPECIFICATION Spec
CHECK_DEADLOCK FALSE
CONSTANTS
    alice = alice
    bob = bob
    AMM_RESERVE_PRECISION = 20
    MARK_PRICE_PRECISION = 100
    QUOTE_PRECISION = 10
    FUNDING_PAYMENT_PRECISION = 10
    MARGIN_PRECISION = 10000
    PEG_PRECISION = 2
    ONE_HOUR = 1
    DEFAULT_MINIMUM_TRADE_SIZE = 4
    DISCOUNT_TOKEN_UNIT = 1
    Users = {alice, bob}
    Markets = {0}
    Admins = {"admin"}
    DepositAmounts = {}
    WithdrawAmounts = {10}
    QuoteAmounts = {60}
    LimitPrices = {0}
    DiscountTokens <- NoTokens
    MarketInits = {}
    OracleReadings <- FairPrice
    PegCandidates = {}
    SqrtKs = {}
    ReservePairs = {}
    FeeWithdrawals = {}
    InsuranceWithdrawals = {1}
    TradeSizes = {}
    AdminChoices <- LiquidationChoices
    DeletingUsers = {}
    Referrers = {{}}
    TwapMarkets = {}
    GenesisState <- FundingState
    GenesisUsers = {alice, bob}
    GenesisMarkets = {0}
    GenesisMarketInit <- MCMarketInit
    GenesisOracle <- MCGenesisOracle
    GenesisDeposit = 20
    GenesisVault = 40
    TimeSteps = {24}
    MaxNow = 24
    MaxDeposits = 1
    MaxTrades = 3
    MaxLiquidations = 2
    MaxCurveChanges = 0
SYMMETRY UserSymmetry
INVARIANT TypeOK
INVARIANT MarketAccounting
INVARIANT ClientForeseesLiquidation
PROPERTY OnlyTheUnsafeAreLiquidated
PROPERTY LiquidationRestoresMargin
PROPERTY NoInstantLiquidation
PROPERTY LiquidationShrinks
