SPECIFICATION Spec
CHECK_DEADLOCK FALSE
CONSTANTS
    alice = alice
    bob = bob
    AMM_RESERVE_PRECISION = 20
    MARK_PRICE_PRECISION = 100
    QUOTE_PRECISION = 10
    FUNDING_PAYMENT_PRECISION = 10
    MARGIN_PRECISION = 10000
    PEG_PRECISION = 2
    ONE_HOUR = 1
    DEFAULT_MINIMUM_TRADE_SIZE = 4
    DISCOUNT_TOKEN_UNIT = 1
    Users = {alice, bob}
    Markets = {0}
    Admins = {"admin"}
    DepositAmounts = {}
    WithdrawAmounts = {}
    QuoteAmounts = {11, 40}
    LimitPrices = {0}
    DiscountTokens <- NoTokens
    MarketInits = {}
    OracleReadings <- FairPrice
    PegCandidates = {}
    SqrtKs = {}
    ReservePairs = {}
    FeeWithdrawals = {}
    InsuranceWithdrawals = {}
    TradeSizes = {}
    AdminChoices <- NoChoices
    DeletingUsers = {}
    Referrers = {{}}
    TwapMarkets = {}
    GenesisState <- MCState
    GenesisUsers = {alice, bob}
    GenesisMarkets = {0}
    GenesisMarketInit <- MCMarketInit
    GenesisOracle <- MCGenesisOracle
    GenesisDeposit = 100
    GenesisVault = 200
    TimeSteps = {}
    MaxNow = 0
    MaxDeposits = 0
    MaxTrades = 5
    MaxLiquidations = 0
    MaxCurveChanges = 0
SYMMETRY UserSymmetry
INVARIANT BooksBalance
INVARIANT EveryPositionClosable
INVARIANT MaxTradeIsWithinAStep
INVARIANT TargetTradeStopsAtTarget
PROPERTY ReserveMirrorsPosition
PROPERTY ClientForecastsTrades
