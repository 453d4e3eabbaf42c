SPECIFICATION Spec
CHECK_DEADLOCK FALSE
CONSTANTS
    alice = alice
    bob = bob
    AMM_RESERVE_PRECISION = 20
    MARK_PRICE_PRECISION = 100
    QUOTE_PRECISION = 10
    FUNDING_PAYMENT_PRECISION = 10
    MARGIN_PRECISION = 10000
    PEG_PRECISION = 20
    ONE_HOUR = 1
    DEFAULT_MINIMUM_TRADE_SIZE = 4
    DISCOUNT_TOKEN_UNIT = 1
    Users = {alice, bob}
    Markets = {0}
    Admins = {"admin"}
    DepositAmounts = {}
    WithdrawAmounts = {}
    QuoteAmounts = {60}
    LimitPrices = {0}
    DiscountTokens <- SomeTokens
    MarketInits = {}
    OracleReadings <- PricesForRepeg
    PegCandidates = {19, 21}
    SqrtKs = {980, 1020}
    ReservePairs = {}
    FeeWithdrawals = {2}
    InsuranceWithdrawals = {}
    TradeSizes = {}
    AdminChoices <- PlainFees
    DeletingUsers = {}
    Referrers = {{}, {alice}, {bob}}
    TwapMarkets = {}
    GenesisState <- CurveState
    GenesisUsers = {alice, bob}
    GenesisMarkets = {0}
    GenesisMarketInit <- FinePegMarketInit
    GenesisOracle <- MCGenesisOracle
    GenesisDeposit = 200
    GenesisVault = 400
    TimeSteps = {}
    MaxNow = 0
    MaxDeposits = 0
    MaxTrades = 2
    MaxLiquidations = 0
    MaxCurveChanges = 2
SYMMETRY UserSymmetry
INVARIANT SolventWhenFlat
INVARIANT FeesAddUp
PROPERTY TradesLandOnCurve
PROPERTY ClientForecastsCosts
