SPECIFICATION Spec
CHECK_DEADLOCK FALSE
CONSTANTS
    alice = alice
    bob = bob
    AMM_RESERVE_PRECISION = 20
    MARK_PRICE_PRECISION = 100
    QUOTE_PRECISION = 10
    FUNDING_PAYMENT_PRECISION = 10
    MARGIN_PRECISION = 10000
    PEG_PRECISION = 2
    ONE_HOUR = 1
    DEFAULT_MINIMUM_TRADE_SIZE = 4
    DISCOUNT_TOKEN_UNIT = 1
    Users = {alice, bob}
    Markets = {0}
    Admins = {"admin"}
    DepositAmounts = {}
    WithdrawAmounts = {}
    QuoteAmounts = {400}
    LimitPrices = {0}
    DiscountTokens <- NoTokens
    MarketInits = {}
    OracleReadings <- LowPrice
    PegCandidates = {}
    SqrtKs = {}
    ReservePairs = {}
    FeeWithdrawals = {}
    InsuranceWithdrawals = {}
    TradeSizes = {}
    AdminChoices <- NoChoices
    DeletingUsers = {}
    Referrers = {{}}
    TwapMarkets = {}
    GenesisState <- FundingState
    GenesisUsers = {alice, bob}
    GenesisMarkets = {0}
    GenesisMarketInit <- DeepMarketInit
    GenesisOracle <- MCGenesisOracle
    GenesisDeposit = 800
    GenesisVault = 1600
    TimeSteps = {16}
    MaxNow = 48
    MaxDeposits = 0
    MaxTrades = 4
    MaxLiquidations = 0
    MaxCurveChanges = 0
SYMMETRY UserSymmetry
INVARIANT SolventWhenFlat
INVARIANT ClientKnowsTheCollateral
INVARIANT FundingEstimateIsAffordable
PROPERTY FundingIsFunded
PROPERTY NoRetroactiveFunding
PROPERTY FundingOncePerPeriod
