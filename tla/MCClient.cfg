SPECIFICATION Spec
CHECK_DEADLOCK FALSE
CONSTANTS
    app = app
    bot = bot
    feed = feed
    backup = backup
    Wallets = {"alice", "bob"}
    FirstWallet = "alice"
    Oracles = {feed, backup}
    Houses <- MCHouses
    Callers = {app, bot}
    MaxCalls = 3
    MaxSwitches = 2
    MaxKeys = 3
SYMMETRY Symmetry
INVARIANT ActsForTheCaller
INVARIANT UndisturbedCallsSucceed
PROPERTY HistoriesStay
