SPECIFICATION Spec
CHECK_DEADLOCK FALSE
CONSTANTS
    Accounts = {"positions", "user"}
    Clients = {"alice", "bob"}
    Watched <- MCWatched
    GenesisAccounts <- MCAccounts
    GenesisCallbacks <- MCCallbacks
    Buffers = {"old", "new"}
    Genesis <- MCGenesis
    Writes <- MCWrites
    GET_MULTIPLE_ACCOUNTS_CHUNK_SIZE = 1
    MaxCalls = 3
    MaxLoads = 2
    MaxSlot = 2
INVARIANT NoStuckPromise
INVARIANT SubscribersSeeTheCache
PROPERTY CacheNeverGoesBack
PROPERTY StartersReturn
