SPECIFICATION Spec
CONSTANTS
    None = None
    o1 = o1
    o2 = o2
    s1 = s1
    u1 = u1
    u2 = u2
    p1 = p1
    p2 = p2
    wallet = wallet
    Wallets <- TwoWallets
    Static <- NoAdmins
    Ttl = 2
    RetryEvery = 1
    StaleCap = 4
    CallTime = 1
    MaxTransfers = 2
    MaxLookupFailures = 3
    Signers <- OneSigner
    Lease = 2
    RefreshAhead = 1
    ServeMargin = 0
    RetryInterval = 1
    MaxEpoch = 2
    MaxMoves = 1
    MaxBlocks = 5
    MaxIssues = 1
    Prices <- TwoPrices
    EnvRate = 7
    Minute = 2
    Kms = p1
    Foreign = p2
    MaxRestarts = 1
    MaxCrashes = 1
    MaxCharges = 2
    Users <- TwoUsers
    Samplers <- OneSampler
    Findings <- OneFinding
    DedupWindow = 1
    HistoryMaxLen = 5
    IndexedProviders <- TwoProviders
    Terms <- TwoTerms
    MaxUpdates = 2
    MaxIndexMoves = 2
    MaxFailures = 1
INVARIANT OwnerWindow VouchedFor  Heard 
PROPERTY  NoneFallsSilent
CHECK_DEADLOCK FALSE
