SPECIFICATION ProxySpec
CONSTANTS
    Creates = {c1}
    Starts = {s1}
    CreateCost = 2
    StartCost = 1
    InitialBalance = 3
    BrokerEnabled = TRUE
    MaxDeposits = 1
    MaxAccruals = 1
    MaxMishaps = 1
    None = None
    p1 = p1
    p2 = p2
    alice = alice
    bob = bob
    op = op
    Providers <- TwoProviders
    Resources = {"r1"}
    Nonces = {"n1"}
    Window = 2
    SignedFor = 1
    Unit = 2
    Horizon = 7
    Handlers = {"h1", "h2"}
    MaxAccepts = 2
    Clients <- ThreeClients
    Creator = alice
    Admins <- Operators
    MaxFields = 3
    Tags = {"t1"}
    Digests = {"x", "y"}
    Names = {"n1"}
    Importers = {"i1", "i2"}
    MaxIds = 2
    MaxOps = 5
    FeeOf <- UnitFees
    Users <- TwoUsers
    Sandboxes = {"sb1", "sb2"}
    MaxEntries = 4
    MaxBalance = 6
INVARIANT  SignedOnce CreateAsAsked Guarded ImagesHold SplitIsLongestPrefix KeepsEveryUnit
PROPERTY Drains
CHECK_DEADLOCK FALSE
