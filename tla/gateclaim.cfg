SPECIFICATION Spec
CONSTANTS
    Creates = {c1, c2}
    Starts = {}
    CreateCost = 2
    StartCost = 1
    InitialBalance = 3
    BrokerEnabled = FALSE
    MaxDeposits = 0
    MaxAccruals = 0
    MaxMishaps = 0
INVARIANT SeesEveryReservation
CHECK_DEADLOCK FALSE
