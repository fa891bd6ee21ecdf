SPECIFICATION Spec
CONSTANTS
    Sandboxes = {a}
    Fund = fund
    Handlers = {h1}
    Slots = {s1, s2}
    Window = 0
    SeenTTL = 1
    ThresholdIntervals = 1
    TopupIntervals = 2
    FailedBackoff = 1
    TimeoutBackoff = 2
    CreateFee = 1
    MaxStarts = 1
    MaxBalance = 3
    MaxRestarts = 1
INVARIANT BoundedStranding
PROPERTY NoReplay FundedAgain
CHECK_DEADLOCK FALSE
