SPECIFICATION FairSpec
CONSTANTS
  Sandboxes = {sb1, sb2}
  StopCap = 1
  MaxOrders = 2
  MaxFailures = 1
  MaxRequests = 1
  MaxCrashes = 1
INVARIANTS TypeOK RunningIsBilled
PROPERTY OrdersComplete
