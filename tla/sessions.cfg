SPECIFICATION FairSpec
CONSTANTS
  Sandboxes = {sb1}
  Nameless = Nameless
  Interval = 2
  ChunkIntervals = 2
  VouchersPerTick = 2
  SkipsBeforeConfirm = 2
  Downtime = 6
  MaxTime = 3
  MaxRequests = 3
  MaxMishaps = 1
INVARIANTS NextIsPaid NeverAhead BilledOnce
PROPERTIES PhantomClosed
