SPECIFICATION Spec
CONSTANTS
  Users <- TwoUsers
  Usages <- ThreeUnits
  UserOf <- UnitUser
  SandboxOf <- UnitSandbox
  FeeOf <- UnitFee
  MaxBatch = 2
  BacklogThreshold = 1
  Faults = {"sign", "submit", "revert", "replace", "stale", "withdraw", "rotate"}
  CrashPoints = {"loop", "inflight"}
  InitBalance = 1
  MaxTx = 5
  MaxMishaps = 2
  MaxEvents = 1
INVARIANTS NoDoubleCharge NothingLost BatchAtHead 
PROPERTY ImplementsLedger
