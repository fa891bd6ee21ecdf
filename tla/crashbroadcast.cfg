SPECIFICATION Spec
CONSTANTS
  Users <- TwoUsers
  Usages <- ThreeUnits
  UserOf <- UnitUser
  SandboxOf <- UnitSandbox
  FeeOf <- UnitFee
  MaxBatch = 3
  BacklogThreshold = 3
  Faults = {}
  CrashPoints = {"broadcast"}
  InitBalance = 2
  MaxTx = 2
  MaxMishaps = 1
  MaxEvents = 0
INVARIANTS NoDoubleCharge
CHECK_DEADLOCK FALSE
