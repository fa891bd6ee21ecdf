SPECIFICATION Spec
CONSTANTS
  Users <- TwoUsers
  Usages <- ThreeUnits
  UserOf <- UnitUser
  SandboxOf <- UnitSandbox
  FeeOf <- UnitFee
  MaxBatch = 2
  BacklogThreshold = 1
  Faults = {"rpc", "sign", "peek", "hash", "load", "submit", "lost", "revert", "replace", "stale", "ack", "withdraw", "rotate", "aggregate", "compete"}
  CrashPoints = {"popped", "intent", "broadcast", "handled"}
  InitBalance = 1
  MaxTx = 2
  MaxMishaps = 1
  MaxEvents = 1
INVARIANTS NoncesIncrease
CHECK_DEADLOCK FALSE
