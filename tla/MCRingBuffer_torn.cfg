CONSTANTS
  Capacity = 3
  PoliciesUsed = {"DROP_OLDEST"}
  SpinLimit = 2
  MaxPackets = 6
  MaxCrashes = 0
  MaxFlushes = 0
  MaxUnderruns = 1
SPECIFICATION Spec
INVARIANTS NoTornDelivery
