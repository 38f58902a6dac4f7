CONSTANTS
  Capacity = 3
  PoliciesUsed = {"BLOCK_WRITER", "DROP_NEWEST"}
  SpinLimit = 2
  MaxPackets = 4
  MaxCrashes = 1
  MaxFlushes = 1
  MaxUnderruns = 1
SPECIFICATION WriterFairSpec
PROPERTIES IsFifo WriterReturns PublishedIsDelivered
