CONSTANTS
  Capacity = 3
  PoliciesUsed = {"DROP_OLDEST", "BLOCK_WRITER", "DROP_NEWEST"}
  SpinLimit = 2
  MaxPackets = 5
  MaxCrashes = 2
  MaxFlushes = 1
  MaxUnderruns = 1
SPECIFICATION Spec
INVARIANTS TypeOK RefusingIsWhole NothingVanishes HeldIsNewestRun StatisticsAreHonest SafeUntilOvertaken
