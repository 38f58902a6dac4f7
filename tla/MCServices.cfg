SPECIFICATION AnySpec
CONSTANTS
  Conns = {1, 2, 3}
  Addr <- OwnAddr
  Size = 2
  NClients = 2
  MaxRead = 2
  MaxDatagram = 2
  MaxUnits = 4
  MaxFaults = 2
  MaxSignals = 3
  Services = 2
  MuxArgs <- SomeArgs
  MaxPads = 2
  Ids = {"a", "b"}
  AsListings <- SomeListings
  Slots = 2
  AsHistory = 2
  MaxSamples = 3
  MaxEdits = 1
  MaxStops = 1
  Units = {"u"}
  MaxRequests = 6
  MaxTroubles = 3
  TsPids = {"a", "null"}
  AfLengths = {7, 8}
  Pcrs = {1, 2}
  LossRuns = {0, 1, 16}
  NewSteps = {1, 5}
  MaxTsPackets = 3
INVARIANTS ServicesTypeOK SlotsAreOwned StreamIsOrdered SlotServesOneStream InputRingIsReachable StreamsAreInTheirProgram ServicesGetLinked HistoriesAreOwn HistoriesAreKept StatisticsMatchTheStream
PROPERTIES StopCompletes TheInputComesBack StopReachesTheLoop DeletedUnitsEnd
CHECK_DEADLOCK FALSE
