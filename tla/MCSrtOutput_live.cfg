SPECIFICATION FairSpec
CONSTANTS
  Socks = {k1, k2}
  NoSock = NoSock
  NSlots = 1
  MaxClients = 2
  Faults = {"signal", "logging", "stall"}
PROPERTIES LostClientsLeave PeersAreAnswered StopCompletes
