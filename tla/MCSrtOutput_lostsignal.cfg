SPECIFICATION TrafficSpec
CONSTANTS
  Socks = {k1}
  NoSock = NoSock
  NSlots = 1
  MaxClients = 1
  Faults = {"signal"}
PROPERTY StopIsHonoured
