SPECIFICATION Spec
CONSTANTS
  Socks = {k1, k2}
  NoSock = NoSock
  NSlots = 2
  MaxClients = 2
  Faults = {}
PROPERTY RemovalsHitTheirTarget
