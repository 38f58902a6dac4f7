SPECIFICATION Spec
CONSTANTS
  Socks = {k1, k2, k3}
  NoSock = NoSock
  NSlots = 3
  MaxClients = 2
  Faults = {"signal", "logging", "epoll", "udp", "api", "stall"}
SYMMETRY SocksSymmetry
INVARIANTS TypeOK CountIsHonest NeverOverLimit SocketsHaveOneOwner
PROPERTY CheckDropsOnlyLost
