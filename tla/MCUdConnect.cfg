CONSTANTS
  A = A
  B = B
  Ifaces = {A, B}
  Peer <- MCPeer
  MaxEps = 2
  GenMod = 4
  TxQueueLen = 2
  Bounds <- MCBounds
SPECIFICATION LiveSpec
INVARIANTS
  NoAssertionFails
  OneMatch
  PairsAgree
  
  DeliveredOnce
  AckedWasDelivered
PROPERTIES
  EveryoneConnects
  
CHECK_DEADLOCK FALSE
