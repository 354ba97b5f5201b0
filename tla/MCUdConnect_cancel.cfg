CONSTANTS
  A = A
  B = B
  Ifaces = {A, B}
  Peer <- MCPeer
  MaxEps = 2
  GenMod = 4
  TxQueueLen = 2
  Bounds <- MCBoundsCancel
SPECIFICATION Spec
INVARIANT NoAssertionFails
CHECK_DEADLOCK FALSE
