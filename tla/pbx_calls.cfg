SPECIFICATION Spec
CONSTANTS
  c1 = c1
  c2 = c2
  c3 = c3
  c4 = c4
  Conns = {c1, c2, c3, c4}
  NoConn = NoConn
  NExt = 3
  SockCap = 0
  FdLimit = 3
  Garbage <- ZeroMemory
  Unplugging = "quiet"
SYMMETRY ConnSymmetry
INVARIANTS TypeOK CallsSymmetric ChatReachesPartner ExtensionsIdentify
PROPERTIES ExchangeRefined
