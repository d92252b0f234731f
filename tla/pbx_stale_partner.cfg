SPECIFICATION Spec
CONSTANTS
  c1 = c1
  c2 = c2
  c3 = c3
  Conns = {c1, c2, c3}
  NoConn = NoConn
  NExt = 3
  SockCap = 0
  FdLimit = 3
  Garbage <- ZeroMemory
  Unplugging = "orderly"
SYMMETRY ConnSymmetry
INVARIANTS ChatReachesPartner
