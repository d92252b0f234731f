SPECIFICATION FairSpec
CONSTANTS
  c1 = c1
  c2 = c2
  Conns = {c1, c2}
  NoConn = NoConn
  NExt = 2
  SockCap = 1
  FdLimit = 2
  Garbage <- ZeroMemory
  Unplugging = "any"
INVARIANTS LockDiscipline SlotsSound ToldIsTrue
PROPERTIES SwitchIsLeft
