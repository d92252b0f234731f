SPECIFICATION TesterSpec
CONSTANTS
  u1 = u1
  u2 = u2
  Units = {u1, u2}
  Ext = {0, 1}
  Dialled = {0, 1}
  NoExt = NoExt
  NoUnit = NoUnit
  Room = 2
INVARIANTS TesterTypeOK NoFalseAlarm AheadOnlyOnHook
PROPERTIES TestersGoOn
