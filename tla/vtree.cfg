SPECIFICATION FairSpec
CONSTANTS
  top = top
  d1 = d1
  d2 = d2
  locked = locked
  blind = blind
  f1 = f1
  f2 = f2
  f3 = f3
  f4 = f4
  f5 = f5
  f6 = f6
  gone = gone
  Dirs = {top, d1, d2, locked, blind}
  Files = {f1, f2, f3, f4, f5, f6}
  Gone = gone
  TopDir = top
  Readable = {top, d1, d2, blind}
  Searchable = {top, d1, d2, locked}
  Inode <- MCInode
  Trees <- MCTrees
  CommandLines <- MCCommandLines
  FdLimit = 12
  MAX_V_DEPTH = 256
  BUCKETS = 2
  EXTEND = 2
  CLEARS = 7
INVARIANTS TotalsExact CornersRight ClearsSound
PROPERTIES VtreeReturns
