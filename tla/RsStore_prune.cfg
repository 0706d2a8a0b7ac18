SPECIFICATION Spec
CONSTANTS
  d1 = d1
  d2 = d2
  t1 = t1
  t2 = t2
  f1 = f1
  f2 = f2
  b1 = b1
  b2 = b2
  NoEntry = NoEntry
  NoFile = NoFile
  NoTask = NoTask
  Torn = Torn
  File = {f1, f2}
  Block = {b1, b2}
  Owned = {b1}
  Daemon = {}
  Tui = {t1, t2}
  Teams <- MCUsers
  Crashes = FALSE
  MaxJobs = 3
PROPERTY PutHasBlocks
CHECK_DEADLOCK FALSE
