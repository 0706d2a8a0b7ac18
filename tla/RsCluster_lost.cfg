SPECIFICATION Spec
CONSTANTS
  n1 = n1
  n2 = n2
  n3 = n3
  i1 = i1
  i2 = i2
  i3 = i3
  i4 = i4
  b1 = b1
  b2 = b2
  f1 = f1
  f2 = f2
  c1 = c1
  NoEntry = NoEntry
  NoFile = NoFile
  Id <- MCId
  Block <- MCBlock
  Score <- MCScore
  RF = 2
  Restarts = {}
  Node = {n1, n2, n3}
  InitId <- MCInitId
  GlobalSync = {n1, n2, n3}
  Users = {n1}
  Getters = {n1}
  File = {f1}
  Content = {c1}
  BlocksOf <- MCBlocksOf1
  MaxOps = 2
INVARIANT NoBlockLost
CHECK_DEADLOCK FALSE
