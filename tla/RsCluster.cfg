SPECIFICATION Spec
CONSTANTS
  n1 = n1
  n2 = n2
  n3 = n3
  i1 = i1
  i2 = i2
  i3 = i3
  i4 = i4
  b1 = b1
  b2 = b2
  f1 = f1
  f2 = f2
  c1 = c1
  NoEntry = NoEntry
  NoFile = NoFile
  Id <- MCId
  Block <- MCBlock
  Score <- MCScore
  RF = 2
  Restarts = {n1}
  Node = {n1,n2,n3}
  InitId <- MCInitId
  GlobalSync = {}
  Users = {n1, n2}
  Getters = {n1}
  File = {f1, f2}
  Content = {c1}
  BlocksOf <- MCBlocksOf2
  MaxOps = 3
SYMMETRY MCFileSymmetry
INVARIANTS TypeOK NeverCompleteWhileSyncing AgreesWithSort MinimalDisruption
PROPERTY OwnedBlocksKept
CHECK_DEADLOCK FALSE
