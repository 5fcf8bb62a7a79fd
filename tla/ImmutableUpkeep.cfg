SPECIFICATION FairSpec
CONSTANTS
  SI = {s1}
  ShNum = {0, 1}
  Client = {c1}
  Val = {v1}
  NoClient = NoClient
  Hole = Hole
  NoFile = NoFile
  Size = 2
  Capacity = 3
  LeaseSize = 1
  MaxGen = 1
  Epoch = 10
  MaxNow = 13
  Duration = 1
  ReadOnly = FALSE
  Mode = "age"
  Override = 1
  Cutoff = 0
INVARIANTS NoOvercommit
PROPERTIES IncomingDrains 
CHECK_DEADLOCK FALSE
