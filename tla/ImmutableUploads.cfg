SPECIFICATION Spec
CONSTANTS
  SI = {s1}
  ShNum = {0}
  Client = {c1, c2}
  Val = {v1, v2}
  NoClient = NoClient
  Hole = Hole
  NoFile = NoFile
  Size = 2
  Capacity = 5
  LeaseSize = 1
  MaxGen = 3
  Epoch = 10
  MaxNow = 12
  Duration = 1
  ReadOnly = FALSE
  Mode = "age"
  Override = 1
  Cutoff = 0
INVARIANTS PromiseKept TypeOK WriterRegistry
PROPERTIES SharesImmutable
CHECK_DEADLOCK FALSE
