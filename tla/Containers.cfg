SPECIFICATION MCSpec
CONSTANTS
  NoClient = NoClient
  NoFile = NoFile
  Client = {c1, c2, c3}
  One = {c0}
  ShNum = {0}
  Slots = 1
  MAX_SIZE = 4
  MaxVectors = 1
  Room = {TRUE, FALSE}
  MaxNow = 1
  MaxCrashes = 1
  WriteVectors <- LayoutWrites
  TestVectors <- LayoutTests
  NewLengths <- Lengths
  DataLen = 2
  MaxLeases = 3
  MaxShareTime = 3
  MaxShareCrashes = 2
SYMMETRY Symmetry
INVARIANTS ContainersSound
PROPERTIES SlotKeepsPromise
CHECK_DEADLOCK FALSE
