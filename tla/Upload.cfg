CONSTANTS
  a = a
  b = b
  d = d
  source = source
  sink = sink
  NotAsked = NotAsked
  Ids <- MCIds
  Orders <- MCOrders
  Starts <- MCStarts
  total_shares = 3
  num_segments = 1
  MaxFaults = 2
  Client = {x, y}
  Size = 2
  MaxTries = 2
  MaxBreaks = 2
  MaxCrashes = 1
  NoFile = NoFile
SPECIFICATION MCSpec
INVARIANTS UploadOutcome HappinessExact
INVARIANTS CiphertextWhole NoSeekBack
PROPERTIES UploadEnds CiphertextKept Answered
