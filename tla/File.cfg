SPECIFICATION Spec
CONSTANTS
  s1 = s1
  s2 = s2
  w1 = w1
  w2 = w2
  r1 = r1
  NoShare = NoShare
  serverlist <- Two
  total_shares = 3
  required_shares = 2
  maxRetries = 2
  Scenes <- AllScenes
INVARIANTS UpdatesKept 
PROPERTIES SeqnumsRise Ends
CHECK_DEADLOCK FALSE
