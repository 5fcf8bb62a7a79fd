SPECIFICATION MCSpec
CONSTANT NoShare = NoShare
INVARIANTS ServersKnown HttpExact  SharesReadBack  
PROPERTIES NothingTakenBack
CHECK_DEADLOCK FALSE
