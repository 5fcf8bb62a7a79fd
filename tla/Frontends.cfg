SPECIFICATION MCSpec
INVARIANTS   CapsKept  
PROPERTIES RemovalNotUndone 
CHECK_DEADLOCK FALSE
