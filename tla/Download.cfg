SPECIFICATION Spec
CONSTANTS
    Servers <- MCServers
    FileSize = 4
    K = 2
    N = 3
    Readers <- MCReaders
    Grids <- MCGrids
    max_outstanding_requests = 1
CHECK_DEADLOCK FALSE
INVARIANTS  SharesAccounted
 
