SPECIFICATION Spec
CONSTANTS
    serverlist <- Four
    total_shares = 2
    required_shares = 1
    NoShare = NoShare
    Modes = {"MODE_READ", "MODE_WRITE", "MODE_REPAIR", "MODE_ANYTHING"}
    PlacedShares = 2
    Starts <- AllStarts
    Grids <- SomeGrids
    Corrupt <- OneCorrupt
    fetch_update_data = FALSE
    NewVersion <- V2
INVARIANTS EnoughKnown
PROPERTIES  Finishes
CHECK_DEADLOCK FALSE
