SPECIFICATION AnySpec
CONSTANTS
    a1 = a1
    a2 = a2
    p1 = p1
    h1 = h1
    None = None
    Requests = {"r"}
    Reads = {"r"}
    Budget = 1
    Base <- Delays
    Cap <- Ceilings
    Floor = 1
    Stability = 1
    Enabled = TRUE
    MaxStage = 1
    MaxFaults = 1
    MaxBoots = 2
PROPERTIES
    RequestsEnd FenceEnds WorkIsRun
CHECK_DEADLOCK FALSE
