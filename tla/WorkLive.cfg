SPECIFICATION AnySpec
CONSTANTS
    b = b
    m1 = m1
    k1 = k1
    None = None
    Messages = {m1}
    MaxAttempts = 2
    MaxOrder = 3
    MaxFaults = 1
PROPERTIES
    WorkEnds JobsFollowEvidence
CHECK_DEADLOCK FALSE
