SPECIFICATION AnySpec
CONSTANTS
    a1 = a1
    a2 = a2
    b1 = b1
    b2 = b2
    p1 = p1
    h1 = h1
    None = None
    Works = {p1, h1}
    DemandKinds = {"profile", "history"}
    DurableOrder <- ProfilesFirst
    KindOf <- WorkKinds
    Retained = {"profile"}
    Gated = {"history"}
    MaxRevision = 2
    MaxRefusals = 1
    Attempts = {a1, a2, b1, b2}
    Kind <- ReadsAndWrite
    Budget <- Budgets
    Earlier = {}
    Slots = 2
    MaxDrop = 1
    MaxSalt = 1
    MaxCrash = 1
    MaxFail = 0
SYMMETRY Alike
INVARIANTS
    WireSound WorkIsKept
PROPERTIES
    WritesAreFenced FloodRespected RecoveryIsBounded
CHECK_DEADLOCK FALSE
