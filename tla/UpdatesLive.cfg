SPECIFICATION AnySpec
CONSTANTS
    Callers = {sweep, delta}
    Slots = 1
    account1 = account1
    account2 = account2
    None = None
INVARIANTS
    SubmissionsKept
PROPERTIES
    EverythingDelivered CallsEnd InputMoves
CHECK_DEADLOCK FALSE
