SPECIFICATION AnySpec
CONSTANTS
    a = a
    b = b
    key1 = key1
    key2 = key2
    value1 = value1
    value2 = value2
    m1 = m1
    k1 = k1
    Messages = {m1}
    OperationKeys = {k1}
    Unset = Unset
    QueueChanges = 1
    QueueFaults = 1
    None = None
    Texts = {b}
    Want = b
    Legacy = TRUE
    Actions = {}
    MaxEdits = 2
    MaxSecond = 2
    MaxFaults = 1
    MaxCrash = 0
    Keys = {key1, key2}
    Values = {value1, value2}
    MaxOrder = 7
    MaxRestarts = 1
    MaxPush = 0
    MaxOther = 0
    MaxReset = 0
    MaxRefresh = 0
    MaxFail = 1
    MaxBegin = 2
SYMMETRY Interchangeable
INVARIANTS
    QuietIsTrue DraftFateKnown QueueIsTrue ContactFateKnown
PROPERTIES
    FreshClaim NothingGoesBack
CHECK_DEADLOCK FALSE
