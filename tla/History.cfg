SPECIFICATION AnySpec
CONSTANTS
    Dialogs = {1, 2}
    PageSize = 1
    MaxId = 2
    MaxGen = 1
    MaxFaults = 1
    MaxChanges = 0
    Private = TRUE
    HistoryPage = 1
    MaxGroup = 2
    MaxTop = 2
    MaxMoves = 2
    MaxUser = 3
    MaxRefusals = 1
INVARIANTS
    WalkHasNoGap
PROPERTIES
    RefreshServed AccessOnEvidence NeverTwice SweepComplete FactsSettle
CHECK_DEADLOCK FALSE
