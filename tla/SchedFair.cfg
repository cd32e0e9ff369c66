CONSTANTS
    interactive = interactive
    background = background
    mcp = mcp
    export = export
    fullSync = fullSync
    Classes <- MCClasses
    Sources <- MCSources
    ClassOf <- MCClassOf
    Capacity <- MCCapacity
    SourceLimit <- MCSourceLimit
    FairCycle <- MCFairCycle
    SourceCycle <- MCSourceCycle
    Spacing = 1
    Deadlines = {1}
    Releases = {0}
    Deferrable = {}
    MaxTicket = 4
    MaxTime = 1
SPECIFICATION TurnsSpec
INVARIANTS
    SharesAreFair
CHECK_DEADLOCK FALSE
