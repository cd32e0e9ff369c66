CONSTANTS
    interactive = interactive
    background = background
    mcp = mcp
    export = export
    fullSync = fullSync
    Classes <- OneClass
    Sources <- TwoSources
    ClassOf <- AllInteractive
    Capacity <- CapacityTwo
    SourceLimit <- LimitOneTwo
    FairCycle <- CycleOne
    SourceCycle <- RotateTwo
    Spacing = 1
    Deadlines = {3}
    Releases = {0, 1, 2}
    Deferrable = {}
    MaxTicket = 2
    MaxTime = 3
SPECIFICATION Spec
INVARIANT WorkConserving
CHECK_DEADLOCK FALSE
