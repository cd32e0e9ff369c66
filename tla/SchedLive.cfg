CONSTANTS
    interactive = interactive
    background = background
    mcp = mcp
    export = export
    fullSync = fullSync
    Classes <- OneClass
    Sources <- OneSource
    ClassOf <- AllInteractive
    Capacity <- CapacityTwo
    SourceLimit <- LimitOneTwo
    FairCycle <- CycleOne
    SourceCycle <- RotateOne
    Spacing = 1
    Deadlines = {1}
    Releases = {0, 2}
    Deferrable = {export}
    MaxTicket = 2
    MaxTime = 2
SPECIFICATION FairSpec
PROPERTIES
    EveryCallerAnswered
CHECK_DEADLOCK FALSE
