CONSTANTS
    interactive = interactive
    background = background
    mcp = mcp
    export = export
    fullSync = fullSync
    Classes <- OneClass
    Sources <- TwoSources
    ClassOf <- AllInteractive
    Capacity <- CapacityTwo
    SourceLimit <- LimitOneTwo
    FairCycle <- CycleOne
    SourceCycle <- RotateTwo
    Spacing = 1
    Deadlines = {2}
    Releases = {0}
    Deferrable = {}
    MaxTicket = 3
    MaxTime = 2
SPECIFICATION Spec
INVARIANTS
    TypeOK CountersExact OutstandingBounded SlotsOwned PendingIsQueued
PROPERTIES
    GrantsAreTimely
CHECK_DEADLOCK FALSE
