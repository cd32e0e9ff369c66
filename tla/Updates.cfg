SPECIFICATION AnySpec
CONSTANTS
    MaxUpdate = 3
    MaxBatch = 2
    MaxFaults = 3
    MaxOther = 1
    None = None
    Accounts = {account1, account2}
    MaxBytes = 3
    MaxEntry = 2
    MaxEntries = 2
    MaxCount = 2
    MaxRows = 2
    MaxSequence = 2
    MaxRuns = 2
    MaxWriterFaults = 1
    MaxLogouts = 1
    Channels = {"c"}
    Envelopes = {"e1", "e2"}
    Wait = 2
    MaxHolds = 2
INVARIANTS
    EffectsKeepOrder SessionCoversCheckpoint RingKeepsAccount
PROPERTIES
    ImplementsReliable TurnsAreTaken
CHECK_DEADLOCK FALSE
