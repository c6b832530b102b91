CONSTANTS
    room = room
    thread = thread
    other = other
    c1 = c1
    c2 = c2
    Scope <- TwoScopes
    Channel <- OneChannel
    ChannelOf <- MCChannelOf
    CreatedAt <- MCCreatedAt
    MaxEvents = 4
    MaxPerScope = 2
    MaxPerChannel = 3
    MaxBatch = 2
    MaxRetries = 1
    BaseDelay = 1
    MaxDelay = 2
    TurnDeadline = 2
    DedupMode = "queue"
    LateTurns = FALSE
SPECIFICATION Spec
INVARIANTS TypeOK AtMostOneCopy SettledStaysSettled CapsHold OneTurnPerScope
           CarryoverHasReason WithheldAwaitsAck SleepStrandsNothing
PROPERTY ShedOnlyWhenFull
