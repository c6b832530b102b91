CONSTANTS
    room = room
    thread = thread
    other = other
    c1 = c1
    c2 = c2
    Scope <- ThreeScopes
    Channel <- TwoChannels
    ChannelOf <- MCChannelOf
    CreatedAt <- MCCreatedAt
    MaxEvents = 3
    MaxPerScope = 2
    MaxPerChannel = 2
    MaxBatch = 2
    MaxRetries = 1
    BaseDelay = 1
    MaxDelay = 2
    TurnDeadline = 2
    DedupMode = "drop"
    LateTurns = TRUE
SPECIFICATION Spec
INVARIANTS SettledStaysSettled
