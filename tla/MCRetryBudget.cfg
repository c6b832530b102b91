CONSTANTS
    room = room
    thread = thread
    other = other
    c1 = c1
    c2 = c2
    Scope <- TwoScopes
    Channel <- TwoChannels
    ChannelOf <- MCChannelOf
    CreatedAt <- MCCreatedAt
    MaxEvents = 1
    MaxPerScope = 2
    MaxPerChannel = 2
    MaxBatch = 2
    MaxRetries = 1
    BaseDelay = 1
    MaxDelay = 2
    TurnDeadline = 2
    DedupMode = "queue"
    LateTurns = FALSE
SPECIFICATION BudgetSpec
INVARIANT RetryBudgetHolds
