CONSTANTS
    room = room
    thread = thread
    c1 = c1
    Scope <- TwoScopes
    Thread <- OneThread
    Channel <- OneChannel
    ChannelOf <- MCChannelOf
    NumAgents = 2
    HoldTimeout = 1
    Threshold = 2
    Window = 1
    Cooldown = 1
    Lazy = FALSE
    WakeDelay = 1
    MaxClaims = 2
CHECK_DEADLOCK FALSE
SPECIFICATION Spec
INVARIANTS TypeOK IdleSessionsAreOwned RemovedSessionIsGone
PROPERTIES ExpiredHoldIsSticky BreakerPacesRespawns
