CONSTANTS
    room = room
    thread = thread
    c1 = c1
    Scope <- OneThread
    Thread <- OneThread
    Channel <- OneChannel
    ChannelOf <- MCChannelOf
    NumAgents = 2
    HoldTimeout = 1
    Threshold = 2
    Window = 1
    Cooldown = 1
    Lazy = FALSE
    WakeDelay = 1
    MaxClaims = 3
CHECK_DEADLOCK FALSE
SPECIFICATION Spec
INVARIANT RotatedSessionIsGone
