CONSTANTS
    room = room
    thread = thread
    c1 = c1
    Scope <- OneThread
    Thread <- OneThread
    Channel <- OneChannel
    ChannelOf <- MCChannelOf
    NumAgents = 2
    HoldTimeout = 1
    Threshold = 1
    Window = 1
    Cooldown = 1
    Lazy = TRUE
    WakeDelay = 1
    MaxClaims = 2
CHECK_DEADLOCK FALSE
SPECIFICATION FairSpec
INVARIANTS RespawnFillsEmptySlot SleepLeavesNoTrace
PROPERTY WorkIsTaken
