SPECIFICATION Spec
CONSTANTS
    a = a
    b = b
    s1 = s1
    s2 = s2
    c1 = c1
    c2 = c2
    Conn <- TwoConns
    SubId <- TwoSubs
    Channel <- TwoChannels
    MaxSubs = 1
    MaxHandlers = 2
    Plans <- ClosePlans
INVARIANT LiveAfterEose
CHECK_DEADLOCK FALSE
