SPECIFICATION FairSpec
CONSTANTS
    Channel = {"c1"}
    Started = {"c1", "membership"}
    Capacity = 1
    DedupLimit = 4
    Skew = 1
    FrameCap = 2
    PageLimit = 1
    Budgets <- MCBudgets
INVARIANTS
    TypeOK
    ActiveIsServed
    NothingSlipsBy
    RepeatsAreFarApart
    FramesAccounted
    FramesStayInOrder
PROPERTY CatchesUp
CHECK_DEADLOCK FALSE
