SPECIFICATION FairStatsSpec
CONSTANTS
    v1 = v1
    v2 = v2
    v3 = v3
    a1 = a1
    a2 = a2
    AuthorityNodes <- MCAuthorityNodes
    Validators = {v1, v2, v3}
    NoAddress = NoAddress
    Weights = {1, 3}
    Width = 4
    BlockInterval = 2
    EpochLength = 3
    SeederInterval = 6
    ForkBlock = 7
    HayabusaTP = 2
    MaxBlock = 12
    MaxGap = 2
    Draw <- MCDraw
    Hash <- MCHash
    w1 = w1
    w2 = w2
    Workers = {w1, w2}
    Callers = {w1, w2}
    LastBlock = 3
    RefreshEvery = 2
    SlotWindow = 2
    SlotLength = 2
    TimeWidth = 16
    LongestGap = 4
    StalestGap = 1
    Interval = 2
    Keep = 3
    MaxTime = 6
INVARIANTS
    ChangesAddUp
    SkippedSlotsCharged
    HandlersAgree
    OutdatedOnlyByFailure
    SlotsAccounted
    PricesApart
PROPERTIES
    ExpectedWasPredicted
    PredictionComesTrue
    HandlerReturns
CHECK_DEADLOCK FALSE
