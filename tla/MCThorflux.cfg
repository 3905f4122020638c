SPECIFICATION FairSpec
CONSTANTS
    b1 = b1
    p1 = p1
    BackWorkers = {b1}
    WorkChanSize = 1
    ChanSize = 1
    Width = 8
    FirstNum = 1
    BackSync = 1
    MaxNum = 2
    MaxForks = 1
    Writes = {p1}
INVARIANTS
    NothingAfterClose
PROPERTIES
    ImplementsComponents
    SubscriberReceives
    StopReturnsUnlessForking
    JobCompletes
CHECK_DEADLOCK FALSE
