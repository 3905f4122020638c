SPECIFICATION Spec
CONSTANTS
    b1 = b1
    b2 = b2
    BackWorkers = {b1, b2}
    WorkChanSize = 1
    ChanSize = 2
    Width = 8
    FirstNum = 2
    BackSync = 2
    MaxNum = 4
    MaxForks = 1
SYMMETRY BackWorkerSymmetry
INVARIANTS
    NoSendAfterClose
    NoHeightLost
    NoHeightTwice
    ClosedMeansComplete
    ForwardInOrder
