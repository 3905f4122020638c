SPECIFICATION FairSpec
CONSTANTS
    Blocks <- MCBlocks
    Genesis = "g"
    Parent <- MCParent
    Num <- MCNum
    Start = "g"
    ChanSize = 1
    CacheSize = 2
    MaxReorgs = 2
INVARIANTS
    UnlinkedOnlyByReorg
    SideChainExact
    FailsOnlyPastFinality
PROPERTIES
    FollowsOneBranch
    OnlyForkedRecorded
    CatchesUp
