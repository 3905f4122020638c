SPECIFICATION Spec
CONSTANTS
    Blocks <- MCBlocks
    Genesis = "g"
    Parent <- MCParent
    Num <- MCNum
    Start = "g"
    ChanSize = 1
    CacheSize = 1
    MaxReorgs = 1
INVARIANTS
    WipeIsComplete
