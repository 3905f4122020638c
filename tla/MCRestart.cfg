SPECIFICATION StartsSpec
CONSTANTS
    Width = 8
    MaxFlag = 9
    Back = 3
    MaxNum = 5
    MaxStops = 2
    MaxFails = 1
INVARIANTS
    WindowIsRequested
    NoGapBetweenSyncers
    NothingMissingAboveLatest
    NoHolesInOneLife
