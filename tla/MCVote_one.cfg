CONSTANTS
    NumCodes = 3
    MaxCost = 3
    Weight <- FiveQuarters
    ExpectedLock = 1
    ExpectedUnlock = 3
    Scale = 10
    Floors = {0}
    Margins = {10}
SPECIFICATION Spec
INVARIANT FullMarginNeverCommits
