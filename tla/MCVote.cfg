CONSTANTS
    NumCodes = 3
    MaxCost = 3
    Weight <- FiveQuarters
    ExpectedLock = 1
    ExpectedUnlock = 3
    Scale = 10
    Floors = {0, 10}
    Margins = {0, 4, 10}
SPECIFICATION Spec
INVARIANTS
    LeaderPrevails
    FavoursNeither
    EvidenceCounts
    UnanimityCommits
