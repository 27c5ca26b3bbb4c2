CONSTANTS
    N = 3
    MaxDrift = 1
    Depth = 2
    Indels = TRUE
    DriftSlack = 0
    FixedSlack = 0
    NumStates = 2
    next_state <- K2_next_state
    FatalErasures = {}
    NumCodes = 2
    ChunkSizes = {0, 4, 9}
    OutSizes = {1}
    StreamLength = 13
    ResumeAfterFlush = FALSE
    DrainBeforeFeed = FALSE
SPECIFICATION Spec
INVARIANTS
    Lockstep
    LockIsCarried
    TailByLock
PROPERTIES
    ImplementsStream
    DecisionsTraced
