CONSTANTS
    N = 2
    MaxDrift = 1
    Depth = 2
    Indels = TRUE
    DriftSlack = 0
    FixedSlack = 0
    NumStates = 2
    next_state <- K2_next_state
    FatalErasures = {}
    ChunkSizes = {1, 4}
    OutSizes = {1, 4}
    StreamLength = 10
    ResumeAfterFlush = TRUE
    DrainBeforeFeed = FALSE
SPECIFICATION Spec
PROPERTY DecisionsTraced
