CONSTANTS
    N = 1
    MaxDrift = 1
    Depth = 3
    Indels = TRUE
    DriftSlack = 8
    FixedSlack = 64
    ChunkSizes = {0, 1, 3}
    OutSizes = {1, 2}
    MaxBacklog = 7
    ResumeAfterFlush = FALSE
SPECIFICATION FairSpec
PROPERTIES
    FlushReturnsZero
