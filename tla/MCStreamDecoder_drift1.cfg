CONSTANTS
    N = 2
    MaxDrift = 1
    Depth = 2
    Indels = TRUE
    DriftSlack = 0
    FixedSlack = 0
    NumStates = 2
    next_state <- K2_next_state
    FatalErasures = {}
    ChunkSizes = {0, 3, 4}
    OutSizes = {2}
    StreamLength = 11
    ResumeAfterFlush = TRUE
    DrainBeforeFeed = TRUE
SPECIFICATION FairSpec
INVARIANTS
    TraceIntact
    PathsAreContiguous
    RingLinked
    IInv
    SeesWholeReach
    FixedDelay
    FlushComplete
    CursorInBuffer
    BoundedMemory
PROPERTIES
    ImplementsLog
    ImplementsCadence
    FlushFinishes
