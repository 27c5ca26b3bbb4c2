CONSTANTS
    N = 2
    NumStates = 2
    next_state <- K2_next_state
    output <- K2_output
    Depth = 3
    Channels <- SomeChannels
    Streams <- SomeStreams
    Scale = 8
    MaxSteps = 3
SPECIFICATION Spec
INVARIANTS
    SurvivorsAreCheapest
    FastPathAgrees
    DiesOnlyOfErasure
CHECK_DEADLOCK FALSE
