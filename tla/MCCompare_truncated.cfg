\* A low window cap, so that the samples exceed dv_compare_max_len.
CONSTANTS
    MaxWindowBits = 6
    HardWindowCap = 8
    IntMax = 127
    RecoveryMargin = 1
    SegmentFactor = 1
    MaxDrift = 1
    MaxCumulativeDrift = 2
    MaxCrossWindows = 10
    WarmupWindows = 22
    Codes <- SomeCodes
    Samples <- LongSamples
SPECIFICATION Spec
INVARIANT LongerChangesNothing
