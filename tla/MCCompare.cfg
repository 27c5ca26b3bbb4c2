CONSTANTS
    MaxWindowBits = 6
    HardWindowCap = 8
    IntMax = 127
    RecoveryMargin = 1
    SegmentFactor = 1
    MaxDrift = 1
    MaxCumulativeDrift = 2
    MaxCrossWindows = 26
    WarmupWindows = 22
    Codes <- SomeCodes
    Samples <- AllSamples
SPECIFICATION Spec
INVARIANTS
    NullSpaceIsComplement
    SpectrumCounts
    OffsetPathIsCheapest
    OwnChecksHold
    MinLengthIsSharp
    DegenerateIsNoCode
    DeclaresAtFirstEvidence
