CONSTANTS
    K = 3
    Codes <- K3_codes
    n = 2
    IntMax = 7
    Inputs <- SmallInputs
    OutSizes = {0, 3, 4, 7}
    MaxLength = 6
SPECIFICATION Spec
INVARIANTS
    RegisterIsHistory
    SentIsConvolution
    WritesInBounds
    FlushClears
