CONSTANTS
    Null = Null
    Codes <- FewCodes
    CodeCalls <- FewCalls
    Families <- FewFamilies
    MaxCodes = 3
    Params <- FewParams
    WidestDrift = 4
SPECIFICATION Spec
INVARIANTS
    NothingLeaks
    FreedOnce
    ReadyIsComplete
