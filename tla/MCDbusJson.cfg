CONSTANTS
    SmallInt <- MCSmallInt
    BigInt <- MCBigInt
    Inputs <- Docs
    NotJson = NotJson
    Abort = Abort
SPECIFICATION Spec
INVARIANTS
    WellTyped
    RoundTripWithinInt
