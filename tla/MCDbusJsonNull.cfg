CONSTANTS
    SmallInt <- MCSmallInt
    BigInt <- MCBigInt
    Inputs <- PolicyDocs
    NotJson = NotJson
    Abort = Abort
SPECIFICATION Spec
INVARIANT NoAbort
