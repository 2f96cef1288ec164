\* Every source value and target type of MCBencode.
CONSTANTS
    Nil = Nil
    MinWord <- MCMinWord
    MaxWord = 2
    MaxByte = 1
    BytesOf <- MCBytesOf
    Fold <- MCFold
    Target <- DstType
SPECIFICATION Spec
CHECK_DEADLOCK FALSE
INVARIANTS
    RoundTrip
    MisfitsAreLocal
    RawIsExact
    Canonical
