\* All inputs of up to nine bytes.
CONSTANTS
    Byte <- MCByte
    Value <- MCValue
    Skipped = "x"
    Rest <- MCRest
    MaxLen = 9
    MaxNumber = 1000
SPECIFICATION Spec
CHECK_DEADLOCK FALSE
INVARIANTS
    AcceptsOnly
    AcceptsEncodings
    IntegersExact
