\* A UDP tracker and an HTTP tracker, with or without a third that is neither.
CONSTANT Lists <- BothKinds
SPECIFICATION FairSpec
CHECK_DEADLOCK FALSE
INVARIANTS
    ToldInOrder
    WaitTimeKnown
    OneTimer
PROPERTY CallsReturn
