\* A peer with two messages on their way at once.
CONSTANT Sender = {s1, s2}
SPECIFICATION FairSpec
CHECK_DEADLOCK FALSE
INVARIANTS
    NoWriteOnNil
    NoReadOnNil
PROPERTIES
    LivesOnce
    CloseHonoured
    RunNotStuck
