\* Three goroutines and types that contain each other.
CONSTANTS
    Goroutine = {g1, g2, g3}
    T = T
    P = P
    I = I
    Type = {T, P, I}
    Struct = {T}
    Iface = {I}
    Child <- MCChild
    NoRefs = NoRefs
    NoType = NoType
    MaxDepth = 1
SPECIFICATION Spec
CHECK_DEADLOCK FALSE
INVARIANTS
    NeverNil
    OneBuilder
    WaitedForIsBuilt
PROPERTIES
    CachesSettle
    CallsReturn
