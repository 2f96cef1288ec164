\* Two connections to two addresses, two needed pieces: can an interesting peer leave nothing to select?
CONSTANTS
    c1 = c1
    c2 = c2
    c3 = c3
    a1 = a1
    a2 = a2
    Conn = {c1, c3}
    Addr = {a1, a2}
    AddrOf <- MCAddrOf
    PieceNum = 3
    BlockNum = 2
    MaxRequest = 4
    MinData = 4
    InitNeed <- MCInitNeed
    Holds <- MCHolds
    NoRequest = NoRequest
    NoConn = NoConn
SPECIFICATION Spec
CHECK_DEADLOCK FALSE
INVARIANT InterestMeansSelectable
