\* Two addresses, one of them connected twice; two pieces, of which fs.Need()
\* asks for the first; two blocks of four bytes per piece.
CONSTANTS
    c1 = c1
    c2 = c2
    c3 = c3
    a1 = a1
    a2 = a2
    Conn = {c1, c2, c3}
    Addr = {a1, a2}
    AddrOf <- MCAddrOf
    PieceNum = 2
    BlockNum = 2
    MaxRequest = 4
    MinData = 4
    InitNeed <- MCInitNeed
    Holds <- MCHolds
    NoRequest = NoRequest
    NoConn = NoConn
SPECIFICATION Spec
SYMMETRY Sym
CHECK_DEADLOCK FALSE
INVARIANTS
    RequestsInPiece
    OneRequestPerConnection
    FinishedIsWhole
    BytesCounted
