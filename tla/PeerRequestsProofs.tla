------------------------- MODULE PeerRequestsProofs -------------------------
(***************************************************************************)
(* Proofs about PeerRequests for any number of connections, addresses,     *)
(* pieces and blocks per piece.                                            *)
(***************************************************************************)
EXTENDS PeerRequests, WellFoundedInduction, TLAPS

-----------------------------------------------------------------------------
(* Block boundaries.                                                       *)

\* A product is monotone in its first factor.
LEMMA TimesMonotone ==
    ASSUME NEW a \in Nat, NEW b \in Nat, NEW m \in Nat, a <= b
    PROVE  a * m <= b * m
<1>1. b * m = a * m + (b - a) * m
  BY SMT
<1>2. (b - a) * m >= 0
  BY b - a \in Nat, SMT
<1> QED
  BY <1>1, <1>2, SMT

\* A boundary before the end of the piece leaves room for a whole block, and
\* the end of that block is a boundary too.
LEMMA BoundaryStep ==
    ASSUME NEW o \in Boundary, o < PieceLength
    PROVE  o + MaxRequest \in Boundary /\ o + MaxRequest <= PieceLength
<1> USE RequestsAssumption
<1>1. PICK j \in 0 .. BlockNum : o = j * MaxRequest
  BY DEF Boundary
<1>2. j # BlockNum
  BY <1>1 DEF PieceLength
<1>3. j + 1 \in 0 .. BlockNum /\ j + 1 \in Nat /\ BlockNum \in Nat /\ MaxRequest \in Nat
  BY <1>2
<1>4. (j + 1) * MaxRequest = o + MaxRequest
  BY <1>1, <1>3, SMT
<1>5. (j + 1) * MaxRequest <= BlockNum * MaxRequest
  BY <1>3, TimesMonotone
<1> QED
  BY <1>3, <1>4, <1>5 DEF Boundary, PieceLength

\* Boundaries and the piece length are integers.
LEMMA BoundaryInt ==
    /\ Boundary \subseteq Nat
    /\ PieceLength \in Nat
    /\ 0 \in Boundary
    /\ MaxRequest <= PieceLength
<1> USE RequestsAssumption
<1>1. \A j \in Nat : j * MaxRequest \in Nat
  BY SMT
<1>2. Boundary \subseteq Nat /\ PieceLength \in Nat
  BY <1>1 DEF Boundary, PieceLength
<1>3. 0 * MaxRequest = 0
  BY SMT
<1>4. 1 * MaxRequest <= BlockNum * MaxRequest
  BY TimesMonotone
<1>5. 1 * MaxRequest = MaxRequest
  BY SMT
<1> QED
  BY <1>2, <1>3, <1>4, <1>5 DEF Boundary, PieceLength

\* nextRequest, called only when the request does not end the piece, keeps
\* every request inside the piece.
LEMMA NextRequestInPiece ==
    ASSUME NEW r \in Request, InPiece(r), End(r) < PieceLength
    PROVE  NextRequest(r) \in Request /\ InPiece(NextRequest(r))
<1> USE RequestsAssumption
<1> DEFINE e == End(r)
           n == NextRequest(r)
<1>1. r.begin \in Nat /\ r.length \in Int /\ e \in Int /\ PieceLength \in Nat
  BY BoundaryInt DEF InPiece, Request, End
<1>2. e \in Boundary
  <2>1. CASE r.length = MaxRequest
    BY <2>1, <1>1, BoundaryStep DEF InPiece, End
  <2>2. CASE r.length = 0
    BY <2>2, <1>1 DEF InPiece, End
  <2> QED
    BY <2>1, <2>2 DEF InPiece
<1>3. e + MaxRequest \in Boundary /\ e + MaxRequest <= PieceLength
  BY <1>2, BoundaryStep
<1> DEFINE l == IF e + r.length < PieceLength - MaxRequest
                THEN MaxRequest ELSE PieceLength - e - r.length
<1>0. n = [begin |-> e, length |-> l, stale |-> r.stale]
  BY DEF NextRequest
<1>4. n.begin = e /\ n.length = l
  BY <1>0
<1>5. n \in Request
  <2>1. l \in Int /\ r.stale \in BOOLEAN
    BY <1>1 DEF Request
  <2> HIDE DEF l
  <2> QED
    BY <1>0, <1>1, <2>1 DEF Request
<1>6. \/ n.length = MaxRequest
      \/ n.length = 0 /\ e = PieceLength - MaxRequest
  <2>1. CASE r.length = 0
    BY <2>1, <1>1, <1>4 DEF InPiece, End
  <2>2. CASE r.length = MaxRequest /\ e + MaxRequest < PieceLength
    <3>1. e + MaxRequest + MaxRequest <= PieceLength
      BY <2>2, <1>3, BoundaryStep, BoundaryInt
    <3> QED
      BY <2>2, <3>1, <1>1, <1>4
  <2>3. CASE r.length = MaxRequest /\ e + MaxRequest = PieceLength
    BY <2>3, <1>1, <1>4
  <2> QED
    BY <2>1, <2>2, <2>3, <1>1, <1>3 DEF InPiece
<1> QED
  BY <1>1, <1>2, <1>3, <1>4, <1>5, <1>6 DEF InPiece, End

-----------------------------------------------------------------------------
(* requestPiece.                                                           *)

\* m.requests or m.rejectRequest, well typed and inside the pieces.
GoodMap(m) ==
    /\ m \in [Piece -> Request \cup {NoRequest}]
    /\ \A i \in Piece : m[i] # NoRequest => InPiece(m[i])

\* The unanswered requests aq of connections with haveReq flags hr.
GoodAsked(aq, hr) ==
    /\ aq \in [Conn -> SUBSET Block]
    /\ hr \in [Conn -> BOOLEAN]
    /\ \A c \in Conn : /\ \A b \in aq[c] : InPiece(b)
                       /\ \A b1, b2 \in aq[c] : b1 = b2
                       /\ aq[c] # {} => hr[c]

\* A first request of a piece lies inside it.
LEMMA NewRequestInPiece == NewRequest \in Request /\ InPiece(NewRequest)
  BY RequestsAssumption, BoundaryInt DEF NewRequest, Request, InPiece, End

\* The age of a request does not move it.
LEMMA StampedInPiece ==
    ASSUME NEW b, b.begin \in Int, b.length \in Int, InPiece(b),
           NEW old \in BOOLEAN
    PROVE  Stamped(b, old) \in Request /\ InPiece(Stamped(b, old))
  BY DEF Stamped, Request, InPiece, End

\* requestPiece keeps the maps and the unanswered requests good, whichever of
\* its three branches it takes.
LEMMA RequestPieceGood ==
    ASSUME NEW p \in Conn, NEW i \in Piece, NEW rq, NEW rj, NEW aq,
           GoodMap(rq), GoodMap(rj), GoodAsked(aq, haveReq),
           RequestPiece(p, i, rq, rj, aq)
    PROVE  GoodMap(requests') /\ GoodMap(rejectRequest') /\ GoodAsked(asked', haveReq')
<1> USE RequestsAssumption
<1>1. CASE haveReq[p]
  BY <1>1 DEF RequestPiece
<1>2. CASE ~haveReq[p]
  <2> DEFINE continue == rq[i] # NoRequest /\ End(rq[i]) < PieceLength
             retry    == rq[i] = NoRequest /\ rj[i] # NoRequest
             r        == IF continue THEN NextRequest(rq[i])
                         ELSE IF retry THEN Stamped(rj[i], FALSE)
                         ELSE NewRequest
             b        == [index |-> i, begin |-> r.begin, length |-> r.length]
  <2>1. r \in Request /\ InPiece(r)
    <3>1. CASE continue
      <4>1. rq[i] \in Request /\ InPiece(rq[i]) /\ End(rq[i]) < PieceLength
        BY <3>1 DEF GoodMap
      <4> QED
        BY <3>1, <4>1, NextRequestInPiece
    <3>2. CASE ~continue /\ retry
      <4>1. rj[i] \in Request /\ InPiece(rj[i])
        BY <3>2 DEF GoodMap
      <4>2. r = Stamped(rj[i], FALSE)
        BY <3>2
      <4> QED
        BY <4>1, <4>2, StampedInPiece DEF Request
    <3>3. CASE ~continue /\ ~retry
      BY <3>3, NewRequestInPiece
    <3> QED
      BY <3>1, <3>2, <3>3
  <2>2. /\ requests' = [rq EXCEPT ![i] = r]
        /\ rejectRequest' = IF retry THEN [rj EXCEPT ![i] = NoRequest] ELSE rj
        /\ haveReq' = [haveReq EXCEPT ![p] = TRUE]
        /\ asked' = [aq EXCEPT ![p] = @ \cup {b}]
    BY <1>2 DEF RequestPiece, Send
  <2>3. b \in Block /\ InPiece(b)
    BY <2>1 DEF Block, Request, InPiece, End
  <2> HIDE DEF r, b
  <2>4. GoodMap(requests')
    BY <2>1, <2>2 DEF GoodMap
  <2>5. GoodMap(rejectRequest')
    BY <2>2 DEF GoodMap
  <2>6. aq[p] = {}
    BY <1>2 DEF GoodAsked
  <2>7. GoodAsked(asked', haveReq')
    <3>1. asked'[p] = {b} /\ haveReq'[p]
      BY <2>2, <2>6 DEF GoodAsked
    <3>2. \A c \in Conn \ {p} : asked'[c] = aq[c] /\ haveReq'[c] = haveReq[c]
      BY <2>2 DEF GoodAsked
    <3>3. asked' \in [Conn -> SUBSET Block] /\ haveReq' \in [Conn -> BOOLEAN]
      BY <2>2, <2>3 DEF GoodAsked
    <3> QED
      BY <2>3, <3>1, <3>2, <3>3 DEF GoodAsked
  <2> QED
    BY <2>4, <2>5, <2>7
<1> QED
  BY <1>1, <1>2

-----------------------------------------------------------------------------
(* Piece buffers.                                                          *)

\* The bytes that a block carries.
BytesOf(b) == [k \in 1 .. b.length |-> b.begin + k - 1]

\* Buffers whose bytes are the piece's from offset 0 on.
InOrder(s) == \A k \in 1 .. Len(s) : s[k] = k - 1

\* They are a sequence of integers.
LEMMA BytesOfSeq ==
    ASSUME NEW b, b.begin \in Int, b.length \in Nat
    PROVE  BytesOf(b) \in Seq(Int) /\ Len(BytesOf(b)) = b.length
<1> DEFINE l == b.length
<1>1. l \in Nat /\ \A k \in 1 .. l : b.begin + k - 1 \in Int
  OBVIOUS
<1>2. BytesOf(b) = [k \in 1 .. l |-> b.begin + k - 1]
  BY Zenon DEF BytesOf
<1> HIDE DEF l
<1>3. BytesOf(b) \in [1 .. l -> Int]
  BY <1>1, <1>2, Zenon
<1> HIDE DEF BytesOf
<1>4. BytesOf(b) \in Seq(Int) /\ Len(BytesOf(b)) = l
  BY <1>1, <1>3
<1> QED
  BY <1>4 DEF l

\* Writing a block behind a buffer makes it longer by the block.
LEMMA BufferLenWrite ==
    ASSUME NEW s \in Seq(Int), NEW b, b.begin \in Int, b.length \in Nat
    PROVE  /\ s \o BytesOf(b) \in Seq(Int)
           /\ BufferLen(s) \in Nat
           /\ BufferLen(s \o BytesOf(b)) = BufferLen(s) + b.length
<1>1. BytesOf(b) \in Seq(Int) /\ Len(BytesOf(b)) = b.length
  BY BytesOfSeq
<1> QED
  BY <1>1 DEF BufferLen

\* A block that starts where the buffer ends keeps its bytes in order.
LEMMA InOrderWrite ==
    ASSUME NEW s \in Seq(Int), NEW b, b.begin \in Int, b.length \in Nat,
           InOrder(s), BufferLen(s) = b.begin
    PROVE  InOrder(s \o BytesOf(b))
<1>1. BytesOf(b) \in Seq(Int) /\ Len(BytesOf(b)) = b.length
  BY BytesOfSeq
<1>2. \A k \in 1 .. b.length : BytesOf(b)[k] = b.begin + k - 1
  BY DEF BytesOf
<1>3. Len(s) = b.begin /\ Len(s) \in Nat
  BY DEF BufferLen
<1>4. Len(s \o BytesOf(b)) = Len(s) + b.length
  BY BufferLenWrite DEF BufferLen
<1>5. ASSUME NEW k \in 1 .. Len(s) + b.length
      PROVE  (s \o BytesOf(b))[k] = k - 1
  <2>1. k \in Int /\ 1 <= k /\ k <= Len(s) + b.length
    BY <1>3
  <2>2. CASE k <= Len(s)
    <3>1. (s \o BytesOf(b))[k] = s[k]
      BY <1>1, <2>1, <2>2
    <3>2. k \in 1 .. Len(s)
      BY <1>3, <2>1, <2>2
    <3> QED
      BY <3>1, <3>2 DEF InOrder
  <2>3. CASE k > Len(s)
    <3>1. k - Len(s) \in 1 .. b.length
      BY <1>3, <2>1, <2>3
    <3>2. (s \o BytesOf(b))[k] = BytesOf(b)[k - Len(s)]
      BY <1>1, <1>3, <2>1, <2>3
    <3>3. BytesOf(b)[k - Len(s)] = b.begin + (k - Len(s)) - 1
      BY <1>2, <3>1
    <3> QED
      BY <1>3, <2>1, <3>2, <3>3
  <2>4. k <= Len(s) \/ k > Len(s)
    BY <1>3, <2>1
  <2> QED
    BY <2>2, <2>3, <2>4, Zenon
<1> QED
  BY <1>4, <1>5, Zenon DEF InOrder

\* A buffer in order that is as long as the piece is the piece.
LEMMA InOrderIsPiece ==
    ASSUME NEW s \in Seq(Int), InOrder(s), BufferLen(s) = PieceLength
    PROVE  s = [k \in 1 .. PieceLength |-> k - 1]
<1>1. Len(s) = PieceLength /\ \A k \in 1 .. Len(s) : s[k] = k - 1
  BY DEF InOrder, BufferLen
<1>2. s = [k \in 1 .. Len(s) |-> s[k]]
  OBVIOUS
<1> QED
  BY <1>1, <1>2, Zenon

-----------------------------------------------------------------------------
(* The inductive invariant, in three parts that share no variable but      *)
(* fault: what was asked for, what was stored, and the rest.               *)

AskedPart ==
    GoodMap(requests) /\ GoodMap(rejectRequest) /\ GoodAsked(asked, haveReq)

\* FinishedIsWhole, with the length of the buffer for what is in it.
FinishedIsLong ==
    \A i \in Piece :
        /\ BufferLen(buffer[i]) <= PieceLength
        /\ i \in finish => BufferLen(buffer[i]) = PieceLength /\ i \notin need
        /\ fault = "none" /\ BufferLen(buffer[i]) = PieceLength => i \in finish

StoredPart ==
    /\ need \in SUBSET Piece
    /\ finish \in SUBSET Piece
    /\ buffer \in [Piece -> Seq(Int)]
    /\ \A i \in Piece : InOrder(buffer[i])
    /\ FinishedIsLong

ConnPart ==
    /\ peers \in [Addr -> Conn \cup {NoConn}]
    /\ state \in [Conn -> {"new", "running", "closing", "stop"}]
    /\ isChoke \in [Conn -> BOOLEAN]
    /\ bitmap \in [Conn -> SUBSET Piece]
    /\ interest \in SUBSET Addr
    /\ download \in Int
    /\ fault \in Faults

Inv == AskedPart /\ StoredPart /\ ConnPart

\* The stored part says that the finished pieces are whole.
LEMMA StoredIsWhole ==
    ASSUME StoredPart
    PROVE  FinishedIsWhole
<1>1. \A i \in Piece : BufferLen(buffer[i]) = PieceLength
                          => buffer[i] = [k \in 1 .. PieceLength |-> k - 1]
  <2> SUFFICES ASSUME NEW i \in Piece, BufferLen(buffer[i]) = PieceLength
               PROVE  buffer[i] = [k \in 1 .. PieceLength |-> k - 1]
    OBVIOUS
  <2>1. buffer[i] \in Seq(Int) /\ InOrder(buffer[i])
    BY DEF StoredPart
  <2> QED
    BY <2>1, InOrderIsPiece
<1>2. FinishedIsLong
  BY DEF StoredPart
<1> QED
  BY <1>1, <1>2, Zenon DEF FinishedIsLong, FinishedIsWhole

LEMMA InvImplies ==
    Inv => TypeOK /\ RequestsInPiece /\ OneRequestPerConnection /\ FinishedIsWhole
<1>1. AskedPart <=>
        /\ requests \in [Piece -> Request \cup {NoRequest}]
        /\ rejectRequest \in [Piece -> Request \cup {NoRequest}]
        /\ asked \in [Conn -> SUBSET Block]
        /\ haveReq \in [Conn -> BOOLEAN]
        /\ RequestsInPiece
        /\ OneRequestPerConnection
  BY Zenon DEF AskedPart, GoodMap, GoodAsked, RequestsInPiece, OneRequestPerConnection
<1> QED
  BY <1>1, StoredIsWhole, Zenon DEF Inv, StoredPart, ConnPart, TypeOK

\* A step that leaves the buffers and bitmaps alone keeps the stored part,
\* whatever becomes of Run.
LEMMA StoredUnchanged ==
    ASSUME StoredPart, fault = "none", UNCHANGED <<need, finish, buffer>>
    PROVE  StoredPart'
  BY DEF StoredPart, FinishedIsLong

\* A step that asks nobody and answers nothing keeps the asked part.
LEMMA AskedUnchanged ==
    ASSUME AskedPart, UNCHANGED <<requests, rejectRequest, asked, haveReq>>
    PROVE  AskedPart'
  BY DEF AskedPart

\* Dropping unanswered requests keeps them good.
LEMMA FewerAsked ==
    ASSUME NEW c \in Conn, NEW S, GoodAsked(asked, haveReq), S \subseteq asked[c]
    PROVE  GoodAsked([asked EXCEPT ![c] = S], haveReq)
<1> DEFINE aq == [asked EXCEPT ![c] = S]
<1>1. aq[c] = S /\ \A d \in Conn \ {c} : aq[d] = asked[d]
  BY DEF GoodAsked
<1>2. aq \in [Conn -> SUBSET Block]
  BY DEF GoodAsked
<1> HIDE DEF aq
<1> QED
  BY <1>1, <1>2 DEF GoodAsked

\* Storing a block that starts where the buffer ends, with the finish and need
\* bits as handlePiece sets them (or Run blocked before it sets them).
LEMMA StoreBlock ==
    ASSUME NEW b \in Block, StoredPart, fault = "none", InPiece(b), b.length # 0,
           Fits(b), SavePiece(b),
           \/ UNCHANGED fault /\ Account(b)
           \/ fault' = "blocked" /\ UNCHANGED <<finish, need>>
    PROVE  StoredPart'
<1> USE RequestsAssumption
<1> DEFINE i == b.index
<1>1. i \in Piece /\ b.begin \in Int /\ b.length \in Nat
  BY BoundaryInt DEF Block, InPiece
<1>2. buffer[i] \in Seq(Int) /\ buffer' = [buffer EXCEPT ![i] = @ \o BytesOf(b)]
  BY <1>1, Zenon DEF StoredPart, SavePiece, BytesOf
<1>3. /\ buffer[i] \o BytesOf(b) \in Seq(Int)
      /\ BufferLen(buffer[i] \o BytesOf(b)) = BufferLen(buffer[i]) + b.length
  BY <1>1, <1>2, BufferLenWrite
<1>4. /\ buffer' \in [Piece -> Seq(Int)]
      /\ buffer'[i] = buffer[i] \o BytesOf(b)
      /\ \A j \in Piece \ {i} : buffer'[j] = buffer[j]
  BY <1>1, <1>2, <1>3, Zenon DEF StoredPart
<1>5. \A j \in Piece : InOrder(buffer'[j])
  <2>1. \A j \in Piece : InOrder(buffer[j])
    BY DEF StoredPart
  <2>2. InOrder(buffer'[i])
    BY <1>1, <1>2, <1>4, <2>1, InOrderWrite DEF Fits
  <2> QED
    BY <1>4, <2>1, <2>2
<1>6. FinishedIsLong'
  <2>1. BufferLen(buffer'[i]) = b.begin + b.length
    BY <1>3, <1>4 DEF Fits
  <2>2. /\ b.begin \in Int /\ b.length \in Int /\ PieceLength \in Int
        /\ b.begin < PieceLength /\ b.begin + b.length <= PieceLength
    BY BoundaryInt DEF InPiece, End, Block
  <2>3. i \notin finish
    BY <1>1, <2>2 DEF StoredPart, FinishedIsLong, Fits
  <2>4. \A j \in Piece \ {i} : /\ j \in finish' <=> j \in finish
                               /\ j \in need' <=> j \in need
    BY DEF Account
  <2>5. SUFFICES ASSUME NEW j \in Piece
                 PROVE  /\ BufferLen(buffer'[j]) <= PieceLength
                        /\ j \in finish' => BufferLen(buffer'[j]) = PieceLength /\ j \notin need'
                        /\ fault' = "none" /\ BufferLen(buffer'[j]) = PieceLength => j \in finish'
    BY DEF FinishedIsLong
  <2>6. CASE j = i
    BY <2>1, <2>2, <2>3, <2>6 DEF Account
  <2>7. CASE j # i
    BY <1>4, <2>4, <2>7 DEF StoredPart, FinishedIsLong
  <2> QED
    BY <2>6, <2>7
<1>7. need' \in SUBSET Piece /\ finish' \in SUBSET Piece
  BY <1>1 DEF StoredPart, Account
<1> QED
  BY <1>4, <1>5, <1>6, <1>7 DEF StoredPart

-----------------------------------------------------------------------------
(* Every action keeps the invariant.                                       *)

LEMMA InitInv == Init => Inv
<1> SUFFICES ASSUME Init PROVE Inv
  OBVIOUS
<1> USE RequestsAssumption DEF Init
<1>1. AskedPart
  BY DEF AskedPart, GoodMap, GoodAsked
<1>2. StoredPart
  <2>1. <<>> \in Seq(Int) /\ Len(<<>>) = 0 /\ BufferLen(<<>>) = 0
    BY DEF BufferLen
  <2>2. PieceLength > 0
    BY BoundaryInt
  <2>3. \A i \in Piece : buffer[i] = <<>>
    OBVIOUS
  <2>4. \A i \in Piece : InOrder(buffer[i])
    BY <2>1, <2>3 DEF InOrder
  <2>5. FinishedIsLong
    BY <2>1, <2>2, <2>3, BoundaryInt DEF FinishedIsLong
  <2> QED
    BY <2>1, <2>4, <2>5 DEF StoredPart
<1>3. ConnPart
  BY DEF ConnPart, Faults
<1> QED
  BY <1>1, <1>2, <1>3 DEF Inv

\* Close and the connection's own end keep the state's type.
LEMMA CloseType ==
    ASSUME ConnPart, NEW p \in Conn, Close(p)
    PROVE  /\ state' \in [Conn -> {"new", "running", "closing", "stop"}]
           /\ fault' \in Faults
  BY DEF ConnPart, Close, Faults

LEMMA JoinInv ==
    ASSUME Inv, NEW c \in Conn, NEW choked \in BOOLEAN, Join(c, choked)
    PROVE  Inv'
<1>1. AskedPart' /\ StoredPart'
  BY AskedUnchanged, StoredUnchanged DEF Inv, Join, managerVars
<1>2. ConnPart'
  BY RequestsAssumption DEF Inv, ConnPart, Join, managerVars
<1> QED
  BY <1>1, <1>2 DEF Inv

LEMMA StopInv ==
    ASSUME Inv, NEW c \in Conn, Stop(c)
    PROVE  Inv'
<1>1. AskedPart'
  BY FewerAsked, {} \subseteq asked[c] DEF Inv, AskedPart, Stop, managerVars
<1>2. StoredPart'
  BY StoredUnchanged DEF Inv, Stop, managerVars
<1>3. ConnPart'
  BY DEF Inv, ConnPart, Stop, managerVars
<1> QED
  BY <1>1, <1>2, <1>3 DEF Inv

LEMMA ExpireInv ==
    ASSUME Inv, NEW i \in Piece, Expire(i)
    PROVE  Inv'
<1>1. requests[i] \in Request /\ InPiece(requests[i])
  BY DEF Inv, AskedPart, GoodMap, Expire
<1>2. Stamped(requests[i], TRUE) \in Request /\ InPiece(Stamped(requests[i], TRUE))
  BY <1>1, StampedInPiece DEF Request
<1>3. GoodMap(requests')
  BY <1>2 DEF Inv, AskedPart, GoodMap, Expire
<1>4. AskedPart'
  BY <1>3 DEF Inv, AskedPart, Expire, peerVars
<1>5. StoredPart'
  BY StoredUnchanged DEF Inv, Expire
<1>6. ConnPart'
  BY DEF Inv, ConnPart, Expire, peerVars
<1> QED
  BY <1>4, <1>5, <1>6 DEF Inv

LEMMA ForgetStoppedInv ==
    ASSUME Inv, ForgetStopped
    PROVE  Inv'
<1>1. AskedPart' /\ StoredPart'
  BY AskedUnchanged, StoredUnchanged DEF Inv, ForgetStopped, peerVars
<1>2. ConnPart'
  BY DEF Inv, ConnPart, ForgetStopped, peerVars
<1> QED
  BY <1>1, <1>2 DEF Inv

LEMMA HandleChokeInv ==
    ASSUME Inv, NEW c \in Conn, NEW p \in Conn, HandleChoke(c, p)
    PROVE  Inv'
<1>1. AskedPart' /\ StoredPart'
  BY AskedUnchanged, StoredUnchanged DEF Inv, HandleChoke, Delivers, managerVars
<1>2. ConnPart'
  BY DEF Inv, ConnPart, HandleChoke, managerVars
<1> QED
  BY <1>1, <1>2 DEF Inv

\* selectPiece either leaves the maps to requestPiece or moves a timed-out
\* request to rejectRequest first.
LEMMA SelectAndRequestGood ==
    ASSUME AskedPart, fault \in Faults, NEW p \in Conn, SelectAndRequest(p)
    PROVE  AskedPart' /\ fault' \in Faults
<1>1. CASE \E i \in Retriable(p) : /\ RequestPiece(p, i, requests, rejectRequest, asked)
                                   /\ UNCHANGED fault
  BY <1>1, RequestPieceGood DEF AskedPart, Retriable
<1>2. CASE \E i \in Selectable(p) :
             /\ IF requests[i] = NoRequest
                THEN RequestPiece(p, i, requests, rejectRequest, asked)
                ELSE RequestPiece(p, i, [requests EXCEPT ![i] = NoRequest],
                                  [rejectRequest EXCEPT ![i] = requests[i]],
                                  asked)
             /\ UNCHANGED fault
  <2>1. PICK i \in Selectable(p) :
             /\ IF requests[i] = NoRequest
                THEN RequestPiece(p, i, requests, rejectRequest, asked)
                ELSE RequestPiece(p, i, [requests EXCEPT ![i] = NoRequest],
                                  [rejectRequest EXCEPT ![i] = requests[i]],
                                  asked)
             /\ UNCHANGED fault
    BY <1>2
  <2>2. i \in Piece
    BY DEF Selectable
  <2>3. CASE requests[i] = NoRequest
    BY <2>1, <2>2, <2>3, RequestPieceGood DEF AskedPart
  <2>4. CASE requests[i] # NoRequest
    <3> DEFINE rq == [requests EXCEPT ![i] = NoRequest]
               rj == [rejectRequest EXCEPT ![i] = requests[i]]
    <3>1. GoodMap(rq)
      BY <2>2 DEF AskedPart, GoodMap
    <3>2. GoodMap(rj)
      BY <2>2, <2>4 DEF AskedPart, GoodMap
    <3>3. RequestPiece(p, i, rq, rj, asked)
      BY <2>1, <2>4
    <3> HIDE DEF rq, rj
    <3>4. GoodMap(requests') /\ GoodMap(rejectRequest') /\ GoodAsked(asked', haveReq')
      BY <2>2, <3>1, <3>2, <3>3, RequestPieceGood DEF AskedPart
    <3> QED
      BY <2>1, <3>4 DEF AskedPart
  <2> QED
    BY <2>3, <2>4
<1>3. CASE fault' = "noPieceSelected" /\ UNCHANGED <<requests, rejectRequest, haveReq, asked>>
  BY <1>3, AskedUnchanged DEF Faults
<1> QED
  BY <1>1, <1>2, <1>3 DEF SelectAndRequest

LEMMA HandleUnchokeInv ==
    ASSUME Inv, NEW c \in Conn, NEW p \in Conn, HandleUnchoke(c, p)
    PROVE  Inv'
<1>1. AskedPart' /\ fault' \in Faults
  <2>1. CASE AddrOf[p] \in interest \/ IsInterest(p)
    BY <2>1, SelectAndRequestGood DEF Inv, ConnPart, HandleUnchoke
  <2>2. CASE ~(AddrOf[p] \in interest \/ IsInterest(p))
    BY <2>2, AskedUnchanged DEF Inv, ConnPart, HandleUnchoke
  <2> QED
    BY <2>1, <2>2
<1>2. StoredPart'
  BY StoredUnchanged DEF Inv, HandleUnchoke, Delivers
<1>3. interest' \in SUBSET Addr
  <2>1. interest' = interest \cup {AddrOf[p]} \/ interest' = interest
    BY Zenon DEF HandleUnchoke
  <2> QED
    BY <2>1, RequestsAssumption DEF Inv, ConnPart
<1>4. download' = download
  BY DEF HandleUnchoke
<1>5. ConnPart'
  BY <1>1, <1>3, <1>4 DEF Inv, ConnPart, HandleUnchoke
<1> QED
  BY <1>1, <1>2, <1>5 DEF Inv

LEMMA HandleHaveInv ==
    ASSUME Inv, NEW c \in Conn, NEW p \in Conn, NEW i \in Piece, HandleHave(c, p, i)
    PROVE  Inv'
<1>1. AskedPart'
  <2>1. CASE ~isChoke[p] /\ AddrOf[p] \notin interest /\ i \in need
    BY <2>1, RequestPieceGood DEF Inv, AskedPart, HandleHave
  <2>2. CASE ~(~isChoke[p] /\ AddrOf[p] \notin interest /\ i \in need)
    BY <2>2, AskedUnchanged DEF Inv, HandleHave
  <2> QED
    BY <2>1, <2>2
<1>2. StoredPart'
  BY StoredUnchanged DEF Inv, HandleHave, Delivers
<1>3. interest' \in SUBSET Addr
  <2>1. interest' = interest \cup {AddrOf[p]} \/ interest' = interest
    BY Zenon DEF HandleHave
  <2> QED
    BY <2>1, RequestsAssumption DEF Inv, ConnPart
<1>4. ConnPart'
  BY <1>3 DEF Inv, ConnPart, HandleHave
<1> QED
  BY <1>1, <1>2, <1>4 DEF Inv

LEMMA HandleFieldInv ==
    ASSUME Inv, NEW c \in Conn, NEW p \in Conn, NEW field \in SUBSET Piece,
           HandleField(c, p, field)
    PROVE  Inv'
<1>1. AskedPart' /\ StoredPart'
  BY AskedUnchanged, StoredUnchanged DEF Inv, HandleField, Delivers
<1>2. ConnPart'
  BY RequestsAssumption DEF Inv, ConnPart, HandleField
<1> QED
  BY <1>1, <1>2 DEF Inv

LEMMA HandleSuggestInv ==
    ASSUME Inv, NEW c \in Conn, NEW p \in Conn, NEW i \in Piece, HandleSuggest(c, p, i)
    PROVE  Inv'
<1>1. AskedPart'
  BY RequestPieceGood DEF Inv, AskedPart, HandleSuggest
<1>2. StoredPart'
  BY StoredUnchanged DEF Inv, HandleSuggest, Delivers
<1>3. ConnPart'
  BY DEF Inv, ConnPart, HandleSuggest
<1> QED
  BY <1>1, <1>2, <1>3 DEF Inv

LEMMA HandlePieceInv ==
    ASSUME Inv, NEW c \in Conn, NEW p \in Conn, NEW b \in asked[c], HandlePiece(c, p, b)
    PROVE  Inv'
<1> USE RequestsAssumption
<1> DEFINE answered == [asked EXCEPT ![c] = @ \ {b}]
           i        == b.index
<1>1. b \in Block /\ InPiece(b) /\ i \in Piece /\ b.length \in Int
  BY DEF Inv, AskedPart, GoodAsked, Block
<1>2. GoodAsked(answered, haveReq)
  BY FewerAsked, asked[c] \ {b} \subseteq asked[c] DEF Inv, AskedPart
<1>3. fault = "none" /\ UNCHANGED <<peers, isChoke, bitmap>>
  BY DEF HandlePiece, Delivers
<1> HIDE DEF answered
<1>4. CASE /\ b.length < MinData
           /\ fault' = "nilBlock"
           /\ asked' = answered
           /\ UNCHANGED <<managerVars, state, haveReq>>
  <2>1. AskedPart' /\ StoredPart'
    BY <1>2, <1>3, <1>4, StoredUnchanged DEF Inv, AskedPart, managerVars
  <2>2. ConnPart'
    BY <1>3, <1>4 DEF Inv, ConnPart, managerVars, Faults
  <2> QED
    BY <2>1, <2>2 DEF Inv
<1>5. CASE /\ Close(p)
           /\ asked' = answered
           /\ UNCHANGED <<managerVars, haveReq>>
  <2>1. AskedPart' /\ StoredPart'
    BY <1>2, <1>3, <1>5, StoredUnchanged DEF Inv, AskedPart, managerVars
  <2>2. ConnPart'
    BY <1>3, <1>5, CloseType DEF Inv, ConnPart, managerVars
  <2> QED
    BY <2>1, <2>2 DEF Inv
<1>6. CASE /\ b.length >= MinData
           /\ Fits(b)
           /\ SavePiece(b)
           /\ Account(b)
           /\ RequestPiece(p, i, requests, rejectRequest, answered)
           /\ UNCHANGED <<interest, state, fault>>
  <2>1. b.length # 0
    BY <1>1, <1>6
  <2>2. StoredPart'
    BY <1>1, <1>3, <1>6, <2>1, StoreBlock DEF Inv
  <2>3. AskedPart'
    BY <1>1, <1>2, <1>6, RequestPieceGood DEF Inv, AskedPart
  <2>4. ConnPart'
    BY <1>1, <1>3, <1>6 DEF Inv, ConnPart, Account
  <2> QED
    BY <2>2, <2>3, <2>4 DEF Inv
<1>7. CASE /\ b.length >= MinData
           /\ Fits(b)
           /\ SavePiece(b)
           /\ fault' = "blocked"
           /\ asked' = answered
           /\ UNCHANGED <<interest, requests, rejectRequest, need, finish,
                          download, state, haveReq>>
  <2>1. b.length # 0
    BY <1>1, <1>7
  <2>2. StoredPart'
    BY <1>1, <1>3, <1>7, <2>1, StoreBlock DEF Inv
  <2>3. AskedPart'
    BY <1>2, <1>7 DEF Inv, AskedPart
  <2>4. ConnPart'
    BY <1>3, <1>7 DEF Inv, ConnPart, Faults
  <2> QED
    BY <2>2, <2>3, <2>4 DEF Inv
<1> QED
  BY <1>4, <1>5, <1>6, <1>7 DEF HandlePiece, answered

LEMMA HandleRejectReqInv ==
    ASSUME Inv, NEW c \in Conn, NEW p \in Conn, NEW b \in asked[c], HandleRejectReq(c, p, b)
    PROVE  Inv'
<1>1. b \in Block /\ InPiece(b)
  BY DEF Inv, AskedPart, GoodAsked
<1>2. GoodAsked(asked', haveReq')
  BY FewerAsked, asked[c] \ {b} \subseteq asked[c] DEF Inv, AskedPart, HandleRejectReq
<1>3. StoredPart'
  BY StoredUnchanged DEF Inv, HandleRejectReq, Delivers
<1>4. CASE requests[b.index] = NoRequest
  <2>1. AskedPart'
    BY <1>2, <1>4 DEF Inv, AskedPart, HandleRejectReq
  <2>2. ConnPart'
    BY <1>4, CloseType DEF Inv, ConnPart, HandleRejectReq
  <2> QED
    BY <1>3, <2>1, <2>2 DEF Inv
<1>5. CASE requests[b.index] # NoRequest
  <2>1. Stamped(b, FALSE) \in Request /\ InPiece(Stamped(b, FALSE))
    BY <1>1, StampedInPiece DEF Block
  <2>2. GoodMap(rejectRequest')
    BY <1>1, <1>5, <2>1 DEF Inv, AskedPart, GoodMap, HandleRejectReq, Block
  <2>3. AskedPart'
    BY <1>2, <2>2 DEF Inv, AskedPart, HandleRejectReq
  <2>4. ConnPart'
    BY <1>5 DEF Inv, ConnPart, HandleRejectReq
  <2> QED
    BY <1>3, <2>3, <2>4 DEF Inv
<1> QED
  BY <1>4, <1>5

LEMMA HandleUnknownInv ==
    ASSUME Inv, NEW c \in Conn, NEW p \in Conn, HandleUnknown(c, p)
    PROVE  Inv'
<1>1. AskedPart' /\ StoredPart'
  BY AskedUnchanged, StoredUnchanged DEF Inv, HandleUnknown, Delivers, managerVars
<1>2. ConnPart'
  BY DEF Inv, ConnPart, HandleUnknown, managerVars, Faults
<1> QED
  BY <1>1, <1>2 DEF Inv

LEMMA DropAnswerInv ==
    ASSUME Inv, NEW c \in Conn, NEW b \in asked[c], DropAnswer(c, b)
    PROVE  Inv'
<1>1. AskedPart'
  BY FewerAsked, asked[c] \ {b} \subseteq asked[c]
     DEF Inv, AskedPart, DropAnswer, managerVars, peerVars
<1>2. StoredPart'
  BY StoredUnchanged DEF Inv, DropAnswer, managerVars
<1>3. ConnPart'
  BY DEF Inv, ConnPart, DropAnswer, managerVars, peerVars
<1> QED
  BY <1>1, <1>2, <1>3 DEF Inv

LEMMA NextInv == Inv /\ [Next]_vars => Inv'
<1> SUFFICES ASSUME Inv, [Next]_vars PROVE Inv'
  OBVIOUS
<1>1. CASE UNCHANGED vars
  BY <1>1 DEF Inv, AskedPart, StoredPart, ConnPart, FinishedIsLong,
              vars, managerVars, peerVars
<1>2. ASSUME NEW c \in Conn, NEW i \in Holds[c] PROVE i \in Piece
  BY RequestsAssumption
<1>3. ASSUME NEW c \in Conn, NEW field \in {{}, Holds[c]} PROVE field \in SUBSET Piece
  BY RequestsAssumption
<1>4. CASE Next
  BY <1>2, <1>3, <1>4, JoinInv, StopInv, ExpireInv, ForgetStoppedInv, HandleChokeInv,
     HandleUnchokeInv, HandleHaveInv, HandleFieldInv, HandleSuggestInv, HandlePieceInv,
     HandleRejectReqInv, HandleUnknownInv, DropAnswerInv
     DEF Next
<1> QED
  BY <1>1, <1>4

-----------------------------------------------------------------------------
(* The theorems.                                                           *)

\* Every behaviour keeps the inductive invariant.
THEOREM Invariance == Spec => []Inv
  BY InitInv, NextInv, PTL DEF Spec

\* Type correctness of the request scheduler (peer/manager.go).
THEOREM TypeCorrect == Spec => []TypeOK
<1>1. Inv => TypeOK
  BY InvImplies
<1> QED
  BY <1>1, Invariance, PTL

\* requestPiece and nextRequest never leave the piece or its block boundaries.
THEOREM RequestsStayInPiece == Spec => []RequestsInPiece
<1>1. Inv => RequestsInPiece
  BY InvImplies
<1> QED
  BY <1>1, Invariance, PTL

\* A connection never owes two answers.
THEOREM AtMostOneRequest == Spec => []OneRequestPerConnection
<1>1. Inv => OneRequestPerConnection
  BY InvImplies
<1> QED
  BY <1>1, Invariance, PTL

\* The pieces whose finish bit handlePiece has set are whole: the buffer is
\* the piece, byte for byte.
THEOREM FinishedPiecesWhole == Spec => []FinishedIsWhole
<1>1. Inv => FinishedIsWhole
  BY InvImplies
<1> QED
  BY <1>1, Invariance, PTL

-----------------------------------------------------------------------------
(* The bytes that are counted.                                             *)

\* A set of numbers that is not empty has a least one: what induction over
\* pieces rests on.
LEMMA LeastNumber ==
    ASSUME NEW T \in SUBSET Nat, T # {}
    PROVE  \E x \in T : \A y \in T : x <= y
<1> DEFINE R == OpToRel(<, Nat)
<1>1. PICK x \in T : \A y \in T : ~ (<<y, x>> \in R)
  <2>1. IsWellFoundedOn(R, Nat)
    BY NatLessThanWellFounded
  <2> HIDE DEF R
  <2> QED
    BY <2>1, WFMin
<1>2. \A y \in T : ~(y < x)
  BY <1>1 DEF OpToRel
<1> HIDE DEF R
<1> QED
  BY <1>2

\* s[k] is the number of bytes in the buffers bf of the pieces below k.
Sums(s, bf) ==
    s = [k \in 0 .. PieceNum |-> IF k = 0 THEN 0 ELSE s[k - 1] + BufferLen(bf[k - 1])]

\* There is only one such function.
LEMMA SumsUnique ==
    ASSUME NEW s, NEW t, NEW bf, Sums(s, bf), Sums(t, bf)
    PROVE  s = t
<1> USE RequestsAssumption
<1> DEFINE D == {k \in 0 .. PieceNum : s[k] # t[k]}
<1>1. s[0] = 0 /\ t[0] = 0
  BY DEF Sums
<1>2. \A k \in 1 .. PieceNum : /\ s[k] = s[k - 1] + BufferLen(bf[k - 1])
                               /\ t[k] = t[k - 1] + BufferLen(bf[k - 1])
  BY DEF Sums
<1>3. D = {}
  <2> SUFFICES ASSUME D # {} PROVE FALSE
    OBVIOUS
  <2>1. D \in SUBSET Nat
    OBVIOUS
  <2>2. PICK k \in D : \A j \in D : k <= j
    <3> HIDE DEF D
    <3> QED
      BY <2>1, LeastNumber
  <2>3. k \in 0 .. PieceNum /\ k # 0
    BY <1>1
  <2>4. k - 1 \in 0 .. PieceNum /\ k - 1 \notin D /\ k \in 1 .. PieceNum
    BY <2>2, <2>3
  <2>5. s[k - 1] = t[k - 1]
    BY <2>4
  <2> QED
    BY <1>2, <2>2, <2>4, <2>5
<1>4. \A k \in 0 .. PieceNum : s[k] = t[k]
  BY <1>3
<1>5. s = [k \in 0 .. PieceNum |-> s[k]] /\ t = [k \in 0 .. PieceNum |-> t[k]]
  BY DEF Sums
<1> QED
  BY <1>4, <1>5

\* So it is BytesBelow.
LEMMA SumsIsBytesBelow ==
    ASSUME NEW s, Sums(s, buffer)
    PROVE  BytesBelow = s
<1>1. Sums(BytesBelow, buffer)
  BY DEF BytesBelow, Sums
<1> QED
  BY <1>1, SumsUnique

\* The sums, and what m.download has to do with them.
CountedPart ==
    \E s \in [0 .. PieceNum -> Int] :
        Sums(s, buffer) /\ (fault = "none" => download = s[PieceNum])

LEMMA InitCounted == Init => CountedPart
<1> SUFFICES ASSUME Init PROVE CountedPart
  OBVIOUS
<1> USE RequestsAssumption
<1> DEFINE s == [k \in 0 .. PieceNum |-> 0]
<1>1. \A k \in 1 .. PieceNum : BufferLen(buffer[k - 1]) = 0
  BY DEF Init, Piece, BufferLen
<1>2. \A k \in 1 .. PieceNum : k - 1 \in 0 .. PieceNum
  OBVIOUS
<1>3. Sums(s, buffer)
  BY <1>1, <1>2 DEF Sums
<1>4. s \in [0 .. PieceNum -> Int] /\ s[PieceNum] = 0
  OBVIOUS
<1> HIDE DEF s
<1> QED
  BY <1>3, <1>4 DEF CountedPart, Init

\* The buffers bg are bf with l bytes more in that of piece i.
Grown(bf, bg, i, l) ==
    /\ \A j \in Piece : BufferLen(bf[j]) \in Int
    /\ BufferLen(bg[i]) = BufferLen(bf[i]) + l
    /\ \A j \in Piece \ {i} : bg[j] = bf[j]

LEMMA SumsAfterStore ==
    ASSUME NEW s \in [0 .. PieceNum -> Int], NEW bf, NEW bg, NEW i \in Piece, NEW l \in Int,
           Sums(s, bf), Grown(bf, bg, i, l)
    PROVE  \E t \in [0 .. PieceNum -> Int] : Sums(t, bg) /\ t[PieceNum] = s[PieceNum] + l
<1> USE RequestsAssumption DEF Grown
<1> DEFINE t == [k \in 0 .. PieceNum |-> IF k <= i THEN s[k] ELSE s[k] + l]
<1>1. t \in [0 .. PieceNum -> Int] /\ t[PieceNum] = s[PieceNum] + l /\ t[0] = 0
  BY DEF Piece, Sums
<1>2. ASSUME NEW k \in 1 .. PieceNum
      PROVE  t[k] = t[k - 1] + BufferLen(bg[k - 1])
  <2>1. k \in 0 .. PieceNum /\ k - 1 \in 0 .. PieceNum /\ k - 1 \in Piece
    BY DEF Piece
  <2>2. s[k] = s[k - 1] + BufferLen(bf[k - 1])
    BY DEF Sums
  <2>3. /\ t[k] = IF k <= i THEN s[k] ELSE s[k] + l
        /\ t[k - 1] = IF k - 1 <= i THEN s[k - 1] ELSE s[k - 1] + l
    BY <2>1
  <2>4. s[k] \in Int /\ s[k - 1] \in Int /\ BufferLen(bf[k - 1]) \in Int /\ i \in Int
    BY <2>1 DEF Piece
  <2> HIDE DEF t
  <2>5. CASE k - 1 = i
    BY <2>2, <2>3, <2>4, <2>5
  <2>6. CASE k - 1 # i
    BY <2>1, <2>2, <2>3, <2>4, <2>6
  <2> QED
    BY <2>5, <2>6
<1>3. Sums(t, bg)
  <2>1. t = [k \in 0 .. PieceNum |-> t[k]]
    OBVIOUS
  <2>2. \A k \in 0 .. PieceNum :
          t[k] = IF k = 0 THEN 0 ELSE t[k - 1] + BufferLen(bg[k - 1])
    <3> HIDE DEF t
    <3> QED
      BY <1>1, <1>2
  <2> HIDE DEF t
  <2> QED
    BY <2>1, <2>2 DEF Sums
<1> HIDE DEF t
<1> QED
  BY <1>1, <1>3

LEMMA NextCounted ==
    ASSUME Inv, CountedPart, [Next]_vars
    PROVE  CountedPart'
<1> USE RequestsAssumption
<1>1. CASE UNCHANGED <<buffer, download>> /\ (fault' = "none" => fault = "none")
  BY <1>1 DEF CountedPart
<1>2. ASSUME NEW c \in Conn, NEW p \in Conn, NEW b \in asked[c], HandlePiece(c, p, b),
             buffer' # buffer
      PROVE  CountedPart'
  <2>1. b \in Block /\ b.index \in Piece /\ b.begin \in Int /\ b.length \in Int
    BY DEF Inv, AskedPart, GoodAsked, Block
  <2>2. fault = "none" /\ Fits(b) /\ SavePiece(b)
    BY <1>2 DEF HandlePiece, Delivers, managerVars
  <2>3. fault' = "blocked" \/ download' = download + b.length
    BY <1>2 DEF HandlePiece, Account, managerVars
  <2>4. buffer \in [Piece -> Seq(Int)] /\ b.length \in Nat
    BY <2>1, BoundaryInt DEF Inv, StoredPart, AskedPart, GoodAsked, InPiece
  <2>5. \A j \in Piece : BufferLen(buffer[j]) \in Int
    BY <2>4 DEF BufferLen
  <2>6. /\ BufferLen(buffer'[b.index]) = BufferLen(buffer[b.index]) + b.length
        /\ \A j \in Piece \ {b.index} : buffer'[j] = buffer[j]
    <3>1. /\ buffer'[b.index] = buffer[b.index] \o BytesOf(b)
          /\ \A j \in Piece \ {b.index} : buffer'[j] = buffer[j]
      BY <2>1, <2>2, <2>4, Zenon DEF SavePiece, BytesOf
    <3>2. buffer[b.index] \in Seq(Int)
      BY <2>1, <2>4
    <3> QED
      BY <2>1, <2>4, <3>1, <3>2, BufferLenWrite
  <2>7. PICK s \in [0 .. PieceNum -> Int] : Sums(s, buffer) /\ download = s[PieceNum]
    BY <2>2 DEF CountedPart
  <2>8. \E t \in [0 .. PieceNum -> Int] :
          Sums(t, buffer') /\ t[PieceNum] = s[PieceNum] + b.length
    <3>1. Grown(buffer, buffer', b.index, b.length)
      BY <2>5, <2>6 DEF Grown
    <3> QED
      BY <2>1, <2>7, <3>1, SumsAfterStore
  <2> QED
    BY <2>3, <2>7, <2>8 DEF CountedPart
<1>3. ASSUME NEW c \in Conn, NEW p \in Conn, NEW b \in asked[c], HandlePiece(c, p, b)
      PROVE  CountedPart'
  <2>1. CASE buffer' # buffer
    BY <1>2, <1>3, <2>1
  <2>2. CASE buffer' = buffer
    <3>1. b \in Block /\ b.index \in Piece /\ b.begin \in Int /\ b.length \in Int
      BY DEF Inv, AskedPart, GoodAsked, Block
    <3>2. buffer \in [Piece -> Seq(Int)] /\ b.length \in Nat
      BY <3>1, BoundaryInt DEF Inv, StoredPart, AskedPart, GoodAsked, InPiece
    <3>3. ~(SavePiece(b) /\ b.length >= MinData)
      <4> SUFFICES ASSUME SavePiece(b), b.length >= MinData PROVE FALSE
        OBVIOUS
      <4>1. buffer'[b.index] = buffer[b.index] \o BytesOf(b) /\ buffer[b.index] \in Seq(Int)
        BY <3>1, <3>2, Zenon DEF SavePiece, BytesOf
      <4>2. BufferLen(buffer'[b.index]) = BufferLen(buffer[b.index]) + b.length
        BY <3>1, <3>2, <4>1, BufferLenWrite
      <4>3. BufferLen(buffer[b.index]) \in Nat
        BY <4>1 DEF BufferLen
      <4> QED
        BY <2>2, <3>2, <4>2, <4>3
    <3>4. UNCHANGED download /\ fault = "none"
      BY <1>3, <3>3 DEF HandlePiece, Delivers, managerVars
    <3> QED
      BY <1>1, <2>2, <3>4
  <2> QED
    BY <2>1, <2>2
<1>4. CASE UNCHANGED vars
  BY <1>1, <1>4 DEF vars, managerVars
<1>5. CASE Next
  <2>1. CASE \/ \E c \in Conn, choked \in BOOLEAN : Join(c, choked)
             \/ \E c \in Conn : Stop(c)
             \/ \E i \in Piece : Expire(i)
             \/ ForgetStopped
             \/ \E c \in Conn : \E b \in asked[c] : DropAnswer(c, b)
    BY <1>1, <2>1 DEF Join, Stop, Expire, ForgetStopped, DropAnswer, managerVars
  <2>2. CASE \E c, p \in Conn :
               \/ HandleChoke(c, p) \/ HandleUnchoke(c, p) \/ HandleUnknown(c, p)
               \/ \E i \in Holds[c] : HandleHave(c, p, i) \/ HandleSuggest(c, p, i)
               \/ \E field \in {{}, Holds[c]} : HandleField(c, p, field)
               \/ \E b \in asked[c] : HandleRejectReq(c, p, b)
    <3>1. ASSUME NEW c \in Conn, NEW p \in Conn,
                 HandleChoke(c, p) \/ HandleUnknown(c, p) \/ HandleUnchoke(c, p)
          PROVE  UNCHANGED <<buffer, download>> /\ fault = "none"
      <4>1. CASE HandleChoke(c, p)
        BY <4>1, Zenon DEF HandleChoke, Delivers, managerVars
      <4>2. CASE HandleUnknown(c, p)
        BY <4>2, Zenon DEF HandleUnknown, Delivers, managerVars
      <4>3. CASE HandleUnchoke(c, p)
        BY <4>3, Zenon DEF HandleUnchoke, Delivers
      <4> QED
        BY <3>1, <4>1, <4>2, <4>3
    <3>2. ASSUME NEW c \in Conn, NEW p \in Conn, NEW i,
                 HandleHave(c, p, i) \/ HandleSuggest(c, p, i)
          PROVE  UNCHANGED <<buffer, download>> /\ fault = "none"
      BY <3>2, Zenon DEF HandleHave, HandleSuggest, Delivers
    <3>3. ASSUME NEW c \in Conn, NEW p \in Conn, NEW field, HandleField(c, p, field)
          PROVE  UNCHANGED <<buffer, download>> /\ fault = "none"
      BY <3>3, Zenon DEF HandleField, Delivers, managerVars
    <3>4. ASSUME NEW c \in Conn, NEW p \in Conn, NEW b, HandleRejectReq(c, p, b)
          PROVE  UNCHANGED <<buffer, download>> /\ fault = "none"
      BY <3>4, Zenon DEF HandleRejectReq, Delivers
    <3>5. UNCHANGED <<buffer, download>> /\ fault = "none"
      BY <2>2, <3>1, <3>2, <3>3, <3>4, Zenon
    <3> QED
      BY <1>1, <3>5
  <2> QED
    BY <1>3, <1>5, <2>1, <2>2 DEF Next
<1> QED
  BY <1>4, <1>5

\* While Run is running, m.download is the number of bytes stored, of however
\* many pieces and blocks: handlePiece counts a block when and only when
\* SavePiece takes it.
THEOREM DownloadIsStored == Spec => []BytesCounted
<1>1. CountedPart => BytesCounted
  BY SumsIsBytesBelow DEF CountedPart, BytesCounted
<1> QED
  BY <1>1, Invariance, InitCounted, NextCounted, PTL DEF Spec

=============================================================================
