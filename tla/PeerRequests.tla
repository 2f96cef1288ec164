---------------------------- MODULE PeerRequests ----------------------------
(***************************************************************************)
(* How peer.Manager asks remote peers for blocks and stores what they      *)
(* send (peer/manager.go), together with the piece buffers that            *)
(* filesystem.SavePiece appends to.                                        *)
(*                                                                         *)
(* Run is a single goroutine: it takes one message at a time from messagec *)
(* and runs its handler to the end, so a handler is one action.  What      *)
(* interleaves is everything around it: connections that join and end,     *)
(* messages of several connections, the clock that makes a request stale,  *)
(* and answers that arrive long after the request was given to somebody    *)
(* else.                                                                   *)
(*                                                                         *)
(* A remote peer is a connection c (one *peer object).  The manager finds  *)
(* the object of a message by the ADDRESS of the connection it came from   *)
(* (messageWithID.PeerID is p.addr and m.peers is keyed by it), and a      *)
(* tracker may return an address again: the newer object then receives     *)
(* what the older connection sends.                                        *)
(*                                                                         *)
(* Remote peers keep to the protocol: they answer or reject only what they *)
(* were asked for, and name pieces that exist.  The torrent has one file   *)
(* (of several, NewFileSystem gives every one the pieces from 0 on).       *)
(* A byte is known by its offset in the piece, which is what shows whether *)
(* the bytes of a buffer are the piece's, in their order.  The hash is     *)
(* never checked: piece.length stays 0, so the test in piece.Write never   *)
(* holds.                                                                  *)
(***************************************************************************)
EXTENDS Integers, Sequences

CONSTANTS
    Conn,         \* the connections (peer objects) that may ever exist
    Addr,         \* remote addresses, the keys of m.peers and m.interest
    AddrOf,       \* the address of each connection
    PieceNum,     \* m.pieceNum
    BlockNum,     \* blocks per piece
    MaxRequest,   \* maxRequestLength
    MinData,      \* fewest data bytes for which newBlock returns a block
    InitNeed,     \* what fs.Need() returned
    Holds,        \* the pieces each remote peer has and may announce
    NoRequest,    \* no entry in m.requests or m.rejectRequest
    NoConn        \* no entry in m.peers

Piece == 0 .. PieceNum - 1

\* m.pieceLength: real torrents use powers of two above 16 KiB.
PieceLength == BlockNum * MaxRequest

\* The request struct, without the index that the maps are keyed by; stale
\* stands for time.Now().Sub(createAt) > requestTimeOut.
Request == [begin : Int, length : Int, stale : BOOLEAN]

ASSUME RequestsAssumption ==
    /\ AddrOf \in [Conn -> Addr]
    /\ PieceNum \in Nat \ {0}
    /\ BlockNum \in Nat \ {0}
    /\ MinData \in Nat \ {0}
    /\ MaxRequest \in Nat
    /\ MaxRequest >= MinData
    /\ InitNeed \subseteq Piece
    /\ Holds \in [Conn -> SUBSET Piece]
    /\ NoRequest \notin Request
    /\ NoConn \notin Conn

VARIABLES
    \* m.peers, and of each *peer: state, isChoke, Bitmap and haveReq
    peers, state, isChoke, bitmap, haveReq,
    \* m.interest, m.requests, m.rejectRequest, m.need, m.finish, m.download
    interest, requests, rejectRequest, need, finish, download,
    \* the bytes of each piece's buffer
    buffer,
    \* remote side: the requests it was sent and has not answered
    asked,
    \* why Run takes no more steps: "none" while it does
    fault

managerVars == <<interest, requests, rejectRequest, need, finish, download, buffer>>
peerVars    == <<peers, state, isChoke, bitmap, haveReq>>
vars        == <<managerVars, peerVars, asked, fault>>

-----------------------------------------------------------------------------
(* Requests.                                                               *)

End(r) == r.begin + r.length

\* The request for range b, with createAt longer ago than the timeout or not.
Stamped(b, stale) == [begin |-> b.begin, length |-> b.length, stale |-> stale]

NewRequest == [begin |-> 0, length |-> MaxRequest, stale |-> FALSE]

\* Variant for mutation: continues after a full block instead of after r.
NextRequestFullStep(r) ==
    LET b == r.begin + MaxRequest
    IN  [begin  |-> b,
         length |-> IF b + r.length < PieceLength - MaxRequest
                    THEN MaxRequest
                    ELSE PieceLength - b - r.length,
         stale  |-> r.stale]

\* nextRequest keeps createAt, so a stale request stays stale.
NextRequest(r) ==
    LET b == End(r)
    IN  [begin  |-> b,
         length |-> IF b + r.length < PieceLength - MaxRequest
                    THEN MaxRequest
                    ELSE PieceLength - b - r.length,
         stale  |-> r.stale]

\* bytes.Buffer.Len of a piece's buffer; GetBuffer gives an empty one.
BufferLen(bytes) == Len(bytes)

\* Variant for mutation: forgets p.haveReq = true.
SendUnflagged(p, i, r, aq) ==
    /\ UNCHANGED haveReq
    /\ asked' = [aq EXCEPT ![p] =
                    @ \cup {[index |-> i, begin |-> r.begin, length |-> r.length]}]

\* p.request(&r) and p.haveReq = true, where aq are the unanswered requests.
Send(p, i, r, aq) ==
    /\ haveReq' = [haveReq EXCEPT ![p] = TRUE]
    /\ asked' = [aq EXCEPT ![p] =
                    @ \cup {[index |-> i, begin |-> r.begin, length |-> r.length]}]

\* requestPiece(p, i), from the maps rq and rj: the next block of the piece
\* when one is in progress, else the rejected request again, else the first
\* block.  A piece whose last block was requested starts again at 0.
RequestPiece(p, i, rq, rj, aq) ==
    LET continue == rq[i] # NoRequest /\ End(rq[i]) < PieceLength
        retry    == rq[i] = NoRequest /\ rj[i] # NoRequest
        r        == IF continue THEN NextRequest(rq[i])
                    ELSE IF retry THEN Stamped(rj[i], FALSE)
                    ELSE NewRequest
    IN  \/ /\ haveReq[p]
           /\ requests' = rq
           /\ rejectRequest' = rj
           /\ asked' = aq
           /\ UNCHANGED haveReq
        \/ /\ ~haveReq[p]
           /\ requests' = [rq EXCEPT ![i] = r]
           /\ rejectRequest' = IF retry THEN [rj EXCEPT ![i] = NoRequest] ELSE rj
           /\ Send(p, i, r, aq)

-----------------------------------------------------------------------------
(* Connections.                                                            *)

\* p.getState() == stateRunning; p.Close() closes p.closing and leaves the
\* state, which the receiving goroutine sets to stateStop when it notices.
Active(p) == state[p] \in {"running", "closing"}

\* p.Close(): closing the channel p.closing a second time panics.
Close(p) ==
    \/ /\ state[p] = "running"
       /\ state' = [state EXCEPT ![p] = "closing"]
       /\ UNCHANGED fault
    \/ /\ state[p] = "closing"
       /\ fault' = "doubleClose"
       /\ UNCHANGED state

\* The recvMessage goroutine of connection c has passed a message to Run,
\* which handles it for object p.
Delivers(c, p) ==
    /\ fault = "none"
    /\ Active(c)
    /\ p = peers[AddrOf[c]]
    /\ Active(p)

\* Run receives from peerc an object whose handshake is done.  An object made
\* by AddPeer starts choked, one made by newPeer starts with isChoke = false.
Join(c, choked) ==
    /\ fault = "none"
    /\ state[c] = "new"
    /\ state' = [state EXCEPT ![c] = "running"]
    /\ peers' = [peers EXCEPT ![AddrOf[c]] = c]
    /\ isChoke' = [isChoke EXCEPT ![c] = choked]
    /\ UNCHANGED <<managerVars, bitmap, haveReq, asked, fault>>

\* recvMessage returns: a read failed, or it saw p.closing closed.
Stop(c) ==
    /\ fault = "none"
    /\ Active(c)
    /\ state' = [state EXCEPT ![c] = "stop"]
    /\ asked' = [asked EXCEPT ![c] = {}]
    /\ UNCHANGED <<managerVars, peers, isChoke, bitmap, haveReq, fault>>

\* requestTimeOut passes since createAt.
Expire(i) ==
    /\ fault = "none"
    /\ requests[i] # NoRequest
    /\ ~requests[i].stale
    /\ requests' = [requests EXCEPT ![i] = Stamped(@, TRUE)]
    /\ UNCHANGED <<interest, rejectRequest, need, finish, download, buffer,
                   peerVars, asked, fault>>

\* The part of updateUnchoke that this module's state sees: addresses whose
\* object no longer runs leave m.interest.
ForgetStopped ==
    /\ fault = "none"
    /\ interest' = {a \in interest : Active(peers[a])}
    /\ UNCHANGED <<requests, rejectRequest, need, finish, download, buffer,
                   peerVars, asked, fault>>

-----------------------------------------------------------------------------
(* Message handlers: a message of connection c handled for object p.       *)

IsInterest(p) == need \cap bitmap[p] # {}

HandleChoke(c, p) ==
    /\ Delivers(c, p)
    /\ isChoke' = [isChoke EXCEPT ![p] = TRUE]
    /\ UNCHANGED <<managerVars, peers, state, bitmap, haveReq, asked, fault>>

\* selectPiece scans the pieces from a random position, so any piece that
\* stops the scan may be the one returned.  A stale request stops it whether
\* or not p has the piece.
Retriable(p) == {i \in Piece : rejectRequest[i] # NoRequest /\ i \in bitmap[p]}

Selectable(p) ==
    {i \in Piece : IF requests[i] # NoRequest THEN requests[i].stale
                   ELSE i \in need /\ i \in bitmap[p]}

\* handleUnchoke once p is known to be interesting.
SelectAndRequest(p) ==
    \/ \E i \in Retriable(p) :
          /\ RequestPiece(p, i, requests, rejectRequest, asked)
          /\ UNCHANGED fault
    \/ /\ Retriable(p) = {}
       /\ \E i \in Selectable(p) :
             /\ IF requests[i] = NoRequest
                THEN RequestPiece(p, i, requests, rejectRequest, asked)
                ELSE RequestPiece(p, i, [requests EXCEPT ![i] = NoRequest],
                                  [rejectRequest EXCEPT ![i] = requests[i]],
                                  asked)
             /\ UNCHANGED fault
    \/ /\ Retriable(p) = {}
       /\ Selectable(p) = {}
       /\ fault' = "noPieceSelected"
       /\ UNCHANGED <<requests, rejectRequest, haveReq, asked>>

HandleUnchoke(c, p) ==
    /\ Delivers(c, p)
    /\ isChoke' = [isChoke EXCEPT ![p] = FALSE]
    /\ IF AddrOf[p] \in interest \/ IsInterest(p)
       THEN /\ interest' = interest \cup {AddrOf[p]}
            /\ SelectAndRequest(p)
       ELSE UNCHANGED <<interest, requests, rejectRequest, haveReq, asked, fault>>
    /\ UNCHANGED <<need, finish, download, buffer, peers, state, bitmap>>

HandleHave(c, p, i) ==
    /\ Delivers(c, p)
    /\ bitmap' = [bitmap EXCEPT ![p] = @ \cup {i}]
    /\ IF ~isChoke[p] /\ AddrOf[p] \notin interest /\ i \in need
       THEN /\ interest' = interest \cup {AddrOf[p]}
            /\ RequestPiece(p, i, requests, rejectRequest, asked)
       ELSE UNCHANGED <<interest, requests, rejectRequest, haveReq, asked>>
    /\ UNCHANGED <<need, finish, download, buffer, peers, state, isChoke, fault>>

\* Bitfield, HaveAll and HaveNone.
HandleField(c, p, field) ==
    /\ Delivers(c, p)
    /\ bitmap' = [bitmap EXCEPT ![p] = field]
    /\ interest' = IF need \cap field # {}
                   THEN interest \cup {AddrOf[p]} ELSE interest
    /\ UNCHANGED <<requests, rejectRequest, need, finish, download, buffer,
                   peers, state, isChoke, haveReq, asked, fault>>

\* SuggestPiece and AllowedFast have the same handler: neither m.need nor
\* p.isChoke is consulted.
HandleSuggest(c, p, i) ==
    /\ Delivers(c, p)
    /\ i \in bitmap[p]
    /\ RequestPiece(p, i, requests, rejectRequest, asked)
    /\ UNCHANGED <<interest, need, finish, download, buffer,
                   peers, state, isChoke, bitmap, fault>>

\* Variant for mutation: lets a block leave a gap.
FitsAfterGap(b) == BufferLen(buffer[b.index]) <= b.begin

\* fs.SavePiece takes only a block that starts where the buffer ends.
Fits(b) == BufferLen(buffer[b.index]) = b.begin

\* p.Write(data): the bytes of the block go behind those already there.
SavePiece(b) ==
    buffer' = [buffer EXCEPT ![b.index] =
                  @ \o [k \in 1 .. b.length |-> b.begin + k - 1]]

\* Variant for mutation: counts the bytes once per piece.
AccountPerPiece(b) ==
    IF b.begin + b.length >= PieceLength
    THEN /\ download' = download + b.length
         /\ finish' = finish \cup {b.index}
         /\ need' = need \ {b.index}
    ELSE UNCHANGED <<download, finish, need>>

\* What handlePiece records of a stored block.
Account(b) ==
    /\ download' = download + b.length
    /\ IF b.begin + b.length >= PieceLength
       THEN finish' = finish \cup {b.index} /\ need' = need \ {b.index}
       ELSE UNCHANGED <<finish, need>>

\* Connection c answers request b.  newBlock returns nil for a body that is
\* too short, and handlePiece then dereferences it.  After SavePiece the
\* handler waits for memc to take the byte count: for ever if nobody receives
\* from it, as with the nil channel that Download hands to its tasks.
HandlePiece(c, p, b) ==
    /\ Delivers(c, p)
    /\ b \in asked[c]
    /\ b.index \in Holds[c]
    /\ LET answered == [asked EXCEPT ![c] = @ \ {b}]
       IN  \/ /\ b.length < MinData
              /\ fault' = "nilBlock"
              /\ asked' = answered
              /\ UNCHANGED <<managerVars, state, haveReq>>
           \/ /\ b.length >= MinData
              /\ ~Fits(b)
              /\ Close(p)
              /\ asked' = answered
              /\ UNCHANGED <<managerVars, haveReq>>
           \/ /\ b.length >= MinData
              /\ Fits(b)
              /\ SavePiece(b)
              /\ Account(b)
              /\ RequestPiece(p, b.index, requests, rejectRequest, answered)
              /\ UNCHANGED <<interest, state, fault>>
           \/ /\ b.length >= MinData
              /\ Fits(b)
              /\ SavePiece(b)
              /\ fault' = "blocked"
              /\ asked' = answered
              /\ UNCHANGED <<interest, requests, rejectRequest, need, finish,
                             download, state, haveReq>>
    /\ UNCHANGED <<peers, isChoke, bitmap>>

\* Connection c rejects request b: the request waits in m.rejectRequest, and
\* stays in m.requests too.
HandleRejectReq(c, p, b) ==
    /\ Delivers(c, p)
    /\ b \in asked[c]
    /\ asked' = [asked EXCEPT ![c] = @ \ {b}]
    /\ IF requests[b.index] = NoRequest
       THEN Close(p) /\ UNCHANGED rejectRequest
       ELSE /\ rejectRequest' = [rejectRequest EXCEPT ![b.index] = Stamped(b, FALSE)]
            /\ UNCHANGED <<state, fault>>
    /\ UNCHANGED <<interest, requests, need, finish, download, buffer,
                   peers, isChoke, bitmap, haveReq>>

\* msgInterest and msgNoInterest reach the default case of handleMessage: Run
\* closes every running peer (once more if it is closing already) and returns.
HandleUnknown(c, p) ==
    /\ Delivers(c, p)
    /\ fault' = IF \E a \in Addr : peers[a] # NoConn /\ state[peers[a]] = "closing"
                THEN "doubleClose" ELSE "unknownMessage"
    /\ state' = [q \in Conn |-> IF state[q] = "running" /\ peers[AddrOf[q]] = q
                               THEN "closing" ELSE state[q]]
    /\ UNCHANGED <<managerVars, peers, isChoke, bitmap, haveReq, asked>>

\* Run drops a message whose object, found by address, is not running.
DropAnswer(c, b) ==
    /\ fault = "none"
    /\ Active(c)
    /\ ~Active(peers[AddrOf[c]])
    /\ b \in asked[c]
    /\ asked' = [asked EXCEPT ![c] = @ \ {b}]
    /\ UNCHANGED <<managerVars, peerVars, fault>>

-----------------------------------------------------------------------------

Init ==
    /\ peers = [a \in Addr |-> NoConn]
    /\ state = [c \in Conn |-> "new"]
    /\ isChoke = [c \in Conn |-> FALSE]
    /\ bitmap = [c \in Conn |-> {}]
    /\ haveReq = [c \in Conn |-> FALSE]
    /\ interest = {}
    /\ requests = [i \in Piece |-> NoRequest]
    /\ rejectRequest = [i \in Piece |-> NoRequest]
    /\ need = InitNeed
    /\ finish = {}
    /\ download = 0
    /\ buffer = [i \in Piece |-> <<>>]
    /\ asked = [c \in Conn |-> {}]
    /\ fault = "none"

Next ==
    \/ \E c \in Conn, choked \in BOOLEAN : Join(c, choked)
    \/ \E c \in Conn : Stop(c)
    \/ \E i \in Piece : Expire(i)
    \/ ForgetStopped
    \/ \E c, p \in Conn :
          \/ HandleChoke(c, p)
          \/ HandleUnchoke(c, p)
          \/ HandleUnknown(c, p)
          \/ \E i \in Holds[c] : HandleHave(c, p, i) \/ HandleSuggest(c, p, i)
          \/ \E field \in {{}, Holds[c]} : HandleField(c, p, field)
          \/ \E b \in asked[c] : HandlePiece(c, p, b) \/ HandleRejectReq(c, p, b)
    \/ \E c \in Conn : \E b \in asked[c] : DropAnswer(c, b)

Spec == Init /\ [][Next]_vars

-----------------------------------------------------------------------------
(* Properties.                                                             *)

Block == [index : Piece, begin : Int, length : Int]

Faults == {"none", "doubleClose", "noPieceSelected", "nilBlock", "blocked",
           "unknownMessage"}

\* Every variable has the type of the Go field it stands for.
TypeOK ==
    /\ peers \in [Addr -> Conn \cup {NoConn}]
    /\ state \in [Conn -> {"new", "running", "closing", "stop"}]
    /\ isChoke \in [Conn -> BOOLEAN]
    /\ bitmap \in [Conn -> SUBSET Piece]
    /\ haveReq \in [Conn -> BOOLEAN]
    /\ interest \in SUBSET Addr
    /\ requests \in [Piece -> Request \cup {NoRequest}]
    /\ rejectRequest \in [Piece -> Request \cup {NoRequest}]
    /\ need \in SUBSET Piece
    /\ finish \in SUBSET Piece
    /\ download \in Int
    /\ buffer \in [Piece -> Seq(Int)]
    /\ asked \in [Conn -> SUBSET Block]
    /\ fault \in Faults

\* The offsets at which a block may start.
Boundary == {j * MaxRequest : j \in 0 .. BlockNum}

\* A whole block of the piece, or the empty range before its last block that
\* nextRequest yields on the way there.
InPiece(r) ==
    /\ r.begin \in Boundary
    /\ \/ r.length = MaxRequest /\ End(r) <= PieceLength
       \/ r.length = 0 /\ r.begin = PieceLength - MaxRequest

\* Whatever mixture of new, continued, rejected and timed-out requests
\* requestPiece and nextRequest produce, every request that is recorded or
\* that a remote peer still owes stays on block boundaries inside the piece.
RequestsInPiece ==
    /\ \A i \in Piece : /\ requests[i] # NoRequest => InPiece(requests[i])
                        /\ rejectRequest[i] # NoRequest => InPiece(rejectRequest[i])
    /\ \A c \in Conn : \A b \in asked[c] : InPiece(b)

\* requestPiece never has a connection owe more than one answer, and a
\* connection owes one only if its haveReq is set.
OneRequestPerConnection ==
    \A c \in Conn : /\ \A b1, b2 \in asked[c] : b1 = b2
                    /\ asked[c] # {} => haveReq[c]

\* handlePiece decides from the last block alone that a piece is finished,
\* although several connections were asked for its blocks and late, repeated
\* and retried answers arrive in any order.  Whenever it sets the finish bit
\* and clears the need bit, the buffer holds every byte of the piece, once and
\* in order; it never misses to set them while Run is running, and no buffer
\* ever holds more than a piece.
FinishedIsWhole ==
    \A i \in Piece :
        /\ BufferLen(buffer[i]) <= PieceLength
        /\ i \in finish => /\ buffer[i] = [k \in 1 .. PieceLength |-> k - 1]
                            /\ i \notin need
        /\ fault = "none" /\ BufferLen(buffer[i]) = PieceLength => i \in finish

\* The bytes in the buffers of the pieces below k.
BytesBelow[k \in 0 .. PieceNum] ==
    IF k = 0 THEN 0 ELSE BytesBelow[k - 1] + BufferLen(buffer[k - 1])

\* While Run is running, m.download (what GetStatus reports to the tracker)
\* is the number of bytes in the piece buffers: refused, duplicate and late
\* blocks are not counted and none is counted twice.
BytesCounted == fault = "none" => download = BytesBelow[PieceNum]

\* handleUnchoke calls logger.Fatalln("interest but no piece select") if
\* selectPiece returns -1: its author takes that to be impossible.
InterestMeansSelectable == fault # "noPieceSelected"
=============================================================================
