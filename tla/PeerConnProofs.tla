--------------------------- MODULE PeerConnProofs ---------------------------
(***************************************************************************)
(* Proofs about PeerConn for any number of sendMessage goroutines: p.conn  *)
(* is never used when it is nil, and a peer implements PeerLife.           *)
(***************************************************************************)
EXTENDS PeerConn, TLAPS

\* The senders that hold the read lock are those that write.
ReadersWrite == \A s \in Sender : s \in readers <=> send[s] = "write"

\* p.close() cannot run while a sender holds the lock, so a writing sender saw
\* stateRunning and it still is.
ReadersSeeRunning == readers # {} => state = "running"

\* p.state tells where Run and recvMessage are, and whether p.conn is there.
StateAgrees ==
    /\ state = "ready"   <=> run \in {"add", "lock"}
    /\ state = "ready"   <=> recv = "none"
    /\ state = "running" <=> recv \in {"read", "got", "offer", "lock"}
    /\ state # "stop"    <=> conn = "open"
    /\ closing           =>  state # "ready"

Inv == TypeOK /\ ReadersWrite /\ ReadersSeeRunning /\ StateAgrees

\* The initial state satisfies the invariant.
LEMMA InitInv == Init => Inv
  BY DEF Init, Inv, TypeOK, ReadersWrite, ReadersSeeRunning, StateAgrees

\* The steps of Run keep the invariant.
LEMMA RunInv ==
    ASSUME Inv,
           \/ InitPeerDone \/ StartPeer \/ Poll \/ PollState
           \/ TakeMessage \/ CheckState \/ HandlerDone \/ RunClose
    PROVE  Inv'
<1> USE DEF Inv, TypeOK, ReadersWrite, ReadersSeeRunning, StateAgrees
<1>1. CASE InitPeerDone
  BY <1>1 DEF InitPeerDone
<1>2. CASE StartPeer
  BY <1>2 DEF StartPeer, CanLock
<1>3. CASE Poll \/ PollState
  BY <1>3 DEF Poll, PollState
<1>4. CASE TakeMessage
  BY <1>4 DEF TakeMessage
<1>5. CASE CheckState
  BY <1>5 DEF CheckState
<1>6. CASE HandlerDone
  BY <1>6 DEF HandlerDone
<1>7. CASE RunClose
  BY <1>7 DEF RunClose, Close
<1> QED
  BY <1>1, <1>2, <1>3, <1>4, <1>5, <1>6, <1>7

\* The steps of recvMessage keep the invariant.
LEMMA RecvInv ==
    ASSUME Inv,
           ReadMessage \/ ReadFails \/ KeepAlive \/ Dispatch \/ SeeClosing \/ CloseConn
    PROVE  Inv'
<1> USE DEF Inv, TypeOK, ReadersWrite, ReadersSeeRunning, StateAgrees
<1>1. CASE ReadMessage \/ ReadFails \/ KeepAlive \/ Dispatch \/ SeeClosing
  BY <1>1 DEF ReadMessage, ReadFails, KeepAlive, Dispatch, SeeClosing
<1>2. CASE CloseConn
  BY <1>2 DEF CloseConn, CanLock
<1> QED
  BY <1>1, <1>2

\* The steps of a sendMessage goroutine keep the invariant.
LEMMA SenderInv ==
    ASSUME Inv, NEW s \in Sender, SenderNext(s)
    PROVE  Inv'
<1> USE DEF Inv, TypeOK, ReadersWrite, ReadersSeeRunning, StateAgrees
<1>1. CASE SendMessage(s)
  BY <1>1 DEF SendMessage
<1>2. CASE SendBegin(s)
  BY <1>2 DEF SendBegin
<1>3. CASE SendEnd(s) \/ SendFails(s)
  BY <1>3 DEF SendEnd, SendFails
<1>4. CASE SendClose(s)
  BY <1>4 DEF SendClose, Close
<1> QED
  BY <1>1, <1>2, <1>3, <1>4 DEF SenderNext

LEMMA NextInv == Inv /\ [Next]_vars => Inv'
<1>1. ASSUME Inv, UNCHANGED vars PROVE Inv'
  BY <1>1 DEF vars, Inv, TypeOK, ReadersWrite, ReadersSeeRunning, StateAgrees
<1> QED
  BY <1>1, RunInv, RecvInv, SenderInv DEF Next

\* Every behaviour keeps the inductive invariant.
THEOREM Invariance == Spec => []Inv
  BY InitInv, NextInv, PTL DEF Spec

\* Type correctness of the peer object (peer/peer.go).
THEOREM TypeCorrect == Spec => []TypeOK
<1>1. Inv => TypeOK
  BY DEF Inv
<1> QED
  BY <1>1, Invariance, PTL

\* sendMessage never writes to a connection that p.close() has taken away.
THEOREM NeverWritesNil == Spec => []NoWriteOnNil
<1>1. Inv => NoWriteOnNil
  BY DEF Inv, ReadersWrite, ReadersSeeRunning, StateAgrees, NoWriteOnNil
<1> QED
  BY <1>1, Invariance, PTL

\* recvMessage never reads a connection that is not there.
THEOREM NeverReadsNil == Spec => []NoReadOnNil
<1>1. Inv => NoReadOnNil
  BY DEF Inv, TypeOK, StateAgrees, NoReadOnNil
<1> QED
  BY <1>1, Invariance, PTL

-----------------------------------------------------------------------------
(* Refinement.                                                             *)

LEMMA InitLife == Init => Life!Init
  BY DEF Init, Life!Init, phase

\* A step of PeerConn is a step of PeerLife or leaves the phase alone.
LEMMA NextLife ==
    ASSUME Inv, [Next]_vars
    PROVE  [Life!Next]_phase
<1> USE DEF Life!Next, Life!Start, Life!Close, Life!Stop, phase
<1>1. CASE state' = state /\ closing' = closing
  BY <1>1
<1>2. CASE StartPeer
  BY <1>2 DEF StartPeer, Inv, StateAgrees, TypeOK
<1>3. CASE CloseConn
  BY <1>3 DEF CloseConn, Inv, StateAgrees, TypeOK
<1>4. CASE Close
  BY <1>4 DEF Close, Inv, TypeOK
<1>5. \/ state' = state /\ closing' = closing
      \/ StartPeer \/ CloseConn \/ Close
  BY DEF Next, vars, InitPeerDone, Poll, PollState, TakeMessage, CheckState, HandlerDone,
         RunClose, ReadMessage, ReadFails, KeepAlive, Dispatch, SeeClosing, SenderNext,
         SendMessage, SendBegin, SendEnd, SendFails, SendClose
<1> QED
  BY <1>1, <1>2, <1>3, <1>4, <1>5

\* A peer object implements the life of a connection that the manager relies on.
THEOREM PeerImplementsLife == Spec => LivesOnce
<1>1. Inv /\ [Next]_vars => [Life!Next]_phase
  BY NextLife
<1> QED
  BY <1>1, InitLife, Invariance, PTL DEF Spec, LivesOnce, Life!Spec

-----------------------------------------------------------------------------
(* Nobody waits in a circle.                                               *)

\* A writer that waits for stateLock keeps new readers out, among them Run and
\* the senders that would release what the writer waits for.  There is no
\* circle: Run finds the lock free when it makes the peer running, at most one
\* goroutine waits to write, and whoever it waits for is in conn.Write, needs no
\* lock to return and finds a connection there.
LockMovesOn ==
    /\ run = "lock" => readers = {} /\ recv # "lock"
    /\ WriterWaits => \/ readers = {}
                      \/ /\ recv = "lock" /\ conn = "open"
                         /\ \A s \in readers : send[s] = "write"

\* The safety half of RunNotStuck: stateLock keeps nobody out for somebody who
\* waits for it too.
THEOREM NoLockCircle == Spec => []LockMovesOn
<1>1. Inv => LockMovesOn
  BY DEF Inv, TypeOK, ReadersWrite, ReadersSeeRunning, StateAgrees, LockMovesOn, WriterWaits
<1> QED
  BY <1>1, Invariance, PTL
=============================================================================
