------------------------------ MODULE PeerConn ------------------------------
(***************************************************************************)
(* One peer object and the goroutines that share it (peer/peer.go, and     *)
(* sendMessage, readMessage and dispatch of peer/protocol.go):             *)
(*                                                                         *)
(*   run    the manager's Run loop, which starts the peer, takes its       *)
(*          messages, reads its state and may Close it;                    *)
(*   recv   recvMessage, which reads the connection and hands messages to  *)
(*          Run until it must stop, and then closes the connection;        *)
(*   s      the goroutines of sendMessage, one for each message sent.      *)
(*                                                                         *)
(* They share p.state, p.conn and the channel p.closing, under the RWMutex *)
(* p.stateLock.  A sender holds the read lock while it writes to the       *)
(* connection.  sync.RWMutex lets no new reader in while a writer waits.   *)
(*                                                                         *)
(* A read lock that is released before anything else can happen is part of *)
(* one action; only a sender's is held across actions.  Of messages only   *)
(* this is distinguished: whether one is a keep-alive, after which         *)
(* recvMessage reads on without a look at p.closing.                       *)
(***************************************************************************)

CONSTANT Sender   \* the sendMessage goroutines that may live at once

VARIABLES
    state,        \* p.state
    conn,         \* p.conn: "open" or "nil"
    closing,      \* has the channel p.closing been closed?
    readers,      \* the senders that hold stateLock for reading
    run,          \* where Run is
    recv,         \* where recvMessage is
    send,         \* where each sender is
    panicked      \* has a goroutine closed p.closing twice?

vars == <<state, conn, closing, readers, run, recv, send, panicked>>

\* A goroutine waits in stateLock.Lock(): Run before it starts the peer, or
\* recvMessage in p.close().
WriterWaits == run = "lock" \/ recv = "lock"

\* stateLock.RLock() does not block.
CanRLock == ~panicked /\ ~WriterWaits

\* stateLock.Lock() does not block.
CanLock == ~panicked /\ readers = {}

-----------------------------------------------------------------------------
(* Run.                                                                    *)

\* Run starts sendMessage goroutines in initPeer and in handlers.
SendMessage(s) ==
    /\ ~panicked
    /\ run \in {"add", "handle"}
    /\ send[s] = "idle"
    /\ send' = [send EXCEPT ![s] = "rlock"]
    /\ UNCHANGED <<state, conn, closing, readers, run, recv, panicked>>

\* initPeer has returned, and Run calls stateLock.Lock().
InitPeerDone ==
    /\ ~panicked
    /\ run = "add"
    /\ run' = "lock"
    /\ UNCHANGED <<state, conn, closing, readers, recv, send, panicked>>

\* The critical section that makes the peer running.
StartPeer ==
    /\ CanLock
    /\ run = "lock"
    /\ run' = "loop"
    /\ state' = "running"
    /\ recv' = "read"
    /\ UNCHANGED <<conn, closing, readers, send, panicked>>

\* A status request or a choke round makes Run ask for the peer's state.
Poll ==
    /\ ~panicked
    /\ run = "loop"
    /\ run' = "poll"
    /\ UNCHANGED <<state, conn, closing, readers, recv, send, panicked>>

PollState ==
    /\ CanRLock
    /\ run = "poll"
    /\ run' = "loop"
    /\ UNCHANGED <<state, conn, closing, readers, recv, send, panicked>>

\* Run receives a message of this peer from messagec ...
TakeMessage ==
    /\ ~panicked
    /\ run = "loop"
    /\ recv = "offer"
    /\ run' = "taken"
    /\ recv' = "read"
    /\ UNCHANGED <<state, conn, closing, readers, send, panicked>>

\* Variant for mutation: a message makes the peer running again.
CheckStateRevive ==
    /\ CanRLock
    /\ run = "taken"
    /\ run' = "handle"
    /\ state' = "running"
    /\ UNCHANGED <<conn, closing, readers, recv, send, panicked>>

\* ... and handles it only if the peer still runs.
CheckState ==
    /\ CanRLock
    /\ run = "taken"
    /\ run' = IF state = "running" THEN "handle" ELSE "loop"
    /\ UNCHANGED <<state, conn, closing, readers, recv, send, panicked>>

\* The handler returns, with or without calling p.Close() first.
HandlerDone ==
    /\ ~panicked
    /\ run = "handle"
    /\ run' \in {"loop", "close"}
    /\ UNCHANGED <<state, conn, closing, readers, recv, send, panicked>>

\* Variant for mutation: stops the peer itself.
CloseNow ==
    /\ CanRLock
    /\ IF state # "running" THEN UNCHANGED <<closing, panicked, state, conn>>
       ELSE state' = "stop" /\ conn' = "nil" /\ UNCHANGED <<closing, panicked>>

\* p.Close(): under the read lock, close p.closing if the peer is running.
\* Closing a closed channel panics.
Close ==
    /\ CanRLock
    /\ IF state # "running" THEN UNCHANGED <<closing, panicked>>
       ELSE IF closing THEN panicked' = TRUE /\ UNCHANGED closing
       ELSE closing' = TRUE /\ UNCHANGED panicked
    /\ UNCHANGED <<state, conn>>

RunClose ==
    /\ run = "close"
    /\ Close
    /\ run' = "loop"
    /\ UNCHANGED <<readers, recv, send>>

-----------------------------------------------------------------------------
(* recvMessage.                                                            *)

\* readMessage returns a message.
ReadMessage ==
    /\ ~panicked
    /\ recv = "read"
    /\ recv' = "got"
    /\ UNCHANGED <<state, conn, closing, readers, run, send, panicked>>

\* readMessage returns an error: p.close().
ReadFails ==
    /\ ~panicked
    /\ recv = "read"
    /\ recv' = "lock"
    /\ UNCHANGED <<state, conn, closing, readers, run, send, panicked>>

\* A keep-alive only moves p.lastActive: recvMessage reads on.
KeepAlive ==
    /\ ~panicked
    /\ recv = "got"
    /\ recv' = "read"
    /\ UNCHANGED <<state, conn, closing, readers, run, send, panicked>>

\* dispatch makes a message for Run, or refuses what was read: p.close().
Dispatch ==
    /\ ~panicked
    /\ recv = "got"
    /\ recv' \in {"offer", "lock"}
    /\ UNCHANGED <<state, conn, closing, readers, run, send, panicked>>

\* Variant for mutation: reads on instead of returning.
SeeClosingReadsOn ==
    /\ ~panicked
    /\ recv = "offer"
    /\ closing
    /\ recv' = "read"
    /\ UNCHANGED <<state, conn, closing, readers, run, send, panicked>>

\* The select takes <-p.closing: p.close().
SeeClosing ==
    /\ ~panicked
    /\ recv = "offer"
    /\ closing
    /\ recv' = "lock"
    /\ UNCHANGED <<state, conn, closing, readers, run, send, panicked>>

\* Variant for mutation: closes the connection without waiting for readers.
CloseConnUnlocked ==
    /\ ~panicked
    /\ recv = "lock"
    /\ recv' = "done"
    /\ state' = "stop"
    /\ conn' = "nil"
    /\ UNCHANGED <<closing, readers, run, send, panicked>>

\* Variant for mutation: returns with the lock held.
CloseConnNoUnlock ==
    /\ CanLock
    /\ recv = "lock"
    /\ state # "stop"
    /\ state' = "stop"
    /\ conn' = "nil"
    /\ UNCHANGED <<closing, readers, run, recv, send, panicked>>

\* The critical section of p.close().
CloseConn ==
    /\ CanLock
    /\ recv = "lock"
    /\ recv' = "done"
    /\ state' = "stop"
    /\ conn' = "nil"
    /\ UNCHANGED <<closing, readers, run, send, panicked>>

-----------------------------------------------------------------------------
(* The goroutine of sendMessage.                                           *)

\* It takes the read lock, and gives up if the peer is not running.
SendBegin(s) ==
    /\ CanRLock
    /\ send[s] = "rlock"
    /\ IF state # "running"
       THEN send' = [send EXCEPT ![s] = "idle"] /\ UNCHANGED readers
       ELSE send' = [send EXCEPT ![s] = "write"] /\ readers' = readers \cup {s}
    /\ UNCHANGED <<state, conn, closing, run, recv, panicked>>

\* conn.Write returns, and the lock is released.
SendEnd(s) ==
    /\ ~panicked
    /\ send[s] = "write"
    /\ readers' = readers \ {s}
    /\ send' = [send EXCEPT ![s] = "idle"]
    /\ UNCHANGED <<state, conn, closing, run, recv, panicked>>

\* conn.Write fails: the lock is released and p.Close() called.
SendFails(s) ==
    /\ ~panicked
    /\ send[s] = "write"
    /\ readers' = readers \ {s}
    /\ send' = [send EXCEPT ![s] = "close"]
    /\ UNCHANGED <<state, conn, closing, run, recv, panicked>>

SendClose(s) ==
    /\ send[s] = "close"
    /\ Close
    /\ send' = [send EXCEPT ![s] = "idle"]
    /\ UNCHANGED <<readers, run, recv>>

-----------------------------------------------------------------------------

Init ==
    /\ state = "ready"
    /\ conn = "open"
    /\ closing = FALSE
    /\ readers = {}
    /\ run = "add"
    /\ recv = "none"
    /\ send = [s \in Sender |-> "idle"]
    /\ panicked = FALSE

SenderNext(s) ==
    SendMessage(s) \/ SendBegin(s) \/ SendEnd(s) \/ SendFails(s) \/ SendClose(s)

Next ==
    \/ InitPeerDone \/ StartPeer \/ Poll \/ PollState
    \/ TakeMessage \/ CheckState \/ HandlerDone \/ RunClose
    \/ ReadMessage \/ ReadFails \/ KeepAlive \/ Dispatch \/ SeeClosing \/ CloseConn
    \/ \E s \in Sender : SenderNext(s)

Spec == Init /\ [][Next]_vars

\* Go schedules every goroutine that can run, and select chooses fairly among
\* ready cases.  Nothing is assumed of the network: no deadline is set for
\* conn.Read or conn.Write, so neither need return, and what is read may be
\* keep-alives for ever.
Fairness ==
    /\ WF_vars(InitPeerDone) /\ WF_vars(StartPeer)
    /\ WF_vars(PollState) /\ WF_vars(CheckState)
    /\ WF_vars(HandlerDone) /\ WF_vars(RunClose)
    /\ WF_vars(KeepAlive \/ Dispatch) /\ SF_vars(SeeClosing)
    /\ WF_vars(CloseConn)
    /\ \A s \in Sender : WF_vars(SendBegin(s)) /\ WF_vars(SendClose(s))

FairSpec == Spec /\ Fairness

-----------------------------------------------------------------------------
(* Properties.                                                             *)

\* Every variable has its type.
TypeOK ==
    /\ state \in {"ready", "running", "stop"}
    /\ conn \in {"open", "nil"}
    /\ closing \in BOOLEAN
    /\ readers \in SUBSET Sender
    /\ run \in {"add", "lock", "loop", "poll", "taken", "handle", "close"}
    /\ recv \in {"none", "read", "got", "offer", "lock", "done"}
    /\ send \in [Sender -> {"idle", "rlock", "write", "close"}]
    /\ panicked \in BOOLEAN

\* A goroutine that is writing writes to a connection: p.close(), which sets
\* p.conn to nil, and sendMessage, which checks p.state and uses p.conn later,
\* exclude each other.
NoWriteOnNil == \A s \in Sender : send[s] = "write" => conn = "open"

\* recvMessage reads p.conn without a lock, which is safe because nobody else
\* ever takes the connection away.
NoReadOnNil == recv \in {"read", "got", "offer"} => conn = "open" /\ state = "running"

\* A peer that was told to close stops in the end, unless the remote peer sends
\* no further message but keep-alives, or a write to it never returns: p.closing
\* is looked at only when there is a message for Run, and p.close() waits for
\* those who write.
CloseHonoured ==
    \/ closing ~> (state = "stop" \/ panicked)
    \/ <>[](recv \in {"read", "got"})
    \/ \E s \in Sender : <>[](recv = "lock" /\ send[s] = "write")

\* Run waits on the lock of a peer for ever only if a write to the remote peer
\* never returns while recvMessage waits to close it.  A write that hangs is
\* not enough, nor is a peer that closes: new readers are kept out only by both.
RunNotStuck ==
    \/ run \in {"poll", "taken", "close"} ~> (run = "loop" \/ panicked)
    \/ \E s \in Sender : <>[](recv = "lock" /\ send[s] = "write")

\* The phase of PeerLife that a peer is in.
phase == IF state = "ready" THEN "new"
         ELSE IF state = "stop" THEN "stop"
         ELSE IF closing THEN "closing" ELSE "running"

Life == INSTANCE PeerLife

\* However its goroutines interleave, a peer lives as PeerLife says.
LivesOnce == Life!Spec
=============================================================================
