----------------------------- MODULE UDPTracker -----------------------------
(***************************************************************************)
(* UDPTracker (tracker/udp.go): the exchange of datagrams behind one       *)
(* Announce, and what concurrent calls do to each other.  The announce     *)
(* timer and task.stop may be in Announce of the same tracker at once      *)
(* (nowLock is held for reading only); they share conn, connID and tranID. *)
(*                                                                         *)
(* Datagrams are lost, delayed, duplicated and reordered.  binary.Read     *)
(* fills the whole response struct: of a connect 16 bytes, which any       *)
(* datagram fills, and of an announce 20 + 74 * 6 bytes.  A shorter answer *)
(* is followed by the next datagram in the same buffer, and is lost with   *)
(* the buffer when the read times out.                                     *)
(*                                                                         *)
(* The transaction ids that rand.Int31 returns are taken to be different   *)
(* and not 0: a call that connects uses its own number.                    *)
(***************************************************************************)
EXTENDS Integers, Sequences

CONSTANTS
    Caller,     \* goroutines that call Announce
    MaxCalls,   \* calls in a behaviour
    Fill        \* answers with fewer than 74 peers that fill an annResp

ASSUME UDPAssumption == MaxCalls \in Nat /\ Fill \in Nat \ {0, 1}

VARIABLES
    \* t.conn (the number of the socket, 0 for nil), t.connID, t.tranID, and
    \* whether t.nextTime is in the future
    conn, connID, tranID, waits,
    sockets,   \* sockets opened so far
    calls,     \* calls made so far
    sent,      \* requests that the tracker may have received
    pc,        \* where each caller is
    call,      \* the number of its call
    event,     \* the event it announces
    sock,      \* the socket it reads from
    timeout,   \* its timeout
    buf,       \* the datagrams that it has read into the response
    result,    \* how its last call ended
    answer,    \* the head of the response from which its last call took the
               \* peers that it returned, if it did (history)
    fault      \* "nilConn" if a method of a nil t.conn was called

field == <<conn, connID, tranID, waits, sockets>>
net   == <<calls, sent, answer>>
local == <<pc, call, event, sock, timeout, buf, result>>
vars  == <<field, net, local, fault>>

Alive(c, l) == fault = "none" /\ pc[c] = l

\* The call of c goes on at l, or returns r.
Goto(c, l) == pc' = [pc EXCEPT ![c] = l] /\ UNCHANGED <<event, result>>

Return(c, r) ==
    /\ pc' = [pc EXCEPT ![c] = "idle"]
    /\ result' = [result EXCEPT ![c] = r]
    /\ event' = [event EXCEPT ![c] = "start"]

\* What c reads from and into, with its timeout: reset when it has returned.
Reading(c, k, t, b) ==
    /\ sock' = [sock EXCEPT ![c] = k]
    /\ timeout' = [timeout EXCEPT ![c] = t]
    /\ buf' = [buf EXCEPT ![c] = b]

-----------------------------------------------------------------------------
(* The tracker (external): the datagrams with which it may answer the      *)
(* requests it has received.  Nothing is known of when, how often and in   *)
(* which order an answer arrives, so it is not recorded what is on its way.*)

Reply(q, action, id, full) ==
    [sock |-> q.sock, action |-> action, tran |-> q.tran, id |-> id,
     call |-> q.call, full |-> full]

\* The tracker refuses a connection id that it did not give, or that is old.
Replies(q) ==
    IF q.action = "connect" THEN {Reply(q, "connect", q.tran, FALSE)}
    ELSE {Reply(q, "error", 0, FALSE)} \cup
         IF q.id = 0 THEN {} ELSE {Reply(q, "announce", 0, full) : full \in BOOLEAN}

\* The datagrams that socket k may receive.
Incoming(k) == UNION {Replies(q) : q \in {r \in sent : r.sock = k}}

-----------------------------------------------------------------------------
(* Announce and connect.                                                   *)

udpBaseTimeout == 15
udpWaitMaxTime == 60

Announce(c, e) ==
    /\ Alive(c, "idle")
    /\ calls < MaxCalls
    /\ calls' = calls + 1
    /\ call' = [call EXCEPT ![c] = calls + 1]
    /\ event' = [event EXCEPT ![c] = e]
    /\ pc' = [pc EXCEPT ![c] = IF conn = 0 THEN "dial" ELSE "announce"]
    /\ result' = [result EXCEPT ![c] = "none"]
    /\ answer' = [answer EXCEPT ![c] = {}]
    /\ UNCHANGED <<field, sent, sock, timeout, buf, fault>>

\* t.conn, err = net.Dial, which assigns nil when it fails.
Dial(c) ==
    /\ Alive(c, "dial")
    /\ \/ /\ sockets' = sockets + 1
          /\ conn' = sockets + 1
          /\ Goto(c, "connect")
       \/ /\ conn' = 0
          /\ Return(c, "error")
          /\ UNCHANGED sockets
    /\ UNCHANGED <<connID, tranID, waits, net, call, sock, timeout, buf, fault>>

\* Write a request with the fields as they are then, and begin to read.
Send(c, action, tran, id, next) ==
    IF conn = 0
    THEN fault' = "nilConn" /\ UNCHANGED <<sent, pc, event, sock, timeout, buf, result>>
    ELSE /\ \/ /\ sent' = sent \cup {[sock |-> conn, action |-> action, tran |-> tran,
                                      id |-> id, call |-> call[c]]}
               /\ Goto(c, next)
               /\ Reading(c, conn, udpBaseTimeout, <<>>)
            \/ Return(c, "error") /\ UNCHANGED <<sent, sock, timeout, buf>>
         /\ UNCHANGED fault

SendConnect(c) ==
    /\ Alive(c, "connect")
    /\ tranID' = call[c]
    /\ Send(c, "connect", call[c], 0, "readConnect")
    /\ UNCHANGED <<conn, connID, waits, sockets, calls, answer, call>>

\* The answer is this connect's, whatever the other caller has connected since.
ReadConnect(c) ==
    /\ Alive(c, "readConnect")
    /\ \E d \in Incoming(sock[c]) :
          IF d.action = "connect" /\ d.tran = tranID
          THEN connID' = d.id /\ Goto(c, "announce")
          ELSE Return(c, "error") /\ UNCHANGED connID
    /\ Reading(c, 0, udpBaseTimeout, <<>>)
    /\ UNCHANGED <<conn, tranID, waits, sockets, net, call, fault>>

\* The time to wait would be longer than a minute.
GivesUp(t) == t * 2 > udpWaitMaxTime

\* Variant for mutation: waits as long as before.
TimeoutSame(c) ==
    /\ Alive(c, "readConnect") \/ Alive(c, "readAnnounce")
    /\ IF conn = 0
       THEN fault' = "nilConn" /\ UNCHANGED <<pc, event, timeout, sock, buf, result>>
       ELSE Reading(c, conn, timeout[c], <<>>) /\ UNCHANGED <<pc, event, result, fault>>
    /\ UNCHANGED <<field, net, call>>

\* The read deadline passes: give up, or wait twice as long.
Timeout(c) ==
    /\ Alive(c, "readConnect") \/ Alive(c, "readAnnounce")
    /\ IF GivesUp(timeout[c])
       THEN Return(c, "timeout") /\ Reading(c, 0, udpBaseTimeout, <<>>) /\ UNCHANGED fault
       ELSE IF conn = 0
       THEN fault' = "nilConn" /\ UNCHANGED <<pc, event, timeout, sock, buf, result>>
       ELSE Reading(c, conn, timeout[c] * 2, <<>>) /\ UNCHANGED <<pc, event, result, fault>>
    /\ UNCHANGED <<field, net, call>>

\* The read fails for another reason, such as an unreachable port.
ReadFails(c) ==
    /\ Alive(c, "readConnect") \/ Alive(c, "readAnnounce")
    /\ Return(c, "error")
    /\ Reading(c, 0, udpBaseTimeout, <<>>)
    /\ UNCHANGED <<field, net, call, fault>>

-----------------------------------------------------------------------------
(* announce.                                                               *)

TooSoon(c) == event[c] = "none" /\ waits

\* errWaitTime
Refuse(c) ==
    /\ Alive(c, "announce")
    /\ TooSoon(c)
    /\ Return(c, "error")
    /\ UNCHANGED <<field, net, call, sock, timeout, buf, fault>>

SendAnnounce(c) ==
    /\ Alive(c, "announce")
    /\ ~TooSoon(c)
    /\ Send(c, "announce", tranID, connID, "readAnnounce")
    /\ UNCHANGED <<field, calls, answer, call>>

\* The response struct is full.
Filled(b) == Len(b) >= Fill \/ \E k \in DOMAIN b : b[k].full

\* Variant for mutation: does not look at resp.Action.
AcceptedAny(head) == head.tran # 0 /\ head.tran = tranID

\* The checks on the response, whose head is that of the first datagram.  A
\* TranID of 0 makes announce return nothing, which convAddrs refuses.
Accepted(head) == head.tran # 0 /\ head.action = "announce" /\ head.tran = tranID

Answer(c, head) == answer' = [answer EXCEPT ![c] = {head}]

\* Variant for mutation: sets nextTime before the response is checked.
RespondEarly(c, b) ==
    /\ waits' \in BOOLEAN
    /\ \/ Accepted(b[1]) /\ Return(c, "peers") /\ Answer(c, b[1])
       \/ ~Accepted(b[1]) /\ Return(c, "error") /\ UNCHANGED answer

\* The end of announce with a full response b.
Respond(c, b) ==
    \/ Accepted(b[1]) /\ waits' \in BOOLEAN /\ Return(c, "peers") /\ Answer(c, b[1])
    \/ ~Accepted(b[1]) /\ Return(c, "error") /\ UNCHANGED <<waits, answer>>

ReadAnnounce(c) ==
    /\ Alive(c, "readAnnounce")
    /\ \E d \in Incoming(sock[c]) :
          LET b == Append(buf[c], d)
          IN  IF Filled(b) THEN Respond(c, b) /\ Reading(c, 0, udpBaseTimeout, <<>>)
              ELSE /\ buf' = [buf EXCEPT ![c] = b]
                   /\ UNCHANGED <<pc, event, sock, timeout, result, waits, answer>>
    /\ UNCHANGED <<conn, connID, tranID, sockets, calls, sent, call, fault>>

\* nextTime is reached.
Elapse ==
    /\ fault = "none"
    /\ waits
    /\ waits' = FALSE
    /\ UNCHANGED <<conn, connID, tranID, sockets, net, local, fault>>

-----------------------------------------------------------------------------

Init ==
    /\ conn = 0 /\ connID = 0 /\ tranID = 0 /\ waits = FALSE
    /\ sockets = 0 /\ calls = 0 /\ sent = {}
    /\ pc = [c \in Caller |-> "idle"]
    /\ call = [c \in Caller |-> 0]
    /\ event = [c \in Caller |-> "start"]
    /\ sock = [c \in Caller |-> 0]
    /\ timeout = [c \in Caller |-> udpBaseTimeout]
    /\ buf = [c \in Caller |-> <<>>]
    /\ result = [c \in Caller |-> "none"]
    /\ answer = [c \in Caller |-> {}]
    /\ fault = "none"

\* The steps of a call that is under way.
Step(c) ==
    \/ Dial(c) \/ SendConnect(c) \/ ReadConnect(c) \/ Refuse(c) \/ SendAnnounce(c)
    \/ ReadAnnounce(c) \/ Timeout(c) \/ ReadFails(c)

\* Of the events only EventNone is treated differently.
Next ==
    \/ \E c \in Caller : Step(c) \/ \E e \in {"start", "none"} : Announce(c, e)
    \/ Elapse

Spec == Init /\ [][Next]_vars

\* Go runs a goroutine that can run, and a read deadline passes.  Of the network
\* and the tracker nothing is assumed.
FairSpec == Spec /\ \A c \in Caller : WF_vars(Step(c))

-----------------------------------------------------------------------------
(* Properties.                                                             *)

Request == [sock : Nat, action : {"connect", "announce"}, tran : Nat, id : Nat, call : Nat]

Datagram == [sock : Nat, action : {"connect", "announce", "error"}, tran : Nat, id : Nat,
             call : Nat, full : BOOLEAN]

Location == {"idle", "dial", "connect", "readConnect", "announce", "readAnnounce"}

\* Every variable has its type, and no read waits longer than a minute.
TypeOK ==
    /\ conn \in Nat /\ connID \in Nat /\ tranID \in Nat /\ waits \in BOOLEAN
    /\ sockets \in Nat /\ calls \in Nat
    /\ sent \in SUBSET Request
    /\ answer \in [Caller -> SUBSET Datagram]
    /\ pc \in [Caller -> Location]
    /\ call \in [Caller -> Nat]
    /\ event \in [Caller -> {"start", "none"}]
    /\ sock \in [Caller -> Nat]
    /\ timeout \in [Caller -> {15, 30, 60}]
    /\ buf \in [Caller -> Seq(Datagram)]
    /\ result \in [Caller -> {"none", "peers", "error", "timeout"}]
    /\ fault \in {"none", "nilConn"}

\* Datagram d answers an announce among the requests S, sent with a connection
\* id that the tracker gave for a connect among them.
AnswersAnnounce(d, S) ==
    \E q, k \in S : /\ q.action = "announce" /\ k.action = "connect"
                    /\ q.id = k.tran
                    /\ \E full \in BOOLEAN : d = Reply(q, "announce", 0, full)

\* What Announce returns as peers begins with the tracker's answer to an
\* announce that was sent with a connection id the tracker had given, although
\* late and doubled datagrams, connect answers and errors arrive where it is
\* expected, conn, connID and tranID are shared with another caller, and after
\* a failed connect every announce is sent with the id 0.  The announce need not
\* be the caller's own or its latest; and where the answer lists fewer than 74
\* peers, the code looks at nothing of the datagrams that fill the rest.
PeersBeginWithAnswer ==
    \A c \in Caller : result[c] = "peers" => \E d \in answer[c] : AnswersAnnounce(d, sent)

\* Every call of Announce returns, whatever the network and the tracker do:
\* TrackerManager, whose lock is held meanwhile, relies on it.
AnnounceReturns == \A c \in Caller : pc[c] # "idle" ~> (pc[c] = "idle" \/ fault # "none")

Outcome(c) ==
    IF pc[c] # "idle" THEN "called"
    ELSE IF result[c] = "timeout" THEN "error" ELSE result[c]

Phase == [c \in Caller |-> Outcome(c)]

Tracker == INSTANCE TrackerCall WITH phase <- Phase

\* Announce is a call as TrackerCall describes it; in particular no failing
\* call, and no other call that is still under way, moves nextTime.
IsTrackerCall == Tracker!Init /\ [][Tracker!Next]_<<Phase, waits>>
=============================================================================
