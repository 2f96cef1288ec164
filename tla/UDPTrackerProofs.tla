-------------------------- MODULE UDPTrackerProofs --------------------------
(***************************************************************************)
(* Proofs about UDPTracker for any callers, any number of calls and any    *)
(* number of answers that fill a response.                                 *)
(***************************************************************************)
EXTENDS UDPTracker, TLAPS

\* Who is in a call has a number for it, so no connect has the id 0.
CallsNumbered == \A c \in Caller : pc[c] # "idle" => call[c] # 0

ConnectsNumbered == \A q \in sent : q.action = "connect" => q.tran # 0

\* A connection id is 0 or one that the tracker gave for a connect in S.
Given(id, S) == id = 0 \/ \E k \in S : k.action = "connect" /\ k.tran = id

IdsGiven == Given(connID, sent) /\ \A q \in sent : Given(q.id, sent)

\* A list of peers in a response that is still being read.
PeersRead ==
    \A c \in Caller : \A k \in DOMAIN buf[c] :
        buf[c][k].action = "announce" => AnswersAnnounce(buf[c][k], sent)

Inv == /\ TypeOK /\ CallsNumbered /\ ConnectsNumbered /\ IdsGiven
       /\ PeersRead /\ PeersBeginWithAnswer

-----------------------------------------------------------------------------

\* What a socket may receive, and what it tells.
LEMMA IncomingDatagram ==
    ASSUME Inv, NEW k, NEW d \in Incoming(k)
    PROVE  /\ d \in Datagram
           /\ d.action = "connect" => Given(d.id, sent)
           /\ d.action = "announce" => AnswersAnnounce(d, sent)
<1>1. PICK q \in sent : q.sock = k /\ d \in Replies(q)
  BY DEF Incoming
<1>2. q \in Request
  BY DEF Inv, TypeOK
<1>3. CASE q.action = "connect"
  <2>1. d = Reply(q, "connect", q.tran, FALSE)
    BY <1>1, <1>3 DEF Replies
  <2> QED
    BY <1>1, <1>2, <1>3, <2>1 DEF Reply, Request, Datagram, Given
<1>4. CASE d = Reply(q, "error", 0, FALSE)
  BY <1>2, <1>4 DEF Reply, Request, Datagram
<1>5. ASSUME NEW full \in BOOLEAN, d = Reply(q, "announce", 0, full), q.id # 0
      PROVE  d \in Datagram /\ d.action = "announce"
                /\ (q.action = "announce" => AnswersAnnounce(d, sent))
  <2>1. d \in Datagram /\ d.action = "announce"
    BY <1>2, <1>5 DEF Reply, Request, Datagram
  <2>2. PICK g \in sent : g.action = "connect" /\ g.tran = q.id
    BY <1>1, <1>5 DEF Inv, IdsGiven, Given
  <2> QED
    BY <1>1, <1>5, <2>1, <2>2, Zenon DEF AnswersAnnounce
<1>6. \/ q.action = "connect" \/ d = Reply(q, "error", 0, FALSE)
      \/ q.id # 0 /\ \E full \in BOOLEAN : d = Reply(q, "announce", 0, full)
  BY <1>1 DEF Replies
<1>7. q.action \in {"connect", "announce"}
  BY <1>2 DEF Request
<1>8. d = Reply(q, "error", 0, FALSE) => d.action = "error"
  BY DEF Reply
<1> QED
  BY <1>3, <1>4, <1>5, <1>6, <1>7, <1>8

\* More requests leave an answer an answer, and a given id given.
LEMMA SentGrows ==
    ASSUME NEW S, NEW T, S \subseteq T
    PROVE  /\ \A d : AnswersAnnounce(d, S) => AnswersAnnounce(d, T)
           /\ \A id : Given(id, S) => Given(id, T)
  BY Zenon DEF AnswersAnnounce, Given

\* Where the call of c goes on, or that it returns, and what that keeps.
Moves(c, r) == (\E l \in Location : Goto(c, l)) \/ Return(c, r) \/ UNCHANGED <<pc, event, result>>

LEMMA MovesTyped ==
    ASSUME Inv, NEW c \in Caller, NEW r \in {"none", "peers", "error", "timeout"}, Moves(c, r)
    PROVE  /\ pc' \in [Caller -> Location]
           /\ event' \in [Caller -> {"start", "none"}]
           /\ result' \in [Caller -> {"none", "peers", "error", "timeout"}]
<1>1. ASSUME NEW l \in Location, Goto(c, l)
      PROVE  /\ pc' \in [Caller -> Location]
             /\ event' = event /\ result' = result
  BY <1>1 DEF Inv, TypeOK, Goto
<1>2. CASE Return(c, r)
  BY <1>2 DEF Inv, TypeOK, Return, Location
<1> QED
  BY <1>1, <1>2 DEF Moves, Inv, TypeOK

LEMMA MovesNumbered ==
    ASSUME Inv, NEW c \in Caller, NEW r, Moves(c, r), pc[c] # "idle", call' = call
    PROVE  CallsNumbered'
<1>1. pc \in [Caller -> Location] /\ call[c] # 0
  BY DEF Inv, TypeOK, CallsNumbered
<1>2. \A o \in Caller \ {c} : pc'[o] = pc[o]
  BY <1>1 DEF Moves, Goto, Return
<1> QED
  BY <1>1, <1>2 DEF Inv, CallsNumbered

LEMMA MovesResult ==
    ASSUME Inv, NEW c \in Caller, NEW r, Moves(c, r), r # "peers", UNCHANGED answer,
           sent \subseteq sent'
    PROVE  PeersBeginWithAnswer'
<1>1. \A o \in Caller : result'[o] \in {result[o], r}
  BY DEF Moves, Goto, Return, Inv, TypeOK
<1>2. \A d : AnswersAnnounce(d, sent) => AnswersAnnounce(d, sent')
  BY SentGrows
<1> QED
  BY <1>1, <1>2 DEF Inv, PeersBeginWithAnswer

LEMMA EmptyTyped == <<>> \in Seq(Datagram) /\ DOMAIN (<<>>) = {}
  OBVIOUS

LEMMA ReadingTyped ==
    ASSUME Inv, NEW c \in Caller, NEW k \in Nat, NEW t \in {15, 30, 60}, Reading(c, k, t, <<>>)
    PROVE  /\ sock' \in [Caller -> Nat]
           /\ timeout' \in [Caller -> {15, 30, 60}]
           /\ buf' \in [Caller -> Seq(Datagram)]
           /\ \A o \in Caller : DOMAIN buf'[o] = {} \/ buf'[o] = buf[o]
<1>1. buf \in [Caller -> Seq(Datagram)]
  BY DEF Inv, TypeOK
<1>2. buf' \in [Caller -> Seq(Datagram)]
  BY <1>1, EmptyTyped DEF Reading
<1>3. \A o \in Caller : DOMAIN buf'[o] = {} \/ buf'[o] = buf[o]
  BY <1>1, EmptyTyped DEF Reading
<1> QED
  BY <1>2, <1>3 DEF Reading, Inv, TypeOK

LEMMA PeersReadKept ==
    ASSUME Inv, \A o \in Caller : DOMAIN buf'[o] = {} \/ buf'[o] = buf[o],
           sent \subseteq sent'
    PROVE  PeersRead'
<1>1. \A d : AnswersAnnounce(d, sent) => AnswersAnnounce(d, sent')
  BY SentGrows
<1> QED
  BY <1>1 DEF Inv, PeersRead

-----------------------------------------------------------------------------

LEMMA InitInv == Init => Inv
<1> SUFFICES ASSUME Init PROVE Inv
  OBVIOUS
<1>1. TypeOK
  BY EmptyTyped DEF Init, TypeOK, Location, udpBaseTimeout
<1>2. CallsNumbered /\ ConnectsNumbered /\ IdsGiven /\ PeersBeginWithAnswer
  BY DEF Init, CallsNumbered, ConnectsNumbered, IdsGiven, Given, PeersBeginWithAnswer
<1>3. PeersRead
  BY EmptyTyped DEF Init, PeersRead
<1> QED
  BY <1>1, <1>2, <1>3 DEF Inv

\* A call begins.
LEMMA AnnounceInv ==
    ASSUME Inv, NEW c \in Caller, NEW e \in {"start", "none"}, Announce(c, e)
    PROVE  Inv'
<1> USE DEF Announce, Alive, field
<1>1. TypeOK'
  BY DEF Inv, TypeOK, Location
<1>2. CallsNumbered'
  BY DEF Inv, TypeOK, CallsNumbered
<1>3. ConnectsNumbered' /\ IdsGiven' /\ PeersRead'
  BY DEF Inv, ConnectsNumbered, IdsGiven, PeersRead
<1>4. PeersBeginWithAnswer'
  BY DEF Inv, TypeOK, PeersBeginWithAnswer
<1> QED
  BY <1>1, <1>2, <1>3, <1>4 DEF Inv

\* A socket is opened, or not.
LEMMA DialInv ==
    ASSUME Inv, NEW c \in Caller, Dial(c)
    PROVE  Inv'
<1>1. Moves(c, "error") /\ pc[c] # "idle"
  BY DEF Dial, Alive, Moves, Location
<1>2. /\ sockets' \in Nat /\ conn' \in Nat
      /\ UNCHANGED <<connID, tranID, waits, net, call, sock, timeout, buf, fault>>
  BY DEF Dial, Inv, TypeOK
<1>3. TypeOK'
  BY <1>1, <1>2, MovesTyped DEF Inv, TypeOK, net
<1>4. CallsNumbered'
  BY <1>1, <1>2, MovesNumbered
<1>5. ConnectsNumbered' /\ IdsGiven' /\ PeersRead'
  BY <1>2 DEF Inv, ConnectsNumbered, IdsGiven, PeersRead, net
<1>6. PeersBeginWithAnswer'
  BY <1>1, <1>2, MovesResult DEF net
<1> QED
  BY <1>3, <1>4, <1>5, <1>6 DEF Inv

\* A request is sent.
LEMMA SendInv ==
    ASSUME Inv, NEW c \in Caller, SendConnect(c) \/ SendAnnounce(c)
    PROVE  Inv'
<1>1. PICK q \in Request, l \in Location :
        /\ q.action = "connect" => q.tran # 0
        /\ Given(q.id, sent)
        /\ sent' \in {sent, sent \cup {q}}
        /\ \/ UNCHANGED <<pc, event, sock, timeout, buf, result>>
           \/ Goto(c, l) /\ Reading(c, conn, udpBaseTimeout, <<>>)
           \/ Return(c, "error") /\ UNCHANGED <<sock, timeout, buf>>
        /\ fault' \in {fault, "nilConn"}
  <2>1. CASE SendConnect(c)
    <3> DEFINE q == [sock |-> conn, action |-> "connect", tran |-> call[c], id |-> 0,
                     call |-> call[c]]
    <3>1. q \in Request /\ q.action = "connect" /\ q.tran # 0 /\ Given(q.id, sent)
      BY <2>1 DEF Inv, TypeOK, CallsNumbered, Request, SendConnect, Alive, Given
    <3>2. Send(c, "connect", call[c], 0, "readConnect")
      BY <2>1 DEF SendConnect
    <3>3. /\ sent' \in {sent, sent \cup {q}}
          /\ \/ UNCHANGED <<pc, event, sock, timeout, buf, result>>
             \/ Goto(c, "readConnect") /\ Reading(c, conn, udpBaseTimeout, <<>>)
             \/ Return(c, "error") /\ UNCHANGED <<sock, timeout, buf>>
          /\ fault' \in {fault, "nilConn"}
      BY <3>2 DEF Send
    <3>4. "readConnect" \in Location
      BY DEF Location
    <3> HIDE DEF q
    <3> QED
      BY <3>1, <3>3, <3>4
  <2>2. CASE SendAnnounce(c)
    <3> DEFINE q == [sock |-> conn, action |-> "announce", tran |-> tranID, id |-> connID,
                     call |-> call[c]]
    <3>1. q \in Request /\ q.action = "announce" /\ Given(q.id, sent)
      BY DEF Inv, TypeOK, Request, IdsGiven
    <3>2. Send(c, "announce", tranID, connID, "readAnnounce")
      BY <2>2 DEF SendAnnounce
    <3>3. /\ sent' \in {sent, sent \cup {q}}
          /\ \/ UNCHANGED <<pc, event, sock, timeout, buf, result>>
             \/ Goto(c, "readAnnounce") /\ Reading(c, conn, udpBaseTimeout, <<>>)
             \/ Return(c, "error") /\ UNCHANGED <<sock, timeout, buf>>
          /\ fault' \in {fault, "nilConn"}
      BY <3>2 DEF Send
    <3>4. "readAnnounce" \in Location
      BY DEF Location
    <3> HIDE DEF q
    <3> QED
      BY <3>1, <3>3, <3>4
  <2> QED
    BY <2>1, <2>2
<1>2. /\ pc[c] # "idle" /\ tranID' \in {tranID, call[c]}
      /\ UNCHANGED <<conn, connID, waits, sockets, calls, answer, call>>
  BY DEF SendConnect, SendAnnounce, Alive, field
<1>3. Moves(c, "error")
  BY <1>1 DEF Moves
<1>4. /\ sock' \in [Caller -> Nat]
      /\ timeout' \in [Caller -> {15, 30, 60}]
      /\ buf' \in [Caller -> Seq(Datagram)]
      /\ \A o \in Caller : DOMAIN buf'[o] = {} \/ buf'[o] = buf[o]
  <2>1. conn \in Nat /\ udpBaseTimeout \in {15, 30, 60}
    BY DEF Inv, TypeOK, udpBaseTimeout
  <2>2. CASE Reading(c, conn, udpBaseTimeout, <<>>)
    BY <2>1, <2>2, ReadingTyped
  <2>3. CASE UNCHANGED <<sock, timeout, buf>>
    BY <2>3 DEF Inv, TypeOK
  <2>4. Reading(c, conn, udpBaseTimeout, <<>>) \/ UNCHANGED <<sock, timeout, buf>>
    BY <1>1, Zenon
  <2> QED
    BY <2>2, <2>3, <2>4
<1>5. TypeOK'
  <2>1. sent' \in SUBSET Request /\ tranID' \in Nat /\ fault' \in {"none", "nilConn"}
    BY <1>1, <1>2 DEF Inv, TypeOK
  <2> QED
    BY <1>2, <1>3, <1>4, <2>1, MovesTyped DEF Inv, TypeOK
<1>6. CallsNumbered' /\ PeersRead' /\ PeersBeginWithAnswer'
  BY <1>1, <1>2, <1>3, <1>4, MovesNumbered, PeersReadKept, MovesResult
<1>7. ConnectsNumbered' /\ IdsGiven'
  <2>1. ConnectsNumbered'
    BY <1>1 DEF Inv, ConnectsNumbered
  <2>2. \A id : Given(id, sent) => Given(id, sent')
    BY <1>1, SentGrows
  <2>3. \A p \in sent' : Given(p.id, sent)
    BY <1>1 DEF Inv, IdsGiven
  <2> QED
    BY <1>2, <2>1, <2>2, <2>3 DEF Inv, IdsGiven
<1> QED
  BY <1>5, <1>6, <1>7 DEF Inv

\* An answer to a connect is read, and the id that it gives is taken.
LEMMA ReadConnectInv ==
    ASSUME Inv, NEW c \in Caller, ReadConnect(c)
    PROVE  Inv'
<1>1. PICK d \in Incoming(sock[c]) :
        IF d.action = "connect" /\ d.tran = tranID
        THEN connID' = d.id /\ Goto(c, "announce")
        ELSE Return(c, "error") /\ UNCHANGED connID
  BY DEF ReadConnect
<1>2. d \in Datagram /\ (d.action = "connect" => Given(d.id, sent))
  BY IncomingDatagram
<1>3. /\ pc[c] # "idle"
      /\ Reading(c, 0, udpBaseTimeout, <<>>)
      /\ UNCHANGED <<conn, tranID, waits, sockets, net, call, fault>>
  BY DEF ReadConnect, Alive
<1>4. Moves(c, "error")
  BY <1>1 DEF Moves, Location
<1>5. connID' \in Nat /\ Given(connID', sent)
  BY <1>1, <1>2 DEF Datagram, Inv, TypeOK, IdsGiven
<1>6. /\ sock' \in [Caller -> Nat]
      /\ timeout' \in [Caller -> {15, 30, 60}]
      /\ buf' \in [Caller -> Seq(Datagram)]
      /\ \A o \in Caller : DOMAIN buf'[o] = {} \/ buf'[o] = buf[o]
  BY <1>3, ReadingTyped DEF udpBaseTimeout
<1>7. TypeOK'
  BY <1>3, <1>4, <1>5, <1>6, MovesTyped DEF Inv, TypeOK, net
<1>8. CallsNumbered' /\ PeersRead' /\ PeersBeginWithAnswer'
  BY <1>3, <1>4, <1>5, <1>6, MovesNumbered, PeersReadKept, MovesResult DEF net
<1>9. ConnectsNumbered' /\ IdsGiven'
  BY <1>3, <1>5 DEF Inv, ConnectsNumbered, IdsGiven, net
<1> QED
  BY <1>7, <1>8, <1>9 DEF Inv

\* A time to wait of at most a minute is doubled.
LEMMA Doubled ==
    ASSUME NEW t \in {15, 30, 60}, ~GivesUp(t)
    PROVE  t * 2 \in {15, 30, 60}
  BY DEF GivesUp, udpWaitMaxTime

\* Steps with which a call waits longer or ends without peers.
LEMMA WaitInv ==
    ASSUME Inv, NEW c \in Caller, Timeout(c) \/ ReadFails(c) \/ Refuse(c)
    PROVE  Inv'
<1>1. pc[c] # "idle" /\ UNCHANGED <<field, net, call>> /\ fault' \in {fault, "nilConn"}
  BY DEF Timeout, ReadFails, Refuse, Alive
<1>2. PICK r \in {"error", "timeout"} : Moves(c, r)
  BY DEF Timeout, ReadFails, Refuse, Moves
<1>3. /\ sock' \in [Caller -> Nat]
      /\ timeout' \in [Caller -> {15, 30, 60}]
      /\ buf' \in [Caller -> Seq(Datagram)]
      /\ \A o \in Caller : DOMAIN buf'[o] = {} \/ buf'[o] = buf[o]
  <2>1. conn \in Nat /\ 0 \in Nat /\ timeout[c] \in {15, 30, 60}
    BY DEF Inv, TypeOK
  <2>2. udpBaseTimeout \in {15, 30, 60}
    BY DEF udpBaseTimeout
  <2>3. \/ UNCHANGED <<sock, timeout, buf>>
        \/ Reading(c, 0, udpBaseTimeout, <<>>)
        \/ ~GivesUp(timeout[c]) /\ Reading(c, conn, timeout[c] * 2, <<>>)
    BY DEF Timeout, ReadFails, Refuse
  <2>4. CASE UNCHANGED <<sock, timeout, buf>>
    BY <2>4 DEF Inv, TypeOK
  <2>5. CASE Reading(c, 0, udpBaseTimeout, <<>>)
    BY <2>1, <2>2, <2>5, ReadingTyped
  <2>6. CASE ~GivesUp(timeout[c]) /\ Reading(c, conn, timeout[c] * 2, <<>>)
    <3>1. timeout[c] * 2 \in {15, 30, 60}
      BY <2>1, <2>6, Doubled
    <3> QED
      BY <2>1, <2>6, <3>1, ReadingTyped
  <2> QED
    BY <2>3, <2>4, <2>5, <2>6
<1>4. TypeOK'
  BY <1>1, <1>2, <1>3, MovesTyped DEF Inv, TypeOK, field, net
<1>5. CallsNumbered' /\ PeersRead' /\ PeersBeginWithAnswer'
  BY <1>1, <1>2, <1>3, MovesNumbered, PeersReadKept, MovesResult DEF field, net
<1>6. ConnectsNumbered' /\ IdsGiven'
  BY <1>1 DEF Inv, ConnectsNumbered, IdsGiven, field, net
<1> QED
  BY <1>4, <1>5, <1>6 DEF Inv

\* A datagram is read into the response.
LEMMA ReadAnnounceInv ==
    ASSUME Inv, NEW c \in Caller, ReadAnnounce(c)
    PROVE  Inv'
<1>1. PICK d \in Incoming(sock[c]) :
        LET b == Append(buf[c], d)
        IN  IF Filled(b) THEN Respond(c, b) /\ Reading(c, 0, udpBaseTimeout, <<>>)
            ELSE /\ buf' = [buf EXCEPT ![c] = b]
                 /\ UNCHANGED <<pc, event, sock, timeout, result, waits, answer>>
  BY DEF ReadAnnounce
<1>2. d \in Datagram /\ (d.action = "announce" => AnswersAnnounce(d, sent))
  BY IncomingDatagram
<1>3. /\ pc[c] # "idle"
      /\ UNCHANGED <<conn, connID, tranID, sockets, calls, sent, call, fault>>
  BY DEF ReadAnnounce, Alive
<1> DEFINE b == Append(buf[c], d)
<1>4. buf \in [Caller -> Seq(Datagram)] /\ buf[c] \in Seq(Datagram)
  BY DEF Inv, TypeOK
<1>5. /\ b \in Seq(Datagram) /\ DOMAIN b = 1 .. Len(buf[c]) + 1
      /\ DOMAIN buf[c] = 1 .. Len(buf[c]) /\ Len(buf[c]) \in Nat
      /\ b[Len(buf[c]) + 1] = d /\ \A k \in DOMAIN buf[c] : b[k] = buf[c][k]
  <2> HIDE DEF b
  <2>1. b = Append(buf[c], d)
    BY DEF b
  <2> QED
    BY <1>2, <1>4, <2>1
<1>7. \A k \in DOMAIN b : b[k].action = "announce" => AnswersAnnounce(b[k], sent)
  <2>1. \A k \in DOMAIN buf[c] : b[k].action = "announce" => AnswersAnnounce(b[k], sent)
    BY <1>5 DEF Inv, PeersRead
  <2>2. \A k \in DOMAIN b : k \in DOMAIN buf[c] \/ k = Len(buf[c]) + 1
    BY <1>5
  <2> HIDE DEF b
  <2> QED
    BY <1>2, <1>5, <2>1, <2>2
<1> HIDE DEF b
<1>8. CASE Filled(b)
  <2>1. Respond(c, b) /\ Reading(c, 0, udpBaseTimeout, <<>>)
    BY <1>1, <1>8 DEF b
  <2>2. PICK r \in {"peers", "error"} :
          /\ Return(c, r) /\ waits' \in BOOLEAN
          /\ \/ r = "peers" /\ Accepted(b[1]) /\ Answer(c, b[1])
             \/ r = "error" /\ UNCHANGED answer
    BY <2>1 DEF Respond, Inv, TypeOK
  <2>3. Moves(c, r) /\ b[1] \in Datagram
    BY <1>5, <2>2 DEF Moves
  <2>4. /\ sock' \in [Caller -> Nat]
        /\ timeout' \in [Caller -> {15, 30, 60}]
        /\ buf' \in [Caller -> Seq(Datagram)]
        /\ \A o \in Caller : DOMAIN buf'[o] = {} \/ buf'[o] = buf[o]
    BY <2>1, ReadingTyped DEF udpBaseTimeout
  <2>5. TypeOK'
    <3>1. answer' \in [Caller -> SUBSET Datagram]
      <4>1. answer \in [Caller -> SUBSET Datagram] /\ {b[1]} \in SUBSET Datagram
        BY <2>3 DEF Inv, TypeOK
      <4>2. answer' = answer \/ answer' = [answer EXCEPT ![c] = {b[1]}]
        BY <2>2 DEF Answer
      <4> QED
        BY <4>1, <4>2, Zenon
    <3> QED
      BY <1>3, <2>2, <2>3, <2>4, <3>1, MovesTyped DEF Inv, TypeOK
  <2>6. CallsNumbered' /\ PeersRead'
    BY <1>3, <2>3, <2>4, MovesNumbered, PeersReadKept
  <2>7. PeersBeginWithAnswer'
    <3>1. CASE r = "error"
      BY <1>3, <2>2, <2>3, <3>1, MovesResult
    <3>2. CASE r = "peers"
      <4>1. AnswersAnnounce(b[1], sent)
        BY <1>5, <1>7, <2>2, <3>2 DEF Accepted
      <4>2. /\ answer'[c] = {b[1]}
            /\ \A o \in Caller \ {c} : answer'[o] = answer[o] /\ result'[o] = result[o]
        BY <2>2, <3>2 DEF Answer, Return, Inv, TypeOK
      <4> QED
        BY <1>3, <4>1, <4>2 DEF Inv, PeersBeginWithAnswer
    <3> QED
      BY <2>2, <3>1, <3>2
  <2> QED
    BY <1>3, <2>5, <2>6, <2>7 DEF Inv, ConnectsNumbered, IdsGiven
<1>9. CASE ~Filled(b)
  <2>1. /\ buf' = [buf EXCEPT ![c] = b]
        /\ UNCHANGED <<pc, event, sock, timeout, result, waits, answer>>
    BY <1>1, <1>9 DEF b
  <2>2. TypeOK'
    <3>1. buf' \in [Caller -> Seq(Datagram)]
      BY <1>4, <1>5, <2>1
    <3> QED
      BY <1>3, <2>1, <3>1 DEF Inv, TypeOK
  <2>3. PeersRead'
    <3>1. buf'[c] = b /\ \A o \in Caller \ {c} : buf'[o] = buf[o]
      BY <1>4, <2>1
    <3> QED
      BY <1>3, <1>7, <3>1 DEF Inv, PeersRead
  <2>4. CallsNumbered' /\ PeersBeginWithAnswer'
    BY <1>3, <2>1 DEF Inv, CallsNumbered, PeersBeginWithAnswer
  <2> QED
    BY <1>3, <2>2, <2>3, <2>4 DEF Inv, ConnectsNumbered, IdsGiven
<1> QED
  BY <1>8, <1>9

\* Inv is inductive.
LEMMA NextInv ==
    ASSUME Inv, [Next]_vars
    PROVE  Inv'
<1>1. ASSUME NEW c \in Caller, Step(c)
      PROVE  Inv'
  BY <1>1, DialInv, SendInv, ReadConnectInv, WaitInv, ReadAnnounceInv DEF Step
<1>2. CASE Elapse
  BY <1>2 DEF Elapse, net, local, Inv, TypeOK, CallsNumbered, ConnectsNumbered, IdsGiven,
              PeersRead, PeersBeginWithAnswer
<1>3. CASE UNCHANGED vars
  BY <1>3 DEF vars, field, net, local, Inv, TypeOK, CallsNumbered, ConnectsNumbered,
              IdsGiven, PeersRead, PeersBeginWithAnswer
<1> QED
  BY <1>1, <1>2, <1>3, AnnounceInv DEF Next

-----------------------------------------------------------------------------
(* A step of a call, as the manager sees it.                               *)

\* A call that returns r.
LEMMA PhaseReturns ==
    ASSUME Inv, NEW c \in Caller, NEW r, pc[c] # "idle", Return(c, r)
    PROVE  /\ Phase[c] = "called"
           /\ Phase' = [Phase EXCEPT ![c] = IF r = "timeout" THEN "error" ELSE r]
<1>1. pc \in [Caller -> Location] /\ DOMAIN result = Caller
  BY DEF Inv, TypeOK
<1>2. /\ pc'[c] = "idle" /\ result'[c] = r
      /\ \A o \in Caller \ {c} : pc'[o] = pc[o] /\ result'[o] = result[o]
  BY <1>1 DEF Return
<1> QED
  BY <1>2 DEF Phase, Outcome

\* A call that goes on.
LEMMA PhaseKept ==
    ASSUME Inv, NEW c \in Caller, NEW l \in Location \ {"idle"}, pc[c] # "idle", Goto(c, l)
    PROVE  Phase' = Phase
<1>1. pc \in [Caller -> Location]
  BY DEF Inv, TypeOK
<1>2. /\ pc'[c] # "idle" /\ result' = result
      /\ \A o \in Caller \ {c} : pc'[o] = pc[o]
  BY <1>1 DEF Goto
<1> QED
  BY <1>2 DEF Phase, Outcome

\* Every step of UDPTracker is one of TrackerCall, or none.
LEMMA StepRefines ==
    ASSUME Inv, [Next]_vars
    PROVE  [Tracker!Next]_<<Phase, waits>>
<1>1. ASSUME NEW c \in Caller, NEW r \in {"error", "timeout"},
             pc[c] # "idle", Return(c, r), UNCHANGED waits
      PROVE  Tracker!Fails(c)
  BY <1>1, PhaseReturns DEF Tracker!Fails
<1>2. ASSUME NEW c \in Caller, NEW l \in Location \ {"idle"},
             pc[c] # "idle", Goto(c, l), UNCHANGED waits
      PROVE  UNCHANGED <<Phase, waits>>
  BY <1>2, PhaseKept
<1>3. ASSUME UNCHANGED <<pc, result, waits>>
      PROVE  UNCHANGED <<Phase, waits>>
  BY <1>3 DEF Phase, Outcome
<1>4. ASSUME NEW c \in Caller, NEW e \in {"start", "none"}, Announce(c, e)
      PROVE  Tracker!Call(c)
  <2>1. /\ pc \in [Caller -> Location]
        /\ result \in [Caller -> {"none", "peers", "error", "timeout"}]
    BY DEF Inv, TypeOK
  <2>2. /\ pc[c] = "idle" /\ pc'[c] # "idle" /\ waits' = waits
        /\ \A o \in Caller \ {c} : pc'[o] = pc[o] /\ result'[o] = result[o]
    BY <1>4, <2>1 DEF Announce, Alive, field
  <2>3. Phase[c] # "called" /\ Phase' = [Phase EXCEPT ![c] = "called"]
    BY <2>1, <2>2 DEF Phase, Outcome
  <2> QED
    BY <2>2, <2>3 DEF Tracker!Call
<1>5. ASSUME NEW c \in Caller, Step(c)
      PROVE  [Tracker!Next]_<<Phase, waits>>
  <2> USE DEF Tracker!Next
  <2>1. pc[c] # "idle"
    BY <1>5 DEF Step, Dial, SendConnect, ReadConnect, Refuse, SendAnnounce, ReadAnnounce,
                Timeout, ReadFails, Alive
  <2>2. CASE Dial(c)
    <3>1. (Goto(c, "connect") \/ Return(c, "error")) /\ UNCHANGED waits
      BY <2>2 DEF Dial
    <3> QED
      BY <1>1, <1>2, <2>1, <3>1 DEF Location
  <2>3. CASE SendConnect(c)
    <3>1. Send(c, "connect", call[c], 0, "readConnect") /\ UNCHANGED waits
      BY <2>3 DEF SendConnect
    <3>2. Goto(c, "readConnect") \/ Return(c, "error") \/ UNCHANGED <<pc, result>>
      BY <3>1 DEF Send
    <3> QED
      BY <1>1, <1>2, <1>3, <2>1, <3>1, <3>2 DEF Location
  <2>4. CASE ReadConnect(c)
    <3>1. (Goto(c, "announce") \/ Return(c, "error")) /\ UNCHANGED waits
      BY <2>4 DEF ReadConnect
    <3> QED
      BY <1>1, <1>2, <2>1, <3>1 DEF Location
  <2>5. CASE SendAnnounce(c)
    <3>1. Send(c, "announce", tranID, connID, "readAnnounce") /\ UNCHANGED waits
      BY <2>5 DEF SendAnnounce, field
    <3>2. Goto(c, "readAnnounce") \/ Return(c, "error") \/ UNCHANGED <<pc, result>>
      BY <3>1 DEF Send
    <3> QED
      BY <1>1, <1>2, <1>3, <2>1, <3>1, <3>2 DEF Location
  <2>6. CASE Refuse(c) \/ ReadFails(c)
    BY <1>1, <2>1, <2>6 DEF Refuse, ReadFails, field
  <2>7. CASE Timeout(c)
    <3>1. (Return(c, "timeout") \/ UNCHANGED <<pc, result>>) /\ UNCHANGED waits
      BY <2>7 DEF Timeout, field
    <3> QED
      BY <1>1, <1>3, <2>1, <3>1
  <2>8. CASE ReadAnnounce(c)
    <3>1. PICK b : Respond(c, b) \/ UNCHANGED <<pc, result, waits>>
      BY <2>8 DEF ReadAnnounce
    <3>2. CASE waits' \in BOOLEAN /\ Return(c, "peers")
      BY <2>1, <3>2, PhaseReturns DEF Tracker!Answers
    <3>3. CASE Return(c, "error") /\ UNCHANGED waits
      BY <1>1, <2>1, <3>3
    <3> QED
      BY <1>3, <3>1, <3>2, <3>3 DEF Respond
  <2> QED
    BY <1>5, <2>2, <2>3, <2>4, <2>5, <2>6, <2>7, <2>8 DEF Step
<1>6. CASE Elapse
  <2>1. waits' = FALSE /\ Phase' = Phase
    BY <1>6 DEF Elapse, local, Phase, Outcome
  <2> QED
    BY <2>1 DEF Tracker!Next, Tracker!Elapse
<1>7. CASE UNCHANGED vars
  BY <1>3, <1>7 DEF vars, field, local
<1> QED
  BY <1>4, <1>5, <1>6, <1>7 DEF Next, Tracker!Next

-----------------------------------------------------------------------------

\* The inductive invariant holds in every reachable state.
THEOREM Invariance == Spec => []Inv
  BY InitInv, NextInv, PTL DEF Spec

\* Every variable keeps its type; in particular no read of a tracker's answer
\* waits longer than udpWaitMaxTime, however often its deadline is doubled.
THEOREM TypeCorrect == Spec => []TypeOK
<1>1. Inv => TypeOK
  BY DEF Inv
<1> QED
  BY <1>1, Invariance, PTL

\* However many goroutines are in Announce, and whatever datagrams are lost,
\* late or doubled, the response from which peers are returned begins with the
\* tracker's answer to an announce with a connection id it had given.
THEOREM PeersAreAnswers == Spec => []PeersBeginWithAnswer
<1>1. Inv => PeersBeginWithAnswer
  BY DEF Inv
<1> QED
  BY <1>1, Invariance, PTL

\* The exchange of datagrams implements the call that TrackerManager is built
\* on: a call ends with peers or an error, and only peers move nextTime.
THEOREM ImplementsTrackerCall == Spec => IsTrackerCall
<1>1. Init => Tracker!Init
  BY DEF Init, Tracker!Init, Phase, Outcome
<1>2. Inv /\ [Next]_vars => [Tracker!Next]_<<Phase, waits>>
  BY StepRefines
<1> QED
  BY <1>1, <1>2, Invariance, PTL DEF Spec, IsTrackerCall
=============================================================================
