------------------------------ MODULE Choking ------------------------------
(***************************************************************************)
(* Whom peer.Manager serves (peer/manager.go): the addresses in            *)
(* m.interest, the slots of m.unchoke that updateUnchoke gives out every   *)
(* ten seconds, and the requests that are let in while an address has a    *)
(* slot.                                                                   *)
(*                                                                         *)
(* Run does one thing at a time, but the goroutines that read from the     *)
(* connections stop their peers at any moment, also in the middle of       *)
(* updateUnchoke.  It is modelled one loop iteration at a time.            *)
(*                                                                         *)
(* peer.Download and peer.Upload, by which updateUnchoke sorts, stay 0: no *)
(* piece is ever complete for fs.RequestData, which then sends nothing to  *)
(* m.blockc, and nobody adds to Download.  So the order is any order.      *)
(* optimUnchoke changes nothing: every object in m.peers is past stateInit.*)
(* That a piece is finished supposes that somebody receives from m.memc;   *)
(* what happens when nobody does is in PeerRequests.                       *)
(***************************************************************************)
EXTENDS Naturals, Sequences, FiniteSets

CONSTANTS
    Addr,        \* remote addresses
    Slots,       \* maxUnchoke
    Request,     \* what request.hash tells apart
    MaxLetIn,    \* bound on the addresses that wait for one request
    NoAddr       \* a slot that was never given

ASSUME ChokingAssumption ==
    /\ Slots \in Nat \ {0}
    /\ MaxLetIn \in Nat
    /\ IsFiniteSet(Addr)
    /\ NoAddr \notin Addr

VARIABLES
    peers,         \* the state of the object that m.peers has for an address
    interest,      \* m.interest
    unchoke,       \* m.unchoke
    finish,        \* the requests for pieces that are in m.finish
    peerRequest,   \* m.peerRequest: the addresses whose request was let in
    told,          \* the last of choke() and unchoke() for that object while it
                   \* runs (history)
    pc,            \* where Run is
    rest,          \* the keys of m.interest that updateUnchoke has not looked at
    ps,            \* the addresses it has found running
    first,         \* ps[:n]
    pos,           \* the iteration of the loop over first
    kept           \* those found in a slot: t is Len(first) - Cardinality(kept)

updateVars == <<rest, ps, first, pos, kept>>
vars == <<peers, interest, unchoke, finish, peerRequest, told, pc, updateVars>>

Slot == 1 .. Slots

\* p.getState() == stateRunning.  p.Close() leaves the state to the goroutine
\* that reads from the connection, so here it is no more than a peer that may
\* stop; the panic of a second Close is in PeerRequests.
Active(a) == peers[a] = "running"

\* Run waits in its select.
Waits == pc = "select"

-----------------------------------------------------------------------------
(* Peers.                                                                  *)

HasSlot(a) == \E s \in Slot : unchoke[s] = a

\* A peer whose handshake is done joins; one that m.peers has for its address
\* is forgotten, but what m.interest and m.unchoke say of the address is not:
\* the new connection was told nothing, and may inherit a slot.
Join(a) ==
    /\ Waits
    /\ peers' = [peers EXCEPT ![a] = "running"]
    /\ told' = [told EXCEPT ![a] = IF HasSlot(a) THEN "inherits" ELSE "nothing"]
    /\ UNCHANGED <<interest, unchoke, finish, peerRequest, pc, updateVars>>

\* Variant for mutation: the object leaves m.peers.
StopForgets(a) ==
    /\ Active(a)
    /\ peers' = [peers EXCEPT ![a] = "none"]
    /\ UNCHANGED <<interest, unchoke, finish, peerRequest, told, pc, updateVars>>

\* recvMessage ends: a read failed, or p.closing is closed.
Stop(a) ==
    /\ Active(a)
    /\ peers' = [peers EXCEPT ![a] = "stop"]
    /\ told' = [told EXCEPT ![a] = "nothing"]
    /\ UNCHANGED <<interest, unchoke, finish, peerRequest, pc, updateVars>>

\* Have, bitfield or unchoke of a peer that has a piece we need.
BecomesInteresting(a) ==
    /\ Waits /\ Active(a)
    /\ interest' = interest \cup {a}
    /\ UNCHANGED <<peers, unchoke, finish, peerRequest, told, pc, updateVars>>

\* handlePiece sets a bit of m.finish.
FinishPiece(r) ==
    /\ Waits
    /\ \E a \in Addr : Active(a)
    /\ finish' = finish \cup {r}
    /\ UNCHANGED <<peers, interest, unchoke, peerRequest, told, pc, updateVars>>

\* handleReq: a request is rejected, or its peer closed, unless the piece is
\* finished and the address has a slot.
HandleReq(a, r) ==
    /\ Waits /\ Active(a)
    /\ r \in finish
    /\ HasSlot(a)
    /\ Cardinality(peerRequest[r]) < MaxLetIn
    /\ peerRequest' = [peerRequest EXCEPT ![r] = @ \cup {a}]
    /\ UNCHANGED <<peers, interest, unchoke, finish, told, pc, updateVars>>

\* handleCancel drops a request for everyone who made it.
HandleCancel(a, r) ==
    /\ Waits /\ Active(a)
    /\ peerRequest' = [peerRequest EXCEPT ![r] = {}]
    /\ UNCHANGED <<peers, interest, unchoke, finish, told, pc, updateVars>>

-----------------------------------------------------------------------------
(* updateUnchoke.                                                          *)

Begin ==
    /\ Waits
    /\ rest' = interest
    /\ ps' = {}
    /\ pc' = "collect"
    /\ UNCHANGED <<peers, interest, unchoke, finish, peerRequest, told, first, pos, kept>>

\* p.choke() and p.unchoke() for the addresses in S.  The goroutine that
\* sendMessage starts writes to a peer that is running, and drops the message for
\* one that has stopped.
Tell(S, what) ==
    told' = [a \in Addr |-> IF a \in S /\ Active(a) THEN what ELSE told[a]]

\* The loop over m.interest; it calls logger.Fatalln if m.peers has no object.
Collect(a) ==
    /\ pc = "collect"
    /\ a \in rest
    /\ peers[a] # "none"
    /\ rest' = rest \ {a}
    /\ IF Active(a)
       THEN ps' = ps \cup {a} /\ UNCHANGED interest
       ELSE interest' = interest \ {a} /\ UNCHANGED ps
    /\ UNCHANGED <<peers, unchoke, finish, peerRequest, told, pc, first, pos, kept>>

\* What sort.Slice may leave in ps[:n].
FirstOf(S) ==
    LET n == IF Cardinality(S) < Slots THEN Cardinality(S) ELSE Slots
    IN  {s \in [1 .. n -> S] : \A i, j \in 1 .. n : i # j => s[i] # s[j]}

Sort ==
    /\ pc = "collect"
    /\ rest = {}
    /\ \E s \in FirstOf(ps) : first' = s
    /\ pos' = 1
    /\ kept' = {}
    /\ ps' = {}
    /\ pc' = "search"
    /\ UNCHANGED <<peers, interest, unchoke, finish, peerRequest, told, rest>>

\* h is the last slot of the address: the loop goes on after it has found one.
LastSlot(a, h) == unchoke[h] = a /\ \A s \in Slot : unchoke[s] = a => s <= h

\* The two copies when the address is in slot h: the first moves nothing, the
\* second moves the slots after h to the front, as far as they fit before h.
Shift(h) == [s \in Slot |-> IF s < h /\ h + s <= Slots THEN unchoke[h + s] ELSE unchoke[s]]

\* Variant for mutation: forgets p.unchoke().
SearchSilent ==
    /\ pc = "search"
    /\ pos \in DOMAIN first
    /\ IF HasSlot(first[pos])
       THEN /\ \E h \in Slot : LastSlot(first[pos], h) /\ unchoke' = Shift(h)
            /\ kept' = kept \cup {first[pos]}
       ELSE UNCHANGED <<unchoke, kept>>
    /\ pos' = pos + 1
    /\ UNCHANGED <<peers, interest, finish, peerRequest, told, pc, rest, ps, first>>

\* One iteration of the loop over ps[:n].
Search ==
    /\ pc = "search"
    /\ pos \in DOMAIN first
    /\ IF HasSlot(first[pos])
       THEN /\ \E h \in Slot : LastSlot(first[pos], h) /\ unchoke' = Shift(h)
            /\ kept' = kept \cup {first[pos]}
            /\ UNCHANGED told
       ELSE /\ Tell({first[pos]}, "unchoke")
            /\ UNCHANGED <<unchoke, kept>>
    /\ pos' = pos + 1
    /\ UNCHANGED <<peers, interest, finish, peerRequest, pc, rest, ps, first>>

\* m.unchoke when ps[:n] has its slots.
Given == [s \in Slot |-> IF s \in DOMAIN first THEN first[s] ELSE unchoke[s]]

\* The addresses in the first t of the slots u that m.peers knows.
Leaving(u) ==
    {a \in Addr : /\ peers[a] # "none"
                  /\ \E s \in Slot : s + Cardinality(kept) <= Len(first) /\ u[s] = a}

Return ==
    /\ pc' = "select"
    /\ rest' = {} /\ ps' = {} /\ first' = <<>> /\ pos' = 1 /\ kept' = {}

\* Variant for mutation: the slots are given before the choking.
GiveFirst ==
    /\ pc = "search"
    /\ pos \notin DOMAIN first
    /\ unchoke' = Given
    /\ Tell(Leaving(Given), "choke")
    /\ Return
    /\ UNCHANGED <<peers, interest, finish, peerRequest>>

\* The first t slots are choked, then ps[:n] gets its slots.
Give ==
    /\ pc = "search"
    /\ pos \notin DOMAIN first
    /\ Tell(Leaving(unchoke), "choke")
    /\ unchoke' = Given
    /\ Return
    /\ UNCHANGED <<peers, interest, finish, peerRequest>>

-----------------------------------------------------------------------------

Init ==
    /\ peers = [a \in Addr |-> "none"]
    /\ interest = {}
    /\ unchoke = [s \in Slot |-> NoAddr]
    /\ finish = {}
    /\ peerRequest = [r \in Request |-> {}]
    /\ told = [a \in Addr |-> "nothing"]
    /\ pc = "select"
    /\ rest = {} /\ ps = {} /\ first = <<>> /\ pos = 1 /\ kept = {}

Next ==
    \/ \E a \in Addr : Join(a) \/ Stop(a) \/ BecomesInteresting(a) \/ Collect(a)
    \/ \E r \in Request : FinishPiece(r)
    \/ \E a \in Addr, r \in Request : HandleReq(a, r) \/ HandleCancel(a, r)
    \/ Begin \/ Sort \/ Search \/ Give

Spec == Init /\ [][Next]_vars

-----------------------------------------------------------------------------
(* Properties.                                                             *)

\* Every variable has its type; what updateUnchoke writes fits the slots.
TypeOK ==
    /\ peers \in [Addr -> {"none", "running", "stop"}]
    /\ interest \in SUBSET Addr
    /\ unchoke \in [Slot -> Addr \cup {NoAddr}]
    /\ finish \in SUBSET Request
    /\ peerRequest \in [Request -> SUBSET Addr]
    /\ told \in [Addr -> {"nothing", "inherits", "unchoke", "choke"}]
    /\ pc \in {"select", "collect", "search"}
    /\ rest \in SUBSET Addr /\ ps \in SUBSET Addr /\ kept \in SUBSET Addr
    /\ first \in Seq(Addr) /\ Len(first) <= Slots
    /\ pos \in Nat

\* updateUnchoke never calls logger.Fatalln("can't find the peer"): m.peers
\* has an object for every address in m.interest, however peers stop and
\* addresses come back meanwhile.
InterestingAreKnown ==
    \A a \in interest \cup (IF pc = "collect" THEN rest ELSE {}) : peers[a] # "none"

\* A peer whose request handleReq lets in was sent an unchoke, or has come back
\* to an address that had a slot: it is never served because slots moved around
\* while updateUnchoke searched them, nor because it stopped between being
\* collected and being given its slot, when the unchoke is dropped.
ServedWasUnchoked ==
    [][\A r \in Request : \A a \in peerRequest'[r] \ peerRequest[r] : told[a] # "nothing"]_vars

\* A choke is sent only to a peer that was sent an unchoke before, or that has
\* come back to an address that had a slot.
ChokeEndsUnchoke ==
    [][\A a \in Addr : told'[a] = "choke" => told[a] # "nothing"]_vars

\* Who gets a slot in an update, was in none when it was looked for and is still
\* running is left unchoked: the choking of what the slots held before never
\* hits it.
NewcomersAreUnchoked ==
    [][\A s \in DOMAIN first :
        pc = "search" /\ pc' = "select" /\ first[s] \notin kept /\ Active(first[s])
            => told'[first[s]] = "unchoke"]_vars
=============================================================================
