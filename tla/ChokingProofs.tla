--------------------------- MODULE ChokingProofs ---------------------------
(***************************************************************************)
(* The properties of Choking for any addresses, requests and number of     *)
(* slots.                                                                  *)
(***************************************************************************)
EXTENDS Choking, FiniteSetTheorems, TLAPS

\* m.peers has an object for whatever updateUnchoke may look up.
Known == /\ \A a \in interest \cup rest : peers[a] # "none"
         /\ rest # {} => pc = "collect"

\* A running peer with a slot was told, or has inherited the slot.
SlotsTold == \A a \in Addr : Active(a) /\ HasSlot(a) => told[a] # "nothing"

\* What the loop over ps[:n] has done: who was not found in a slot and still
\* runs has just been unchoked, and no later shift brings it into one.
Searched ==
    pc = "search" =>
        \A j \in 1 .. Len(first) : j < pos =>
            /\ Active(first[j]) => told[first[j]] # "nothing"
            /\ first[j] \notin kept =>
                   (Active(first[j]) => told[first[j]] = "unchoke") /\ ~HasSlot(first[j])

IInv == TypeOK /\ pos # 0 /\ Known /\ SlotsTold /\ Searched

-----------------------------------------------------------------------------

\* A shift only moves what the slots hold.
LEMMA ShiftFacts ==
    ASSUME TypeOK, NEW h \in Slot
    PROVE  /\ Shift(h) \in [Slot -> Addr \cup {NoAddr}]
           /\ \A s \in Slot : \E x \in Slot : Shift(h)[s] = unchoke[x]
  <1>1. \A s \in Slot : h + s <= Slots => h + s \in Slot
    BY ChokingAssumption DEF Slot
  <1> QED
    BY <1>1 DEF Shift, TypeOK

\* ps[:n] has at most as many addresses as there are slots.
LEMMA FirstFacts ==
    ASSUME TypeOK, NEW s \in FirstOf(ps)
    PROVE  s \in Seq(Addr) /\ Len(s) <= Slots
  <1>1. Cardinality(ps) \in Nat
    BY ChokingAssumption, FS_Subset, FS_CardinalityType DEF TypeOK
  <1> DEFINE n == IF Cardinality(ps) < Slots THEN Cardinality(ps) ELSE Slots
  <1>2. n \in Nat /\ n <= Slots
    BY <1>1, ChokingAssumption
  <1>3. s \in [1 .. n -> ps]
    BY DEF FirstOf
  <1> HIDE DEF n
  <1>4. s \in [1 .. n -> Addr]
    BY <1>3 DEF TypeOK
  <1>5. s \in Seq(Addr) /\ Len(s) = n
    BY <1>2, <1>4
  <1> QED
    BY <1>2, <1>5

LEMMA GivenFacts ==
    ASSUME TypeOK
    PROVE  /\ Given \in [Slot -> Addr \cup {NoAddr}]
           /\ \A s \in Slot : \/ s \in 1 .. Len(first) /\ Given[s] = first[s]
                              \/ Given[s] = unchoke[s]
  <1>1. DOMAIN first = 1 .. Len(first) /\ \A j \in 1 .. Len(first) : first[j] \in Addr
    BY DEF TypeOK
  <1> QED
    BY <1>1 DEF Given, TypeOK

-----------------------------------------------------------------------------
(* Each action.                                                            *)

LEMMA InitIInv == Init => IInv
  BY ChokingAssumption
     DEF Init, IInv, TypeOK, Known, SlotsTold, Searched, HasSlot, Slot, Active

\* A peer joins: Run is not in updateUnchoke then.
LEMMA JoinStep ==
    ASSUME IInv, NEW a \in Addr, Join(a)
    PROVE  IInv'
  <1>1. /\ UNCHANGED <<interest, unchoke, finish, peerRequest, pc, rest, ps, first, pos, kept>>
        /\ pc = "select" /\ peers' = [peers EXCEPT ![a] = "running"]
    BY DEF Join, updateVars, Waits
  <1>2. PICK w \in {"nothing", "inherits"} :
           told' = [told EXCEPT ![a] = w] /\ (HasSlot(a) => w = "inherits")
    BY DEF Join
  <1>3. TypeOK'
    BY <1>1, <1>2 DEF IInv, TypeOK
  <1>4. Known'
    BY <1>1 DEF IInv, TypeOK, Known
  <1>5. SlotsTold'
    <2>1. \A b \in Addr : HasSlot(b)' = HasSlot(b)
      BY <1>1 DEF HasSlot
    <2> QED
      BY <1>1, <1>2, <2>1 DEF IInv, TypeOK, SlotsTold, Active
  <1> QED
    BY <1>1, <1>3, <1>4, <1>5 DEF IInv, Searched

\* A peer stops, maybe in the middle of updateUnchoke.
LEMMA StopStep ==
    ASSUME IInv, NEW a \in Addr, Stop(a)
    PROVE  IInv'
  <1>1. /\ UNCHANGED <<interest, unchoke, finish, peerRequest, pc, rest, ps, first, pos, kept>>
        /\ peers' = [peers EXCEPT ![a] = "stop"]
        /\ told' = [told EXCEPT ![a] = "nothing"]
    BY DEF Stop, updateVars
  <1>2. TypeOK'
    BY <1>1 DEF IInv, TypeOK
  <1>3. Known'
    BY <1>1 DEF IInv, TypeOK, Known
  <1>4. \A b \in Addr : /\ Active(b)' => Active(b) /\ told'[b] = told[b]
                        /\ HasSlot(b)' = HasSlot(b)
    BY <1>1 DEF IInv, TypeOK, Active, HasSlot
  <1>5. SlotsTold'
    BY <1>4 DEF IInv, SlotsTold
  <1>6. Searched'
    <2>1. \A j \in 1 .. Len(first) : first[j] \in Addr
      BY DEF IInv, TypeOK
    <2>2. \A j \in 1 .. Len(first) : /\ Active(first[j])' => Active(first[j])
                                                    /\ told'[first[j]] = told[first[j]]
                                     /\ HasSlot(first[j])' = HasSlot(first[j])
      BY <1>1, <1>4, <2>1
    <2> QED
      BY <1>1, <2>2 DEF IInv, Searched
  <1> QED
    BY <1>1, <1>2, <1>3, <1>5, <1>6 DEF IInv

LEMMA InterestStep ==
    ASSUME IInv, NEW a \in Addr, BecomesInteresting(a)
    PROVE  IInv'
  <1>1. /\ UNCHANGED <<peers, unchoke, finish, peerRequest, told, pc, rest, ps, first, pos, kept>>
        /\ interest' = interest \cup {a} /\ peers[a] # "none"
    BY DEF BecomesInteresting, Active, updateVars
  <1> QED
    BY <1>1 DEF IInv, TypeOK, Known, SlotsTold, Searched, HasSlot, Active

LEMMA RequestStep ==
    ASSUME IInv,
           \/ \E r \in Request : FinishPiece(r)
           \/ \E a \in Addr, r \in Request : HandleReq(a, r) \/ HandleCancel(a, r)
    PROVE  IInv'
  <1>1. UNCHANGED <<peers, interest, unchoke, told, pc, rest, ps, first, pos, kept>>
    BY DEF FinishPiece, HandleReq, HandleCancel, updateVars
  <1>2. Known' /\ SlotsTold' /\ Searched' /\ pos' # 0
    BY <1>1 DEF IInv, Known, SlotsTold, Searched, HasSlot, Active
  <1>3. finish' \in SUBSET Request /\ peerRequest' \in [Request -> SUBSET Addr]
    BY DEF FinishPiece, HandleReq, HandleCancel, IInv, TypeOK
  <1>4. TypeOK'
    BY <1>1, <1>3 DEF IInv, TypeOK
  <1> QED
    BY <1>2, <1>4 DEF IInv

LEMMA BeginStep ==
    ASSUME IInv, Begin
    PROVE  IInv'
  BY DEF Begin, IInv, TypeOK, Known, SlotsTold, Searched, HasSlot, Active

LEMMA CollectStep ==
    ASSUME IInv, NEW a \in Addr, Collect(a)
    PROVE  IInv'
  <1>1. /\ UNCHANGED <<peers, unchoke, finish, peerRequest, told, pc, first, pos, kept>>
        /\ pc = "collect"
        /\ rest' = rest \ {a}
        /\ interest' \in SUBSET interest
        /\ ps' \in SUBSET Addr
    BY DEF Collect, IInv, TypeOK
  <1> QED
    BY <1>1 DEF IInv, TypeOK, Known, SlotsTold, Searched, HasSlot, Active

LEMMA SortStep ==
    ASSUME IInv, Sort
    PROVE  IInv'
  <1>1. /\ UNCHANGED <<peers, interest, unchoke, finish, peerRequest, told, rest>>
        /\ pc' = "search" /\ pos' = 1 /\ kept' = {} /\ ps' = {} /\ rest = {}
    BY DEF Sort
  <1>2. first' \in Seq(Addr) /\ Len(first') <= Slots
    BY FirstFacts DEF Sort, IInv
  <1>3. TypeOK' /\ pos' # 0
    BY <1>1, <1>2 DEF IInv, TypeOK
  <1>4. Known' /\ SlotsTold'
    BY <1>1 DEF IInv, Known, SlotsTold, HasSlot, Active
  <1>5. Searched'
    BY <1>1, <1>2 DEF Searched
  <1> QED
    BY <1>3, <1>4, <1>5 DEF IInv

\* Whom choke() or unchoke() tells something.
LEMMA TellFacts ==
    ASSUME TypeOK, NEW S, NEW w \in {"unchoke", "choke"}, Tell(S, w)
    PROVE  /\ told' \in [Addr -> {"nothing", "inherits", "unchoke", "choke"}]
           /\ \A a \in Addr : told'[a] = IF a \in S /\ Active(a) THEN w ELSE told[a]
  BY DEF Tell, TypeOK

LEMMA SearchStep ==
    ASSUME IInv, Search
    PROVE  IInv'
  <1>0. TypeOK
    BY DEF IInv
  <1>1. /\ UNCHANGED <<peers, interest, finish, peerRequest, pc, rest, ps, first>>
        /\ pc = "search" /\ pos' = pos + 1 /\ pos \in 1 .. Len(first)
    BY <1>0 DEF Search, TypeOK
  <1> DEFINE a == first[pos]
  <1>2. a \in Addr /\ \A j \in 1 .. Len(first) : first[j] \in Addr
    BY <1>0, <1>1 DEF TypeOK
  <1>3. Known' /\ \A b : Active(b)' = Active(b)
    BY <1>1 DEF IInv, Known, Active
  <1>4. CASE HasSlot(a)
    <2>1. kept' = kept \cup {a} /\ told' = told
      BY <1>4 DEF Search
    <2>2. PICK h \in Slot : unchoke' = Shift(h)
      BY <1>4 DEF Search
    <2>3. /\ unchoke' \in [Slot -> Addr \cup {NoAddr}]
          /\ \A s \in Slot : \E x \in Slot : unchoke'[s] = unchoke[x]
      BY <1>0, <2>2, ShiftFacts
    <2>4. \A b \in Addr : HasSlot(b)' => HasSlot(b)
      BY <2>3 DEF HasSlot
    <2>5. TypeOK' /\ pos' # 0
      BY <1>0, <1>1, <1>2, <2>1, <2>3 DEF TypeOK
    <2>6. SlotsTold'
      BY <1>3, <2>1, <2>4 DEF IInv, SlotsTold
    <2>7. Active(a) => told[a] # "nothing"
      BY <1>2, <1>4 DEF IInv, SlotsTold
    <2>8. Searched'
      <3> SUFFICES ASSUME NEW j \in 1 .. Len(first), j < pos + 1
                   PROVE  /\ Active(first[j]) => told[first[j]] # "nothing"
                          /\ first[j] \notin kept' =>
                                 /\ Active(first[j]) => told[first[j]] = "unchoke"
                                 /\ ~HasSlot(first[j])'
        BY <1>1, <1>3, <2>1 DEF Searched
      <3>1. CASE j = pos
        BY <2>1, <2>7, <3>1
      <3>2. CASE j < pos
        BY <1>1, <1>2, <2>1, <2>4, <3>2 DEF IInv, Searched
      <3> QED
        BY <1>0, <3>1, <3>2 DEF TypeOK
    <2> QED
      BY <1>3, <2>5, <2>6, <2>8 DEF IInv
  <1>5. CASE ~HasSlot(a)
    <2>1. Tell({a}, "unchoke") /\ UNCHANGED <<unchoke, kept>>
      BY <1>5 DEF Search
    <2>2. /\ told' \in [Addr -> {"nothing", "inherits", "unchoke", "choke"}]
          /\ \A b \in Addr : told'[b] = IF b \in {a} /\ Active(b) THEN "unchoke" ELSE told[b]
      BY <1>0, <2>1, TellFacts
    <2>3. \A b \in Addr : HasSlot(b)' = HasSlot(b)
      BY <2>1 DEF HasSlot
    <2>4. TypeOK' /\ pos' # 0
      BY <1>0, <1>1, <2>1, <2>2 DEF TypeOK
    <2>5. SlotsTold'
      BY <1>3, <2>2, <2>3 DEF IInv, SlotsTold
    <2>6. Searched'
      <3> SUFFICES ASSUME NEW j \in 1 .. Len(first), j < pos + 1
                   PROVE  /\ Active(first[j]) => told'[first[j]] # "nothing"
                          /\ first[j] \notin kept =>
                                 /\ Active(first[j]) => told'[first[j]] = "unchoke"
                                 /\ ~HasSlot(first[j])
        BY <1>1, <1>3, <2>1 DEF Searched, HasSlot
      <3>1. CASE j = pos
        BY <1>2, <1>5, <2>2, <3>1
      <3>2. CASE j < pos
        BY <1>1, <1>2, <2>2, <3>2 DEF IInv, Searched
      <3> QED
        BY <1>0, <3>1, <3>2 DEF TypeOK
    <2> QED
      BY <1>3, <2>4, <2>5, <2>6 DEF IInv
  <1> QED
    BY <1>4, <1>5

\* The choking hits running peers with a slot only.
LEMMA GiveFacts ==
    ASSUME IInv, Give
    PROVE  /\ told' \in [Addr -> {"nothing", "inherits", "unchoke", "choke"}]
           /\ \A a \in Addr : \/ told'[a] = told[a]
                              \/ Active(a) /\ HasSlot(a) /\ told'[a] = "choke"
           /\ \A j \in 1 .. Len(first) : j < pos
  <1>1. /\ told' \in [Addr -> {"nothing", "inherits", "unchoke", "choke"}]
        /\ \A a \in Addr :
               told'[a] = IF a \in Leaving(unchoke) /\ Active(a) THEN "choke" ELSE told[a]
    <2>1. Tell(Leaving(unchoke), "choke") /\ TypeOK
      BY DEF Give, IInv
    <2> QED
      BY <2>1, TellFacts
  <1>2. \A a \in Leaving(unchoke) : HasSlot(a)
    BY DEF Leaving, HasSlot
  <1>3. pos \in Nat \ {0} /\ pos \notin 1 .. Len(first) /\ Len(first) \in Nat
    BY DEF Give, IInv, TypeOK
  <1> QED
    BY <1>1, <1>2, <1>3

LEMMA GiveStep ==
    ASSUME IInv, Give
    PROVE  IInv'
  <1>0. TypeOK
    BY DEF IInv
  <1>1. /\ UNCHANGED <<peers, interest, finish, peerRequest>>
        /\ pc = "search" /\ pc' = "select" /\ unchoke' = Given
        /\ rest' = {} /\ ps' = {} /\ first' = <<>> /\ pos' = 1 /\ kept' = {}
    BY DEF Give, Return
  <1>2. /\ told' \in [Addr -> {"nothing", "inherits", "unchoke", "choke"}]
        /\ \A a \in Addr : \/ told'[a] = told[a]
                           \/ Active(a) /\ HasSlot(a) /\ told'[a] = "choke"
        /\ \A j \in 1 .. Len(first) : j < pos
    BY GiveFacts
  <1>3. /\ unchoke' \in [Slot -> Addr \cup {NoAddr}]
        /\ \A s \in Slot : \/ s \in 1 .. Len(first) /\ unchoke'[s] = first[s]
                           \/ unchoke'[s] = unchoke[s]
    BY <1>0, <1>1, GivenFacts
  <1>4. TypeOK' /\ pos' # 0
    <2>1. <<>> \in Seq(Addr) /\ Len(<<>>) <= Slots
      BY ChokingAssumption
    <2> QED
      BY <1>0, <1>1, <1>2, <1>3, <2>1 DEF TypeOK
  <1>5. Known'
    BY <1>1 DEF IInv, Known
  <1>6. SlotsTold'
    <2> SUFFICES ASSUME NEW a \in Addr, NEW s \in Slot, unchoke'[s] = a, Active(a)
                 PROVE  told'[a] # "nothing"
      BY <1>1 DEF SlotsTold, HasSlot, Active
    <2>1. told[a] # "nothing"
      <3>1. CASE s \in 1 .. Len(first) /\ a = first[s]
        BY <1>1, <1>2, <3>1 DEF IInv, Searched
      <3>2. CASE a = unchoke[s]
        BY <3>2 DEF IInv, SlotsTold, HasSlot
      <3> QED
        BY <1>3, <3>1, <3>2
    <2> QED
      BY <1>2, <2>1
  <1>7. Searched'
    BY <1>1 DEF Searched
  <1> QED
    BY <1>4, <1>5, <1>6, <1>7 DEF IInv

LEMMA NextIInv == IInv /\ [Next]_vars => IInv'
  <1> SUFFICES ASSUME IInv, [Next]_vars PROVE IInv'
    OBVIOUS
  <1>1. CASE \E a \in Addr : Join(a) \/ Stop(a)
    BY <1>1, JoinStep, StopStep
  <1>2. CASE \E a \in Addr : BecomesInteresting(a)
    BY <1>2, InterestStep
  <1>3. CASE \E a \in Addr : Collect(a)
    BY <1>3, CollectStep
  <1>4. CASE \/ \E r \in Request : FinishPiece(r)
             \/ \E a \in Addr, r \in Request : HandleReq(a, r) \/ HandleCancel(a, r)
    BY <1>4, RequestStep
  <1>5. CASE Begin
    BY <1>5, BeginStep
  <1>6. CASE Sort
    BY <1>6, SortStep
  <1>7. CASE Search
    BY <1>7, SearchStep
  <1>8. CASE Give
    BY <1>8, GiveStep
  <1>9. CASE UNCHANGED vars
    BY <1>9 DEF vars, updateVars, IInv, TypeOK, Known, SlotsTold, Searched, HasSlot, Active
  <1> QED
    BY <1>1, <1>2, <1>3, <1>4, <1>5, <1>6, <1>7, <1>8, <1>9 DEF Next

-----------------------------------------------------------------------------
(* Theorems.                                                               *)

\* The inductive invariant holds for any addresses, requests and slots.
THEOREM Invariance == Spec => []IInv
  BY InitIInv, NextIInv, PTL DEF Spec

\* Type correctness: ps[:n] always fits m.unchoke.
THEOREM TypeCorrect == Spec => []TypeOK
  <1>1. IInv => TypeOK
    BY DEF IInv
  <1> QED
    BY <1>1, Invariance, PTL

\* updateUnchoke never reaches its logger.Fatalln.
THEOREM NoFatal == Spec => []InterestingAreKnown
  <1>1. IInv => InterestingAreKnown
    BY DEF IInv, Known, InterestingAreKnown
  <1> QED
    BY <1>1, Invariance, PTL

\* One step lets in only requests of peers that were unchoked or have inherited
\* their slot.
ServeStep ==
    \A r \in Request : \A a \in peerRequest'[r] \ peerRequest[r] : told[a] # "nothing"

\* handleReq lets in only peers that were sent an unchoke, or that came back to
\* an address with a slot.
THEOREM Served == Spec => ServedWasUnchoked
  <1>1. IInv /\ [Next]_vars => [ServeStep]_vars
    <2> SUFFICES ASSUME IInv, [Next]_vars, NEW r \in Request,
                        NEW a \in peerRequest'[r] \ peerRequest[r]
                 PROVE  told[a] # "nothing"
      BY DEF ServeStep
    <2>0. peerRequest \in [Request -> SUBSET Addr]
      BY DEF IInv, TypeOK
    <2>1. ASSUME NEW b \in Addr, NEW q \in Request, HandleReq(b, q)
          PROVE  told[a] # "nothing"
      <3>1. a = b
        BY <2>0, <2>1 DEF HandleReq
      <3> QED
        BY <2>1, <3>1 DEF HandleReq, IInv, SlotsTold
    <2>2. ASSUME NEW b \in Addr, NEW q \in Request, HandleCancel(b, q)
          PROVE  FALSE
      BY <2>0, <2>2 DEF HandleCancel
    <2>3. CASE UNCHANGED peerRequest
      BY <2>3
    <2> QED
      BY <2>1, <2>2, <2>3
         DEF Next, vars, Join, Stop, BecomesInteresting, Collect, FinishPiece, Begin, Sort,
             Search, Give
  <1>2. ServedWasUnchoked <=> [][ServeStep]_vars
    BY PTL DEF ServedWasUnchoked, ServeStep
  <1> QED
    BY <1>1, <1>2, Invariance, PTL DEF Spec

\* One step chokes only who was unchoked, or has inherited a slot.
ChokeStep == \A a \in Addr : told'[a] = "choke" => told[a] # "nothing"

\* updateUnchoke sends a choke only to peers that were sent an unchoke, or that
\* came back to an address with a slot.
THEOREM ChokeAfterUnchoke == Spec => ChokeEndsUnchoke
  <1>1. IInv /\ [Next]_vars => [ChokeStep]_vars
    <2> SUFFICES ASSUME IInv, [Next]_vars, NEW a \in Addr, told'[a] = "choke"
                 PROVE  told[a] # "nothing"
      BY DEF ChokeStep
    <2>1. CASE Give
      BY <2>1, GiveFacts DEF IInv, SlotsTold
    <2>2. CASE Search
      <3>1. told'[a] = told[a] \/ told'[a] = "unchoke"
        <4>1. told' = told \/ Tell({first[pos]}, "unchoke")
          BY <2>2 DEF Search
        <4> QED
          BY <4>1, TellFacts DEF IInv
      <3> QED
        BY <3>1
    <2>3. ASSUME NEW b \in Addr, Join(b) \/ Stop(b)
          PROVE  told[a] # "nothing"
      <3>1. told'[a] \in {told[a], "inherits", "nothing"}
        BY <2>3 DEF Join, Stop, IInv, TypeOK
      <3> QED
        BY <3>1
    <2>4. CASE UNCHANGED told
      BY <2>4
    <2> QED
      BY <2>1, <2>2, <2>3, <2>4
         DEF Next, vars, BecomesInteresting, Collect, FinishPiece, HandleReq, HandleCancel,
             Begin, Sort
  <1>2. ChokeEndsUnchoke <=> [][ChokeStep]_vars
    BY PTL DEF ChokeEndsUnchoke, ChokeStep
  <1> QED
    BY <1>1, <1>2, Invariance, PTL DEF Spec

\* One step leaves newcomers unchoked.
NewcomerStep ==
    \A s \in DOMAIN first :
        pc = "search" /\ pc' = "select" /\ first[s] \notin kept /\ Active(first[s])
            => told'[first[s]] = "unchoke"

\* However the slots were shifted, the choking at the end of updateUnchoke
\* does not reach an address that the same call has unchoked.
THEOREM Newcomers == Spec => NewcomersAreUnchoked
  <1>1. IInv /\ [Next]_vars => [NewcomerStep]_vars
    <2> SUFFICES ASSUME IInv, [Next]_vars, NEW s \in DOMAIN first,
                        pc = "search", pc' = "select", first[s] \notin kept, Active(first[s])
                 PROVE  told'[first[s]] = "unchoke"
      BY DEF NewcomerStep
    <2>1. Give
      BY DEF Next, vars, Join, Stop, BecomesInteresting, Collect, FinishPiece, HandleReq,
             HandleCancel, Begin, Sort, Search, Waits
    <2>2. s \in 1 .. Len(first) /\ first[s] \in Addr
      BY DEF IInv, TypeOK
    <2>3. told[first[s]] = "unchoke" /\ ~HasSlot(first[s])
      BY <2>1, <2>2, GiveFacts DEF IInv, Searched
    <2> QED
      BY <2>1, <2>2, <2>3, GiveFacts
  <1>2. NewcomersAreUnchoked <=> [][NewcomerStep]_vars
    BY PTL DEF NewcomersAreUnchoked, NewcomerStep
  <1> QED
    BY <1>1, <1>2, Invariance, PTL DEF Spec
=============================================================================
