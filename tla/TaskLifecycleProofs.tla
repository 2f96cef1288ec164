------------------------ MODULE TaskLifecycleProofs ------------------------
(***************************************************************************)
(* Proofs about TaskLifecycle for any number of goroutines that start,     *)
(* stop, save and add.                                                     *)
(***************************************************************************)
EXTENDS TaskLifecycle, TLAPS

\* m.close() resets the state only after it has closed the channel, and only a
\* closed channel makes a Run block.
ClosedFirst == \A g \in Goroutine : pc[g] \in {"setInit", "deaf"} => closed

Inv == TypeOK /\ RunningMeansRun /\ EndedMeansClosed /\ ClosedFirst

LEMMA InitInv == Init => Inv
  BY DEF Init, Inv, TypeOK, RunningMeansRun, EndedMeansClosed, ClosedFirst,
         Location, Faults, Goroutine

\* A goroutine moves between two places that no invariant speaks of, and the
\* rest stays as it is or the task's state changes.
Aside == {"idle", "start", "run", "stop", "status", "ask", "close", "send", "await",
          "handshake", "offerNew", "offer", "joined", "done"}

LEMMA MoveAside ==
    ASSUME Inv, NEW g \in Goroutine, NEW l \in Aside, pc[g] \in Aside,
           Goto(g, l), task' \in {"init", "running"}, UNCHANGED <<manager, closed, fault>>
    PROVE  Inv'
<1> USE DEF Inv, TypeOK, Location, Aside, Goto
<1>1. pc' \in [Goroutine -> Location] /\ \A h \in Goroutine \ {g} : pc'[h] = pc[h]
  OBVIOUS
<1>2. pc'[g] \in Aside
  OBVIOUS
<1>3. RunningMeansRun'
  BY <1>1, <1>2 DEF RunningMeansRun
<1>4. EndedMeansClosed'
  BY <1>1, <1>2 DEF EndedMeansClosed, Goroutine
<1>5. ClosedFirst'
  BY <1>1, <1>2 DEF ClosedFirst
<1> QED
  BY <1>1, <1>3, <1>4, <1>5

\* The process dies and nothing else changes.
LEMMA Dies ==
    ASSUME Inv, fault' \in Faults, UNCHANGED <<task, manager, closed, pc>>
    PROVE  Inv'
  BY DEF Inv, TypeOK, RunningMeansRun, EndedMeansClosed, ClosedFirst

\* The steps of start and Run.
LEMMA StarterInv ==
    ASSUME Inv, NEW r \in Starter, StarterNext(r) \/ RunFails(r) \/ RunWaitsMemc(r)
    PROVE  Inv'
<1>0. r \in Goroutine
  BY DEF Goroutine
<1>1. CASE StartCheck(r)
  BY <1>0, <1>1, MoveAside DEF StartCheck, Aside, Inv, TypeOK
<1>2. CASE StartSet(r)
  BY <1>0, <1>2, MoveAside DEF StartSet, Aside
<1>3. CASE RunBegins(r)
  BY <1>0, <1>3 DEF RunBegins, Goto, Inv, TypeOK, RunningMeansRun, EndedMeansClosed,
                    ClosedFirst, Location, Goroutine
<1>4. CASE RunBlocks(r) \/ RunWaitsMemc(r)
  BY <1>0, <1>4 DEF RunBlocks, RunWaitsMemc, InLoop, Goto, Inv, TypeOK, RunningMeansRun,
                    EndedMeansClosed, ClosedFirst, Location, Goroutine
<1>5. CASE RunFails(r)
  BY <1>0, <1>5 DEF RunFails, InLoop, Goto, Inv, TypeOK, RunningMeansRun,
                    EndedMeansClosed, ClosedFirst, Location, Goroutine
<1> QED
  BY <1>1, <1>2, <1>3, <1>4, <1>5 DEF StarterNext

\* Run meets another goroutine.
LEMMA MeetInv ==
    ASSUME Inv, NEW r \in Starter, NEW g \in Goroutine, Meet(r, g)
    PROVE  Inv'
<1>1. CASE RunTakesPeer(r, g)
  BY <1>1, MoveAside DEF RunTakesPeer, Offers, Aside, Inv, TypeOK
<1>2. CASE RunSendsStatus(r, g)
  BY <1>2, MoveAside DEF RunSendsStatus, Aside, Inv, TypeOK
<1>3. CASE RunClosed(r, g)
  <2>1. r \in Goroutine /\ r # g /\ pc[r] = "loop" /\ pc[g] = "send"
    BY <1>3 DEF RunClosed, InLoop, Goroutine
  <2>2. /\ pc' \in [Goroutine -> Location]
        /\ pc'[g] = "closeChan" /\ pc'[r] = "ended"
        /\ \A h \in Goroutine \ {r, g} : pc'[h] = pc[h]
    BY <1>3, <2>1 DEF RunClosed, Inv, TypeOK, Location
  <2>3. UNCHANGED <<task, manager, closed, fault>>
    BY <1>3 DEF RunClosed
  <2> QED
    BY <2>2, <2>3 DEF Inv, TypeOK, RunningMeansRun, EndedMeansClosed, ClosedFirst
<1> QED
  BY <1>1, <1>2, <1>3 DEF Meet

\* The two steps of m.close().
LEMMA CloseInv ==
    ASSUME Inv, NEW g \in Goroutine, ClosePeerPanics(g) \/ CloseChan(g) \/ CloseSetInit(g)
    PROVE  Inv'
<1>0. CASE ClosePeerPanics(g)
  BY <1>0, Dies DEF ClosePeerPanics, Faults
<1>1. CASE CloseChan(g) /\ closed
  BY <1>1, Dies DEF CloseChan, Faults
<1>2. CASE CloseChan(g) /\ ~closed
  BY <1>2 DEF CloseChan, Goto, Inv, TypeOK, RunningMeansRun, EndedMeansClosed,
              ClosedFirst, Location
<1>3. CASE CloseSetInit(g)
  BY <1>3 DEF CloseSetInit, Goto, Inv, TypeOK, RunningMeansRun, EndedMeansClosed,
              ClosedFirst, Location
<1> QED
  BY <1>0, <1>1, <1>2, <1>3

\* stop, GetStatus and Close up to the handshake with Run.
LEMMA CloserInv ==
    ASSUME Inv, NEW s \in Goroutine,
           StopCheck(s) \/ StopSet(s) \/ GetStatus(s) \/ DumpFails(s)
           \/ CloseCheck(s) \/ CloseSendPanics(s)
    PROVE  Inv'
<1>1. CASE StopCheck(s)
  BY <1>1, MoveAside DEF StopCheck, Aside, Inv, TypeOK
<1>2. CASE StopSet(s)
  BY <1>2, MoveAside DEF StopSet, Aside
<1>3. CASE GetStatus(s) /\ manager = "running"
  BY <1>3, MoveAside DEF GetStatus, Aside, Inv, TypeOK
<1>4. CASE GetStatus(s) /\ manager # "running"
  BY <1>4, Dies DEF GetStatus, Faults
<1>5. CASE DumpFails(s)
  BY <1>5, MoveAside DEF DumpFails, Aside, Inv, TypeOK
<1>6. CASE CloseCheck(s)
  BY <1>6, MoveAside DEF CloseCheck, Aside, Inv, TypeOK
<1>7. CASE CloseSendPanics(s)
  BY <1>7, Dies DEF CloseSendPanics, Faults
<1> QED
  BY <1>1, <1>2, <1>3, <1>4, <1>5, <1>6, <1>7

\* AddPeer and AddAddrPeer.
LEMMA AdderInv ==
    ASSUME Inv, NEW a \in Adder,
           \/ AddCheck(a) \/ Handshake(a) \/ AddSeesClosed(a)
           \/ \E s \in Closer : AddTakesErrc(a, s)
    PROVE  Inv'
<1>0. a \in Goroutine
  BY DEF Goroutine
<1>1. CASE AddCheck(a)
  BY <1>0, <1>1, MoveAside DEF AddCheck, Aside, Inv, TypeOK
<1>3. CASE Handshake(a)
  BY <1>0, <1>3, MoveAside DEF Handshake, Aside, Inv, TypeOK
<1>4. CASE AddSeesClosed(a)
  BY <1>0, <1>4, MoveAside DEF AddSeesClosed, Offers, Aside, Inv, TypeOK
<1>2. ASSUME NEW s \in Closer, AddTakesErrc(a, s) PROVE Inv'
  <2>1. s \in Goroutine /\ s # a /\ Offers(a) /\ pc[s] = "send"
    BY <1>2 DEF AddTakesErrc, Offers, Goroutine
  <2>2. /\ pc' \in [Goroutine -> Location]
        /\ pc'[a] = "done" /\ pc'[s] = "await"
        /\ \A h \in Goroutine \ {a, s} : pc'[h] = pc[h]
    BY <1>0, <1>2, <2>1 DEF AddTakesErrc, Inv, TypeOK, Location
  <2>3. UNCHANGED <<task, manager, closed, fault>>
    BY <1>2 DEF AddTakesErrc
  <2>4. RunningMeansRun'
    BY <2>1, <2>2, <2>3 DEF Inv, RunningMeansRun, Offers
  <2>5. EndedMeansClosed'
    BY <2>1, <2>2, <2>3 DEF Inv, EndedMeansClosed, Goroutine, Offers
  <2>6. ClosedFirst'
    BY <2>1, <2>2, <2>3 DEF Inv, ClosedFirst
  <2> QED
    BY <2>2, <2>3, <2>4, <2>5, <2>6 DEF Inv, TypeOK
<1> QED
  BY <1>1, <1>2, <1>3, <1>4

LEMMA NextInv == Inv /\ [Next]_vars => Inv'
<1> SUFFICES ASSUME Inv, [Next]_vars PROVE Inv'
  OBVIOUS
<1>1. CASE UNCHANGED vars
  BY <1>1 DEF vars, Inv, TypeOK, RunningMeansRun, EndedMeansClosed, ClosedFirst
<1>2. Starter \cup Closer \subseteq Goroutine
  BY DEF Goroutine
<1>3. CASE Next
  BY <1>2, <1>3, StarterInv, MeetInv, CloseInv, CloserInv, AdderInv
     DEF Next, QuietNext
<1> QED
  BY <1>1, <1>3

\* Every behaviour keeps the inductive invariant.
THEOREM Invariance == Spec => []Inv
  BY InitInv, NextInv, PTL DEF Spec

\* Type correctness of the task's and the manager's states.
THEOREM TypeCorrect == Spec => []TypeOK
<1>1. Inv => TypeOK
  BY DEF Inv
<1> QED
  BY <1>1, Invariance, PTL

\* m.state says running only while there is a Run, or a close() that ends it.
THEOREM RunningIsTrue == Spec => []RunningMeansRun
<1>1. Inv => RunningMeansRun
  BY DEF Inv
<1> QED
  BY <1>1, Invariance, PTL

\* When a Run has ended, m.closing is closed or about to be.
THEOREM EndIsAnnounced == Spec => []EndedMeansClosed
<1>1. Inv => EndedMeansClosed
  BY DEF Inv
<1> QED
  BY <1>1, Invariance, PTL

-----------------------------------------------------------------------------
(* Nobody waits for a Run that is not there.                               *)

\* Somebody will receive from m.closing or close it: Run is in its loop, or
\* waits there for ever, or m.close() is about to close the channel.
RunOrClosed ==
    closed \/ \E g \in Goroutine : pc[g] \in {"loop", "stuck", "closeChan"}

\* Where a goroutine waits for Run, or will once it has shaken hands.
Waiting == {"ask", "send", "await", "handshake", "offerNew", "offer"}

\* GetStatus, Close and the adders look at m.state and wait for Run afterwards,
\* by which time it may have ended.  Whoever waits all the same has a Run or a
\* close() that is under way to wait for, or m.closing is closed: that releases
\* an adder and makes a Close that is sending panic.  (A GetStatus that asks
\* after the last Run has ended hears nothing of it.)
WaitersHaveRun ==
    (\E g \in Goroutine : pc[g] \in Waiting) => RunOrClosed

\* m.state says running only if there is a Run or m.closing is closed.
LEMMA RunningServes == Inv /\ manager = "running" => RunOrClosed
  BY DEF Inv, RunningMeansRun, ClosedFirst, RunOrClosed

\* A goroutine moves between two places of Aside: Run and close() are where
\* they were.
LEMMA AsideServes ==
    ASSUME Inv, RunOrClosed, NEW g \in Goroutine, NEW l \in Aside, pc[g] \in Aside,
           Goto(g, l), UNCHANGED closed
    PROVE  RunOrClosed'
<1>1. \A h \in Goroutine \ {g} : pc'[h] = pc[h]
  BY DEF Goto, Inv, TypeOK
<1> QED
  BY <1>1 DEF RunOrClosed, Aside

\* Once there is a Run, there is one or m.closing is closed: a Run that ends
\* leaves the closing to the goroutine it answered or does it itself.
LEMMA RunOrClosedStays ==
    ASSUME Inv, RunOrClosed, [Next]_vars
    PROVE  RunOrClosed'
<1>0. Starter \cup Closer \subseteq Goroutine /\ Adder \subseteq Goroutine
  BY DEF Goroutine
<1>1. CASE pc' = pc /\ closed' = closed
  BY <1>1 DEF RunOrClosed
<1>2. CASE closed'
  BY <1>2 DEF RunOrClosed
<1>3. ASSUME NEW r \in Starter, StarterNext(r) \/ RunFails(r) \/ RunWaitsMemc(r)
      PROVE  RunOrClosed'
  <2>1. CASE StartCheck(r)
    BY <1>0, <2>1, AsideServes DEF StartCheck, Aside
  <2>2. CASE StartSet(r)
    BY <1>0, <2>2, AsideServes DEF StartSet, Aside
  <2>3. CASE RunBegins(r) \/ RunFails(r) \/ RunWaitsMemc(r)
    <3>1. pc'[r] \in {"loop", "stuck", "closeChan"}
      BY <1>0, <2>3 DEF RunBegins, RunFails, RunWaitsMemc, Goto, Inv, TypeOK
    <3> QED
      BY <1>0, <3>1 DEF RunOrClosed
  <2>4. CASE RunBlocks(r)
    BY <1>2, <2>4 DEF RunBlocks
  <2> QED
    BY <1>3, <2>1, <2>2, <2>3, <2>4 DEF StarterNext
<1>4. ASSUME NEW r \in Starter, NEW g \in Goroutine, Meet(r, g)
      PROVE  RunOrClosed'
  <2>1. CASE RunTakesPeer(r, g) \/ RunSendsStatus(r, g)
    BY <2>1, AsideServes DEF RunTakesPeer, RunSendsStatus, Offers, Aside
  <2>2. CASE RunClosed(r, g)
    <3>1. pc'[g] = "closeChan"
      BY <2>2 DEF RunClosed, Inv, TypeOK
    <3> QED
      BY <3>1 DEF RunOrClosed
  <2> QED
    BY <1>4, <2>1, <2>2 DEF Meet
<1>5. ASSUME NEW g \in Goroutine, ClosePeerPanics(g) \/ CloseChan(g) \/ CloseSetInit(g)
      PROVE  RunOrClosed'
  <2>0. CASE ClosePeerPanics(g)
    BY <1>1, <2>0 DEF ClosePeerPanics
  <2>1. CASE CloseChan(g)
    BY <1>1, <1>2, <2>1 DEF CloseChan
  <2>2. CASE CloseSetInit(g)
    <3>1. closed'
      BY <2>2 DEF CloseSetInit, Inv, ClosedFirst
    <3> QED
      BY <1>2, <3>1
  <2> QED
    BY <1>5, <2>0, <2>1, <2>2
<1>6. ASSUME NEW s \in Goroutine,
             StopCheck(s) \/ StopSet(s) \/ GetStatus(s) \/ DumpFails(s)
             \/ CloseCheck(s) \/ CloseSendPanics(s)
      PROVE  RunOrClosed'
  <2>1. CASE StopCheck(s)
    BY <2>1, AsideServes DEF StopCheck, Aside
  <2>2. CASE StopSet(s)
    BY <2>2, AsideServes DEF StopSet, Aside
  <2>3. CASE GetStatus(s)
    BY <1>1, <2>3, AsideServes DEF GetStatus, Aside
  <2>4. CASE DumpFails(s)
    BY <2>4, AsideServes DEF DumpFails, Aside
  <2>5. CASE CloseCheck(s)
    BY <2>5, AsideServes DEF CloseCheck, Aside
  <2>6. CASE CloseSendPanics(s)
    BY <1>1, <2>6 DEF CloseSendPanics
  <2> QED
    BY <1>6, <2>1, <2>2, <2>3, <2>4, <2>5, <2>6
<1>7. ASSUME NEW a \in Adder, AddCheck(a) \/ Handshake(a) \/ AddSeesClosed(a)
      PROVE  RunOrClosed'
  BY <1>0, <1>7, AsideServes DEF AddCheck, Handshake, AddSeesClosed, Offers, Aside
<1>8. ASSUME NEW a \in Adder, NEW s \in Closer, AddTakesErrc(a, s)
      PROVE  RunOrClosed'
  <2>1. /\ a \in Goroutine /\ s \in Goroutine /\ closed' = closed
        /\ Offers(a) /\ pc[s] = "send"
        /\ \A h \in Goroutine \ {a, s} : pc'[h] = pc[h]
    BY <1>0, <1>8 DEF AddTakesErrc, Inv, TypeOK
  <2> QED
    BY <2>1 DEF RunOrClosed, Offers
<1> QED
  BY <1>0, <1>1, <1>3, <1>4, <1>5, <1>6, <1>7, <1>8 DEF Next, QuietNext, vars

\* Only a goroutine that finds the manager running begins to wait.
LEMMA WaitBegins ==
    ASSUME Inv, [Next]_vars, NEW g \in Goroutine,
           pc'[g] \in Waiting
    PROVE  manager = "running" \/ \E h \in Goroutine : pc[h] \in Waiting
<1> SUFFICES ASSUME \A h \in Goroutine : pc[h] \notin Waiting, manager # "running"
             PROVE  FALSE
  OBVIOUS
<1>0. Starter \cup Closer \subseteq Goroutine /\ Adder \subseteq Goroutine
  BY DEF Goroutine
<1>1. pc' # pc
  BY Zenon
<1>2. ASSUME NEW r \in Starter, StarterNext(r) \/ RunFails(r) \/ RunWaitsMemc(r)
      PROVE  FALSE
  BY <1>0, <1>2 DEF StarterNext, StartCheck, StartSet, RunBegins, RunBlocks, RunFails,
                    RunWaitsMemc, Goto, Inv, TypeOK, Waiting
<1>3. ASSUME NEW r \in Starter, NEW h \in Goroutine, Meet(r, h)
      PROVE  FALSE
  BY <1>3 DEF Meet, RunTakesPeer, RunSendsStatus, RunClosed, Offers, Waiting
<1>4. ASSUME NEW h \in Goroutine, ClosePeerPanics(h) \/ CloseChan(h) \/ CloseSetInit(h)
      PROVE  FALSE
  BY <1>1, <1>4 DEF Waiting, ClosePeerPanics, CloseChan, CloseSetInit, Goto, Inv, TypeOK
<1>5. ASSUME NEW s \in Goroutine,
             StopCheck(s) \/ StopSet(s) \/ GetStatus(s) \/ DumpFails(s)
             \/ CloseCheck(s) \/ CloseSendPanics(s)
      PROVE  FALSE
  BY <1>1, <1>5 DEF StopCheck, StopSet, GetStatus, DumpFails, CloseCheck, CloseSendPanics,
                    Goto, Inv, TypeOK, Waiting
<1>6. ASSUME NEW a \in Adder, AddCheck(a) \/ Handshake(a) \/ AddSeesClosed(a)
      PROVE  FALSE
  BY <1>0, <1>6 DEF AddCheck, Handshake, AddSeesClosed, Offers, Goto, Inv, TypeOK, Waiting
<1>7. ASSUME NEW a \in Adder, NEW s \in Closer, AddTakesErrc(a, s)
      PROVE  FALSE
  BY <1>0, <1>7 DEF AddTakesErrc, Waiting
<1> QED
  BY <1>0, <1>1, <1>2, <1>3, <1>4, <1>5, <1>6, <1>7 DEF Next, QuietNext, vars

\* No adder, GetStatus or Close waits for a Run that has ended without closing
\* m.closing: the safety half of AddersReleased and StopHeard.
THEOREM NobodyWaitsInVain == Spec => []WaitersHaveRun
<1>1. Init => WaitersHaveRun
  BY DEF Init, WaitersHaveRun, Waiting
<1>2. Inv /\ WaitersHaveRun /\ [Next]_vars => WaitersHaveRun'
  <2> SUFFICES ASSUME Inv, WaitersHaveRun, [Next]_vars, NEW g \in Goroutine,
                      pc'[g] \in Waiting
               PROVE  RunOrClosed'
    BY DEF WaitersHaveRun
  <2>1. RunOrClosed
    BY WaitBegins, RunningServes DEF WaitersHaveRun
  <2> QED
    BY <2>1, RunOrClosedStays
<1> QED
  BY <1>1, <1>2, Invariance, PTL DEF Spec
=============================================================================
