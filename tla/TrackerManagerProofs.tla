------------------------ MODULE TrackerManagerProofs ------------------------
(***************************************************************************)
(* Proofs about TrackerManager for any list of trackers.                   *)
(***************************************************************************)
EXTENDS TrackerManager, TLAPS

\* Where each goroutine can be.
Places ==
    /\ pc["start"] \in {"try", "setNow", "add", "schedule", "done"}
    /\ pc["stop"] \notin {"add", "schedule"}

\* A tracker that is current, or is about to be, has answered a start.
NowStarted ==
    /\ now # 0 => now \in started
    /\ \A g \in Goroutine : pc[g] = "setNow" => at[g] \in started

\* Whoever has got past the first start, and whoever it scheduled, finds a
\* current tracker.
NowKnown ==
    /\ \A g \in Goroutine : pc[g] \in {"first", "again", "second", "add", "schedule"}
                                => now # 0
    /\ timers # 0 \/ pc["timer"] # "idle" => now # 0

\* Until the start has been announced there are no timers.
TimersFollowStart ==
    /\ OneTimer
    /\ pc["start"] # "done" => timers = 0 /\ pc["timer"] = "idle"

Inv == TypeOK /\ Places /\ NowStarted /\ NowKnown /\ TimersFollowStart /\ WaitTimeKnown

USE DEF Goroutine

-----------------------------------------------------------------------------

LEMMA IndexPositive == TypeOK => 0 \notin Index
<1> SUFFICES ASSUME TypeOK PROVE 0 \notin Index
  OBVIOUS
<1>1. DOMAIN trackers = 1 .. Len(trackers)
  BY ListsAssumption DEF TypeOK
<1> QED
  BY <1>1 DEF Index

LEMMA InitInv == Init => Inv
  BY DEF Init, Inv, TypeOK, Places, NowStarted, NowKnown, TimersFollowStart, OneTimer,
         WaitTimeKnown, Location, Index

\* The steps of Manager.Start.
LEMMA StartInv ==
    ASSUME Inv, NEW g \in Goroutine,
           TryAnswers(g) \/ TryFails(g) \/ TryNil(g) \/ NoTrackerLeft(g) \/ SetNow(g)
    PROVE  Inv'
<1> USE DEF Inv, TypeOK, Places, NowStarted, NowKnown, TimersFollowStart, OneTimer,
            WaitTimeKnown, Location, Alive, Goto, Index
<1>1. CASE TryAnswers(g)
  BY <1>1 DEF TryAnswers, Answers
<1>2. CASE TryFails(g)
  BY <1>2 DEF TryFails, Fails
<1>3. CASE TryNil(g)
  BY <1>3 DEF TryNil
<1>4. CASE NoTrackerLeft(g)
  BY <1>4 DEF NoTrackerLeft, AfterError
<1>5. CASE SetNow(g)
  <2>1. at[g] \in Index /\ at[g] # 0
    BY <1>5, IndexPositive DEF SetNow
  <2> QED
    BY <1>5, <2>1 DEF SetNow
<1> QED
  BY <1>1, <1>2, <1>3, <1>4, <1>5

\* The steps of Manager.announce.
LEMMA AnnounceInv ==
    ASSUME Inv, NEW g \in Goroutine,
           \/ AnnounceCurrent(g) \/ AnnounceAgain(g) \/ AnnounceAnswered(g)
           \/ FirstFails(g) \/ SecondFails(g)
    PROVE  Inv'
<1> USE DEF Inv, TypeOK, Places, NowStarted, NowKnown, TimersFollowStart, OneTimer,
            WaitTimeKnown, Location, Alive, Goto, Index
<1>1. CASE AnnounceCurrent(g)
  <2>1. CASE now = 0
    BY <1>1, <2>1 DEF AnnounceCurrent, AfterError
  <2>2. CASE now # 0
    BY <1>1, <2>2 DEF AnnounceCurrent
  <2> QED
    BY <2>1, <2>2
<1>2. CASE AnnounceAgain(g)
  BY <1>2 DEF AnnounceAgain
<1>3. CASE AnnounceAnswered(g)
  BY <1>3 DEF AnnounceAnswered, Answers, AfterPeers, AfterError
<1>4. CASE FirstFails(g)
  BY <1>4 DEF FirstFails, Fails
<1>5. CASE SecondFails(g)
  BY <1>5 DEF SecondFails, Fails
<1> QED
  BY <1>1, <1>2, <1>3, <1>4, <1>5

\* The steps of the task.
LEMMA TaskInv ==
    ASSUME Inv,
           \/ \E g \in Goroutine : PeersAdded(g) \/ Schedule(g) \/ Status(g)
           \/ \E i \in Index : Elapse(i)
           \/ RunBegins \/ RunEnds \/ TimerFires \/ StopBegins \/ StopEnds
    PROVE  Inv'
<1> USE DEF Inv, TypeOK, Places, NowStarted, NowKnown, TimersFollowStart, OneTimer,
            WaitTimeKnown, Location, Alive, Goto, Index
<1>1. ASSUME NEW g \in Goroutine, PeersAdded(g)
      PROVE  Inv'
  BY <1>1 DEF PeersAdded
<1>2. ASSUME NEW g \in Goroutine, Schedule(g)
      PROVE  Inv'
  BY <1>2 DEF Schedule, GetWaitTime
<1>3. ASSUME NEW g \in Goroutine, Status(g)
      PROVE  Inv'
  BY <1>3 DEF Status
<1>4. ASSUME NEW i \in Index, Elapse(i)
      PROVE  Inv'
  BY <1>4 DEF Elapse
<1>5. CASE RunBegins \/ RunEnds
  BY <1>5 DEF RunBegins, RunEnds
<1>6. CASE TimerFires
  BY <1>6 DEF TimerFires
<1>7. CASE StopBegins
  BY <1>7 DEF StopBegins
<1>8. CASE StopEnds
  BY <1>8 DEF StopEnds
<1> QED
  BY <1>1, <1>2, <1>3, <1>4, <1>5, <1>6, <1>7, <1>8

\* Inv is inductive.
LEMMA NextInv ==
    ASSUME Inv, [Next]_vars
    PROVE  Inv'
<1>1. CASE Next
  BY <1>1, StartInv, AnnounceInv, TaskInv DEF Next, Step
<1>2. CASE UNCHANGED vars
  BY <1>2 DEF vars, Inv, TypeOK, Places, NowStarted, NowKnown, TimersFollowStart, OneTimer,
              WaitTimeKnown, Index
<1> QED
  BY <1>1, <1>2

\* The inductive invariant holds in every reachable state.
THEOREM Invariance == Spec => []Inv
  BY InitInv, NextInv, PTL DEF Spec

\* Every variable keeps its type.
THEOREM TypeCorrect == Spec => []TypeOK
<1>1. Inv => TypeOK
  BY DEF Inv
<1> QED
  BY <1>1, Invariance, PTL

\* No tracker, of however many, hears that a task goes on or stops before it
\* has answered the start.
THEOREM StartToldFirst == Spec => []ToldInOrder
<1>1. Inv => ToldInOrder
  BY DEF Inv, NowStarted, NowKnown, ToldInOrder
<1> QED
  BY <1>1, Invariance, PTL

\* GetWaitTime always finds a tracker.
THEOREM WaitTimeFound == Spec => []WaitTimeKnown
<1>1. Inv => WaitTimeKnown
  BY DEF Inv
<1> QED
  BY <1>1, Invariance, PTL

\* The chain of announce timers never forks.
THEOREM TimersDoNotFork == Spec => []OneTimer
<1>1. Inv => OneTimer
  BY DEF Inv, TimersFollowStart
<1> QED
  BY <1>1, Invariance, PTL

-----------------------------------------------------------------------------
(* nowLock.                                                                *)

\* nowLock is held for reading during an exchange with a tracker and at no
\* other time.
LockedDuringExchange == readers = {g \in Goroutine : pc[g] \in {"first", "second"}}

\* A goroutine keeps its place, or moves to one where it has the lock exactly
\* if it is among the readers afterwards.
LEMMA ReaderMoves ==
    ASSUME TypeOK, LockedDuringExchange, NEW g \in Goroutine, NEW l, Goto(g, l),
           \/ l \notin {"first", "second"} /\ readers' = readers \ {g}
           \/ l \in {"first", "second"} /\ readers' = readers \cup {g}
           \/ l \notin {"first", "second"} /\ pc[g] \notin {"first", "second"}
              /\ readers' = readers
    PROVE  LockedDuringExchange'
  BY DEF LockedDuringExchange, TypeOK, Goto

\* Every step takes and releases the lock as the exchange begins and ends.
LEMMA LockedNext ==
    ASSUME Inv, LockedDuringExchange, [Next]_vars
    PROVE  LockedDuringExchange'
<1>0. TypeOK
  BY DEF Inv
<1>1. CASE UNCHANGED <<pc, readers>>
  BY <1>1 DEF LockedDuringExchange
<1>2. ASSUME NEW g \in Goroutine,
             TryAnswers(g) \/ TryFails(g) \/ TryNil(g) \/ NoTrackerLeft(g) \/ SetNow(g)
      PROVE  LockedDuringExchange'
  <2>1. CASE TryAnswers(g)
    BY <1>0, <2>1, ReaderMoves DEF TryAnswers, Alive
  <2>2. CASE TryFails(g) \/ TryNil(g)
    BY <1>1, <2>2 DEF TryFails, TryNil
  <2>3. CASE NoTrackerLeft(g)
    BY <1>0, <2>3, ReaderMoves DEF NoTrackerLeft, Alive, AfterError
  <2>4. CASE SetNow(g)
    BY <1>0, <2>4, ReaderMoves DEF SetNow, Alive
  <2> QED
    BY <1>2, <2>1, <2>2, <2>3, <2>4
<1>3. ASSUME NEW g \in Goroutine,
             \/ AnnounceCurrent(g) \/ AnnounceAgain(g) \/ AnnounceAnswered(g)
             \/ FirstFails(g) \/ SecondFails(g)
      PROVE  LockedDuringExchange'
  <2>1. CASE AnnounceCurrent(g) /\ now = 0
    BY <1>0, <2>1, ReaderMoves DEF AnnounceCurrent, Alive, AfterError
  <2>2. CASE AnnounceCurrent(g) /\ now # 0
    BY <1>0, <2>2, ReaderMoves DEF AnnounceCurrent
  <2>3. CASE AnnounceAgain(g)
    BY <1>0, <2>3, ReaderMoves DEF AnnounceAgain
  <2>4. CASE AnnounceAnswered(g)
    BY <1>0, <2>4, ReaderMoves DEF AnnounceAnswered, AfterPeers, AfterError
  <2>5. CASE FirstFails(g)
    BY <1>0, <2>5, ReaderMoves DEF FirstFails
  <2>6. CASE SecondFails(g)
    BY <1>1, <2>6 DEF SecondFails
  <2> QED
    BY <1>3, <2>1, <2>2, <2>3, <2>4, <2>5, <2>6
<1>4. ASSUME NEW g \in Goroutine, PeersAdded(g) \/ Schedule(g)
      PROVE  LockedDuringExchange'
  <2>1. CASE PeersAdded(g)
    BY <1>0, <2>1, ReaderMoves DEF PeersAdded, Alive
  <2>2. CASE Schedule(g)
    BY <1>0, <2>2, ReaderMoves DEF Schedule, Alive
  <2> QED
    BY <1>4, <2>1, <2>2
<1>5. ASSUME NEW g \in Goroutine, Status(g)
      PROVE  LockedDuringExchange'
  BY <1>0, <1>1, <1>5, ReaderMoves DEF Status, Alive
<1>6. ASSUME NEW i \in Index, Elapse(i) PROVE LockedDuringExchange'
  BY <1>1, <1>6 DEF Elapse
<1>7. CASE RunBegins \/ RunEnds
  BY <1>1, <1>7 DEF RunBegins, RunEnds
<1>8. CASE TimerFires
  BY <1>0, <1>8, ReaderMoves DEF TimerFires, Alive
<1>9. CASE StopBegins
  BY <1>0, <1>9, ReaderMoves DEF StopBegins, Alive
<1>10. CASE StopEnds
  BY <1>0, <1>10, ReaderMoves DEF StopEnds, Alive
<1> QED
  BY <1>1, <1>2, <1>3, <1>4, <1>5, <1>6, <1>7, <1>8, <1>9, <1>10 DEF Next, Step, vars

\* A goroutine that waits for nowLock to write keeps out whoever wants to read.
\* There is no circle: it holds nothing itself, and the goroutines it waits for
\* are in an exchange with a tracker that has answered a start, which they end
\* without another look at the lock.
NowLockMovesOn ==
    \A g \in Goroutine :
        pc[g] = "setNow" =>
            /\ g \notin readers
            /\ \A h \in readers : pc[h] \in {"first", "second"} /\ now \in started

\* The safety half of CallsReturn: nowLock keeps nobody out for somebody who
\* waits for it too, although it is held across the network.
THEOREM NoNowLockCircle == Spec => []NowLockMovesOn
<1>1. Init => LockedDuringExchange
  BY DEF Init, LockedDuringExchange
<1>2. Inv /\ LockedDuringExchange => NowLockMovesOn
  BY DEF Inv, NowStarted, NowKnown, LockedDuringExchange, NowLockMovesOn
<1> QED
  BY <1>1, <1>2, LockedNext, Invariance, PTL DEF Spec
=============================================================================
