--------------------------- MODULE TrackerManager ---------------------------
(***************************************************************************)
(* A task and its trackers: tracker.Manager (tracker/manager.go), and what *)
(* task.go does with it.  Three goroutines use the manager:                *)
(*                                                                         *)
(*   start   the goroutine of task.start: it announces the start, adds the *)
(*           peers and schedules the first task.announce;                  *)
(*   timer   task.announce, which schedules itself again;                  *)
(*   stop    task.stop, which announces the stop before it closes.         *)
(*                                                                         *)
(* nowLock is an RWMutex around m.now.  Manager.announce holds it for      *)
(* reading during the exchange with the tracker, and Start takes it for    *)
(* writing: a waiting writer lets no new reader in.                        *)
(*                                                                         *)
(* What a tracker answers is up to the network.  Of time only this much is *)
(* kept: whether a tracker's nextTime has been reached.  The task is       *)
(* started once.                                                           *)
(***************************************************************************)
EXTENDS Integers, Sequences

\* The lists that NewManager may make: what NewTracker made of each address.
CONSTANT Lists

ASSUME ListsAssumption == Lists \subseteq Seq({"udp", "http", "nil"})

Goroutine == {"start", "timer", "stop"}

VARIABLES
    trackers,  \* m.trackers, of each only its kind
    now,       \* m.now, counting from 1; 0 stands for -1
    readers,   \* the goroutines that hold nowLock for reading
    waits,     \* the trackers whose nextTime is in the future
    started,   \* the trackers that have answered an EventStart (history)
    pc,        \* where each goroutine is
    at,        \* the tracker that Start's loop is at, for each goroutine
    timers,    \* calls of task.announce that time.AfterFunc will make
    run,       \* Run of the peer manager: "before", "running" or "ended"
    fault      \* how the process died: "none" while it is alive

vars == <<trackers, now, readers, waits, started, pc, at, timers, run, fault>>

Index == DOMAIN trackers

Alive(g, l) == fault = "none" /\ pc[g] = l
Goto(g, l)  == pc' = [pc EXCEPT ![g] = l]

\* nowLock.RLock() does not block: nobody waits in nowLock.Lock().
CanRLock == \A g \in Goroutine : pc[g] # "setNow"

-----------------------------------------------------------------------------
(* Tracker.Announce, as the manager sees it.                               *)

\* An HTTP tracker sleeps until nextTime before it announces EventNone.
Sleeps(i, event) == trackers[i] = "http" /\ event = "none" /\ i \in waits

\* A UDP tracker refuses to announce EventNone before nextTime.
Refuses(i, event) == trackers[i] = "udp" /\ event = "none" /\ i \in waits

\* The answer sets nextTime to the interval it names, which may be zero.
Answers(i, event) ==
    /\ trackers[i] # "nil"
    /\ ~Sleeps(i, event) /\ ~Refuses(i, event)
    /\ waits' \in {waits \cup {i}, waits \ {i}}

\* It fails.  An HTTP tracker has set nextTime already when it finds that the
\* list of peers is unusable.
Fails(i, event) ==
    /\ trackers[i] # "nil"
    /\ ~Sleeps(i, event)
    /\ waits' \in IF trackers[i] = "http" THEN {waits \cup {i}, waits \ {i}} ELSE {waits}

\* nextTime of tracker i is reached.
Elapse(i) ==
    /\ fault = "none"
    /\ i \in waits
    /\ waits' = waits \ {i}
    /\ UNCHANGED <<trackers, now, readers, started, pc, at, timers, run, fault>>

-----------------------------------------------------------------------------
(* Manager.Start: the loop over the trackers.                              *)

\* What a caller does when its call has returned an error.
AfterError(g) ==
    IF g = "start" THEN "done" ELSE IF g = "timer" THEN "idle" ELSE "close"

\* What it does with the peers it got.
AfterPeers(g) == IF g = "stop" THEN "close" ELSE "add"

TryAnswers(g) ==
    /\ Alive(g, "try") /\ at[g] \in Index
    /\ Answers(at[g], "start")
    /\ started' = started \cup {at[g]}
    /\ Goto(g, "setNow")
    /\ UNCHANGED <<trackers, now, readers, at, timers, run, fault>>

\* Variant for mutation: takes the tracker in spite of the error.
TryFailsTaken(g) ==
    /\ Alive(g, "try") /\ at[g] \in Index
    /\ Fails(at[g], "start")
    /\ Goto(g, "setNow")
    /\ UNCHANGED <<trackers, now, readers, started, at, timers, run, fault>>

TryFails(g) ==
    /\ Alive(g, "try") /\ at[g] \in Index
    /\ Fails(at[g], "start")
    /\ at' = [at EXCEPT ![g] = @ + 1]
    /\ UNCHANGED <<trackers, now, readers, started, pc, timers, run, fault>>

\* NewManager leaves a nil in m.trackers for an address that is no tracker.
TryNil(g) ==
    /\ Alive(g, "try") /\ at[g] \in Index
    /\ trackers[at[g]] = "nil"
    /\ fault' = "nilTracker"
    /\ UNCHANGED <<trackers, now, readers, waits, started, pc, at, timers, run>>

\* Variant for mutation: the caller does not look at the error.
NoTrackerLeftIgnored(g) ==
    /\ Alive(g, "try") /\ at[g] \notin Index
    /\ Goto(g, AfterPeers(g))
    /\ UNCHANGED <<trackers, now, readers, waits, started, at, timers, run, fault>>

\* ErrNoVaildTracker
NoTrackerLeft(g) ==
    /\ Alive(g, "try") /\ at[g] \notin Index
    /\ Goto(g, AfterError(g))
    /\ UNCHANGED <<trackers, now, readers, waits, started, at, timers, run, fault>>

SetNow(g) ==
    /\ Alive(g, "setNow")
    /\ readers = {}
    /\ now' = at[g]
    /\ Goto(g, IF g = "start" THEN "add" ELSE "again")
    /\ UNCHANGED <<trackers, readers, waits, started, at, timers, run, fault>>

-----------------------------------------------------------------------------
(* Manager.announce, which the timer calls with EventNone and stop with    *)
(* EventStop: the current tracker, then Start, then the tracker it found.  *)

Event(g) == IF g = "timer" THEN "none" ELSE "stop"

AnnounceCurrent(g) ==
    /\ Alive(g, "announce")
    /\ CanRLock
    /\ IF now = 0 THEN Goto(g, AfterError(g)) /\ UNCHANGED readers
       ELSE Goto(g, "first") /\ readers' = readers \cup {g}
    /\ UNCHANGED <<trackers, now, waits, started, at, timers, run, fault>>

AnnounceAgain(g) ==
    /\ Alive(g, "again")
    /\ CanRLock
    /\ Goto(g, "second")
    /\ readers' = readers \cup {g}
    /\ UNCHANGED <<trackers, now, waits, started, at, timers, run, fault>>

\* The retry's err is another one, declared with ps: announce returns the error
\* of the first exchange even when the second has been answered.
AnnounceAnswered(g) ==
    /\ Alive(g, "first") \/ Alive(g, "second")
    /\ Answers(now, Event(g))
    /\ Goto(g, IF pc[g] = "first" THEN AfterPeers(g) ELSE AfterError(g))
    /\ readers' = readers \ {g}
    /\ UNCHANGED <<trackers, now, started, at, timers, run, fault>>

\* Variant for mutation: keeps the lock while it looks for another tracker.
FirstFailsLocked(g) ==
    /\ Alive(g, "first")
    /\ Fails(now, Event(g))
    /\ Goto(g, "try")
    /\ at' = [at EXCEPT ![g] = 1]
    /\ UNCHANGED <<trackers, now, readers, started, timers, run, fault>>

FirstFails(g) ==
    /\ Alive(g, "first")
    /\ Fails(now, Event(g))
    /\ Goto(g, "try")
    /\ at' = [at EXCEPT ![g] = 1]
    /\ readers' = readers \ {g}
    /\ UNCHANGED <<trackers, now, started, timers, run, fault>>

\* logger.Fatalln("tracker error"), with errWaitTime told apart.
SecondFails(g) ==
    /\ Alive(g, "second")
    /\ Fails(now, Event(g))
    /\ fault' = IF Refuses(now, Event(g)) THEN "tooSoon" ELSE "trackerError"
    /\ UNCHANGED <<trackers, now, readers, started, pc, at, timers, run>>

-----------------------------------------------------------------------------
(* The task.                                                               *)

\* Run of the peer manager begins, and ends by itself.
RunBegins ==
    /\ fault = "none"
    /\ run = "before"
    /\ run' = "running"
    /\ UNCHANGED <<trackers, now, readers, waits, started, pc, at, timers, fault>>

RunEnds ==
    /\ fault = "none"
    /\ run = "running"
    /\ run' = "ended"
    /\ UNCHANGED <<trackers, now, readers, waits, started, pc, at, timers, fault>>

\* AddAddrPeer returns.
PeersAdded(g) ==
    /\ Alive(g, "add")
    /\ Goto(g, "schedule")
    /\ UNCHANGED <<trackers, now, readers, waits, started, at, timers, run, fault>>

\* GetWaitTime, which ends the process if no tracker has answered yet.
GetWaitTime == IF now = 0 THEN fault' = "noTracker" ELSE UNCHANGED fault

\* Variant for mutation: task.announce schedules for the shortest wait and
\* goes on to schedule for the tracker's.
ScheduleTwice(g) ==
    /\ Alive(g, "schedule")
    /\ CanRLock
    /\ GetWaitTime
    /\ timers' = timers + IF g = "timer" THEN 2 ELSE 1
    /\ Goto(g, IF g = "timer" THEN "idle" ELSE "done")
    /\ UNCHANGED <<trackers, now, readers, waits, started, at, run>>

\* GetWaitTime and time.AfterFunc.
Schedule(g) ==
    /\ Alive(g, "schedule")
    /\ CanRLock
    /\ GetWaitTime
    /\ timers' = timers + 1
    /\ Goto(g, IF g = "timer" THEN "idle" ELSE "done")
    /\ UNCHANGED <<trackers, now, readers, waits, started, at, run>>

TimerFires ==
    /\ Alive("timer", "idle")
    /\ timers > 0
    /\ timers' = timers - 1
    /\ Goto("timer", "status")
    /\ UNCHANGED <<trackers, now, readers, waits, started, at, run, fault>>

\* task.stop of a task that is running.
StopBegins ==
    /\ Alive("stop", "idle")
    /\ Goto("stop", "status")
    /\ UNCHANGED <<trackers, now, readers, waits, started, at, timers, run, fault>>

\* GetStatus: task.announce and task.stop dereference the nil that it returns
\* when the manager does not run.  With enough peers the timer skips the
\* announce.
Status(g) ==
    /\ Alive(g, "status")
    /\ IF run = "running"
       THEN /\ \/ Goto(g, "announce")
               \/ g = "timer" /\ Goto(g, "schedule")
            /\ UNCHANGED fault
       ELSE fault' = "nilStatus" /\ UNCHANGED pc
    /\ UNCHANGED <<trackers, now, readers, waits, started, at, timers, run>>

\* Manager.Close of the peer manager.
StopEnds ==
    /\ Alive("stop", "close")
    /\ run' = "ended"
    /\ Goto("stop", "done")
    /\ UNCHANGED <<trackers, now, readers, waits, started, at, timers, fault>>

-----------------------------------------------------------------------------

Init ==
    /\ trackers \in Lists
    /\ now = 0
    /\ readers = {}
    /\ waits = {}
    /\ started = {}
    /\ pc = [g \in Goroutine |-> IF g = "start" THEN "try" ELSE "idle"]
    /\ at = [g \in Goroutine |-> 1]
    /\ timers = 0
    /\ run = "before"
    /\ fault = "none"

\* The steps of a goroutine that is in a call.
Step(g) ==
    \/ TryAnswers(g) \/ TryFails(g) \/ TryNil(g) \/ NoTrackerLeft(g) \/ SetNow(g)
    \/ AnnounceCurrent(g) \/ AnnounceAgain(g) \/ AnnounceAnswered(g)
    \/ FirstFails(g) \/ SecondFails(g)
    \/ PeersAdded(g) \/ Schedule(g) \/ Status(g)

Next ==
    \/ \E g \in Goroutine : Step(g)
    \/ \E i \in Index : Elapse(i)
    \/ RunBegins \/ RunEnds \/ TimerFires \/ StopBegins \/ StopEnds

Spec == Init /\ [][Next]_vars

\* Where a tracker can be in a list.
Position == UNION {DOMAIN l : l \in Lists}

\* The goroutine is in an exchange with an HTTP tracker: http.Get and the
\* reading of its body have no timeout.
InHTTP(g) ==
    \/ pc[g] = "try" /\ at[g] \in Index /\ trackers[at[g]] = "http"
    \/ pc[g] \in {"first", "second"} /\ trackers[now] = "http"

\* Go runs every goroutine that can run; its RWMutex lets a waiting writer in
\* once the readers are gone, and the waiting readers when the writer is done,
\* before another writer (hence the strong fairness).  An exchange with a UDP
\* tracker ends, with an answer or an error, because udp.go sets a deadline for
\* every read; an exchange with an HTTP tracker need not.  Time passes.
Fairness ==
    /\ \A g \in Goroutine : SF_vars(Step(g) /\ ~InHTTP(g))
    /\ \A i \in Position : WF_vars(Elapse(i))

FairSpec == Spec /\ Fairness

-----------------------------------------------------------------------------
(* Properties.                                                             *)

Location == {"idle", "status", "announce", "first", "try", "setNow", "again", "second",
             "add", "schedule", "close", "done"}

\* Every variable has its type.
TypeOK ==
    /\ trackers \in Lists
    /\ now \in Index \cup {0}
    /\ readers \in SUBSET Goroutine
    /\ waits \in SUBSET Index
    /\ started \in SUBSET Index
    /\ pc \in [Goroutine -> Location]
    /\ at \in [Goroutine -> Nat]
    /\ timers \in Nat
    /\ run \in {"before", "running", "ended"}
    /\ fault \in {"none", "nilTracker", "trackerError", "tooSoon", "noTracker", "nilStatus"}

\* A tracker is told that a task goes on or stops only after it has answered
\* that the task started, however the goroutines' calls overlap while the
\* manager moves from one tracker to another.
ToldInOrder ==
    \A g \in Goroutine : pc[g] \in {"first", "second"} => now \in started

\* GetWaitTime's logger.Fatalln("no vaild tracker") is never reached.
WaitTimeKnown == fault # "noTracker"

\* At most one call of task.announce is scheduled or under way: the chain of
\* timers never forks, so a tracker is not asked twice as often as it wants.
OneTimer == timers + (IF pc["timer"] = "idle" THEN 0 ELSE 1) <= 1

\* A call of Start, Announce or Stop returns, unless its own exchange with an
\* HTTP tracker never ends, or one that another goroutine has while it holds
\* nowLock.  A goroutine that hangs in Start's loop keeps nobody else waiting,
\* and nowLock by itself keeps nobody out for ever.
CallsReturn ==
    \A g \in Goroutine :
        \/ pc[g] \in {"announce", "first", "try", "setNow", "again", "second"}
              ~> (pc[g] \in {"add", "idle", "close", "done"} \/ fault # "none")
        \/ <>[]InHTTP(g)
        \/ \E h \in Goroutine : <>[](h \in readers /\ InHTTP(h))
=============================================================================
