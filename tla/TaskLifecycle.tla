--------------------------- MODULE TaskLifecycle ---------------------------
(***************************************************************************)
(* Starting and stopping a task (task.go) and its peer.Manager             *)
(* (peer/manager.go): the goroutines that meet on the manager's unbuffered *)
(* channels peerc, getStatus and closing, and the two state variables that *)
(* they check before.                                                      *)
(*                                                                         *)
(*   Starter  calls task.start, which is Manager.Run until Run returns;    *)
(*   Closer   calls task.stop: GetStatus, then Manager.Close; or is a      *)
(*            goroutine of Manager.update whose Dump failed: Close;        *)
(*   Adder    AddPeer or a goroutine of AddAddrPeer, with a peer for Run,  *)
(*            and the goroutine of Run that goes on with AddPeer's peer.   *)
(*                                                                         *)
(* closing is a chan chan error: Close sends an error channel on it and    *)
(* waits for Run's answer there.  Adders receive from closing as well, to  *)
(* learn that the manager has been closed.  closec is never closed, so the *)
(* branches that wait for it are not there.  Each goroutine makes one call.*)
(***************************************************************************)
CONSTANTS Starter, Closer, Adder

Goroutine == Starter \cup Closer \cup Adder

ASSUME RolesDisjoint ==
    /\ Starter \cap (Closer \cup Adder) = {}
    /\ Closer \cap Adder = {}

VARIABLES
    task,      \* t.state: "init" or "running"
    manager,   \* m.state: "init" or "running"
    closed,    \* has the channel m.closing been closed?
    pc,        \* where each goroutine is
    fault      \* how the process died: "none" while it is alive

vars == <<task, manager, closed, pc, fault>>

Goto(g, l) == pc' = [pc EXCEPT ![g] = l]

\* The goroutines that are in the select of Run.
InLoop == {r \in Starter : pc[r] = "loop"}

-----------------------------------------------------------------------------
(* task.start and Manager.Run.                                             *)

\* start returns unless the task is in stateInit.
StartCheck(r) ==
    /\ fault = "none"
    /\ pc[r] = "idle"
    /\ Goto(r, IF task = "init" THEN "start" ELSE "done")
    /\ UNCHANGED <<task, manager, closed, fault>>

StartSet(r) ==
    /\ fault = "none"
    /\ pc[r] = "start"
    /\ task' = "running"
    /\ Goto(r, "run")
    /\ UNCHANGED <<manager, closed, fault>>

\* Run: m.setState(taskRunning).
RunBegins(r) ==
    /\ fault = "none"
    /\ pc[r] = "run"
    /\ manager' = "running"
    /\ Goto(r, "loop")
    /\ UNCHANGED <<task, closed, fault>>

\* The goroutine offers a peer to Run, in stateReady ("offer") or not yet.
Offers(a) == pc[a] \in {"offer", "offerNew"}

\* case p := <-m.peerc, with the adder that offers it.  For a peer that is not
\* ready Run starts a goroutine, which shakes hands and offers it again.
RunTakesPeer(r, a) ==
    /\ fault = "none"
    /\ r \in InLoop
    /\ Offers(a)
    /\ Goto(a, IF pc[a] = "offer" THEN "joined" ELSE "handshake")
    /\ UNCHANGED <<task, manager, closed, fault>>

\* case statusc := <-m.getStatus, and the answer to the goroutine that asked.
RunSendsStatus(r, s) ==
    /\ fault = "none"
    /\ r \in InLoop
    /\ pc[s] = "ask"
    /\ Goto(s, "close")
    /\ UNCHANGED <<task, manager, closed, fault>>

\* case errc := <-m.closing, from Close: Run answers and returns.
RunClosed(r, s) ==
    /\ fault = "none"
    /\ r \in InLoop
    /\ ~closed
    /\ pc[s] = "send"
    /\ pc' = [pc EXCEPT ![r] = "ended", ![s] = "closeChan"]
    /\ UNCHANGED <<task, manager, closed, fault>>

\* case errc := <-m.closing of the closed channel: errc is nil, and the send
\* on it blocks for ever.
RunBlocks(r) ==
    /\ fault = "none"
    /\ r \in InLoop
    /\ closed
    /\ Goto(r, "deaf")
    /\ UNCHANGED <<task, manager, closed, fault>>

\* handleMessage returns an error: Run calls m.close() and returns.
RunFails(r) ==
    /\ fault = "none"
    /\ r \in InLoop
    /\ Goto(r, "closeChan")
    /\ UNCHANGED <<task, manager, closed, fault>>

\* handlePiece waits for memc, from which nobody receives: Download
\* never makes the channel.
RunWaitsMemc(r) ==
    /\ fault = "none"
    /\ r \in InLoop
    /\ Goto(r, "stuck")
    /\ UNCHANGED <<task, manager, closed, fault>>

-----------------------------------------------------------------------------
(* Manager.close, called by Close after Run's answer or by Run itself.     *)

\* Variant for mutation: resets the state and forgets the channel.
CloseChanLast(g) ==
    /\ fault = "none"
    /\ pc[g] = "closeChan"
    /\ manager' = "init"
    /\ Goto(g, "ended")
    /\ UNCHANGED <<task, closed, fault>>

\* p.Close() of the peers that Run has comes first; it panics for one that was
\* told to close before and is running still.
ClosePeerPanics(g) ==
    /\ fault = "none"
    /\ pc[g] = "closeChan"
    /\ \E a \in Adder : pc[a] = "joined"
    /\ fault' = "closeOfClosed"
    /\ UNCHANGED <<task, manager, closed, pc>>

\* close(m.closing), which panics the second time.
CloseChan(g) ==
    /\ fault = "none"
    /\ pc[g] = "closeChan"
    /\ IF closed THEN fault' = "closeOfClosed" /\ UNCHANGED <<closed, pc>>
       ELSE closed' = TRUE /\ Goto(g, "setInit") /\ UNCHANGED fault
    /\ UNCHANGED <<task, manager>>

\* Variant for mutation: does not reset the state.
CloseSetNothing(g) ==
    /\ fault = "none"
    /\ pc[g] = "setInit"
    /\ Goto(g, "ended")
    /\ UNCHANGED <<task, manager, closed, fault>>

\* m.setState(taskInit)
CloseSetInit(g) ==
    /\ fault = "none"
    /\ pc[g] = "setInit"
    /\ manager' = "init"
    /\ Goto(g, "ended")
    /\ UNCHANGED <<task, closed, fault>>

-----------------------------------------------------------------------------
(* task.stop, Manager.GetStatus and Manager.Close.                         *)

StopCheck(s) ==
    /\ fault = "none"
    /\ pc[s] = "idle"
    /\ Goto(s, IF task = "running" THEN "stop" ELSE "done")
    /\ UNCHANGED <<task, manager, closed, fault>>

StopSet(s) ==
    /\ fault = "none"
    /\ pc[s] = "stop"
    /\ task' = "init"
    /\ Goto(s, "status")
    /\ UNCHANGED <<manager, closed, fault>>

\* GetStatus returns nil unless the manager runs, and stop dereferences it.
GetStatus(s) ==
    /\ fault = "none"
    /\ pc[s] = "status"
    /\ IF manager = "running" THEN Goto(s, "ask") /\ UNCHANGED fault
       ELSE fault' = "nilStatus" /\ UNCHANGED pc
    /\ UNCHANGED <<task, manager, closed>>

\* The goroutine that update starts finds that Dump failed.
DumpFails(s) ==
    /\ fault = "none"
    /\ pc[s] = "idle"
    /\ InLoop # {}
    /\ Goto(s, "close")
    /\ UNCHANGED <<task, manager, closed, fault>>


\* Close returns unless the manager runs.
CloseCheck(s) ==
    /\ fault = "none"
    /\ pc[s] = "close"
    /\ Goto(s, IF manager = "running" THEN "send" ELSE "done")
    /\ UNCHANGED <<task, manager, closed, fault>>

\* m.closing <- errc on a channel that somebody else has closed.
CloseSendPanics(s) ==
    /\ fault = "none"
    /\ pc[s] = "send"
    /\ closed
    /\ fault' = "sendOnClosed"
    /\ UNCHANGED <<task, manager, closed, pc>>

-----------------------------------------------------------------------------
(* AddPeer and AddAddrPeer.                                                *)

\* The manager runs: AddAddrPeer's goroutine connects and shakes hands first,
\* AddPeer offers the peer at once.
AddCheck(a) ==
    /\ fault = "none"
    /\ pc[a] = "idle"
    /\ \E l \in IF manager = "running" THEN {"handshake", "offerNew"} ELSE {"done"} :
            Goto(a, l)
    /\ UNCHANGED <<task, manager, closed, fault>>

\* The handshake ends: the peer is ready, or there was an error.
Handshake(a) ==
    /\ fault = "none"
    /\ pc[a] = "handshake"
    /\ \E l \in {"offer", "done"} : Goto(a, l)
    /\ UNCHANGED <<task, manager, closed, fault>>

\* case <-m.closing of the closed channel.
AddSeesClosed(a) ==
    /\ fault = "none"
    /\ Offers(a)
    /\ closed
    /\ Goto(a, "done")
    /\ UNCHANGED <<task, manager, closed, fault>>

\* case <-m.closing takes the error channel that Close sends to Run, and drops
\* it: Close waits for an answer that nobody will send.
AddTakesErrc(a, s) ==
    /\ fault = "none"
    /\ Offers(a)
    /\ ~closed
    /\ pc[s] = "send"
    /\ pc' = [pc EXCEPT ![a] = "done", ![s] = "await"]
    /\ UNCHANGED <<task, manager, closed, fault>>

-----------------------------------------------------------------------------

Init ==
    /\ task = "init"
    /\ manager = "init"
    /\ closed = FALSE
    /\ pc = [g \in Goroutine |-> "idle"]
    /\ fault = "none"

Meet(r, g) == RunTakesPeer(r, g) \/ RunSendsStatus(r, g) \/ RunClosed(r, g)

StarterNext(r) == StartCheck(r) \/ StartSet(r) \/ RunBegins(r) \/ RunBlocks(r)

\* The steps when every message is one that the handlers accept.
QuietNext ==
    \/ \E r \in Starter : StarterNext(r) \/ \E g \in Goroutine : Meet(r, g)
    \/ \E g \in Starter \cup Closer : ClosePeerPanics(g) \/ CloseChan(g) \/ CloseSetInit(g)
    \/ \E s \in Closer : \/ StopCheck(s) \/ StopSet(s) \/ GetStatus(s) \/ DumpFails(s)
                        \/ CloseCheck(s) \/ CloseSendPanics(s)
    \/ \E a \in Adder : \/ AddCheck(a) \/ Handshake(a) \/ AddSeesClosed(a)
                       \/ \E s \in Closer : AddTakesErrc(a, s)

Next == QuietNext \/ \E r \in Starter : RunFails(r) \/ RunWaitsMemc(r)

Spec == Init /\ [][Next]_vars

\* Go runs every goroutine that can run, and the select of Run and of an adder
\* chooses at random among the cases that are ready.  Messages that handlers
\* refuse, failing Dumps and new calls need not happen, and a handshake, which
\* has no deadline, need not end.
Fairness ==
    /\ \A r \in Starter :
           WF_vars(StartSet(r) \/ RunBegins(r) \/ RunBlocks(r) \/ CloseChan(r) \/ CloseSetInit(r))
    /\ \A s \in Closer :
           WF_vars(\/ StopSet(s) \/ GetStatus(s) \/ CloseCheck(s) \/ CloseSendPanics(s)
                   \/ CloseChan(s) \/ CloseSetInit(s))
    /\ \A a \in Adder : WF_vars(AddSeesClosed(a))
    /\ \A g \in Goroutine \ Starter : SF_vars(\E r \in Starter : Meet(r, g))

FairSpec == Spec /\ Fairness

QuietSpec == Init /\ [][QuietNext]_vars /\ Fairness

-----------------------------------------------------------------------------
(* Properties.                                                             *)

Faults == {"none", "closeOfClosed", "sendOnClosed", "nilStatus"}

Location == {"idle", "start", "run", "loop", "stuck", "deaf", "stop", "status", "ask",
             "close", "send", "await", "handshake", "offerNew", "offer", "joined",
             "closeChan", "setInit", "ended", "done"}

\* Every variable has its type.
TypeOK ==
    /\ task \in {"init", "running"}
    /\ manager \in {"init", "running"}
    /\ closed \in BOOLEAN
    /\ pc \in [Goroutine -> Location]
    /\ fault \in Faults

\* While the manager says that it runs, a goroutine is in Run or is still in
\* the m.close() that ends it: GetStatus, AddPeer and Close, which wait for Run
\* if the state says so, have somebody to wait for when they look.
RunningMeansRun ==
    manager = "running" =>
        \E g \in Goroutine : pc[g] \in {"loop", "stuck", "deaf", "closeChan", "setInit"}

\* Once a Run has ended and nobody is closing the manager any more, the channel
\* closing is closed: an adder that still holds a peer can learn of it.
EndedMeansClosed ==
    (\E r \in Starter : pc[r] = "ended") =>
        closed \/ \E g \in Goroutine : pc[g] = "closeChan"

\* A goroutine that offers a peer to Run is released in the end: Run takes the
\* peer, or the end of Run lets the goroutine go.  Only a handlePiece that waits
\* for memc for ever, with nobody closing the manager, keeps it.
AddersReleased ==
    \A a \in Adder :
        Offers(a) ~> \/ ~Offers(a) \/ fault # "none"
                     \/ ~closed /\ \E r \in Starter : pc[r] = "stuck"


\* Download.Stop ("stop a task"): a Stop that finds the task running makes Run
\* return, whatever the goroutines that add peers are doing.
StopStops ==
    \A s \in Closer :
        pc[s] = "stop" ~> ((\E r \in Starter : pc[r] = "ended") \/ fault # "none")
=============================================================================
