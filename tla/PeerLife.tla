------------------------------ MODULE PeerLife ------------------------------
(***************************************************************************)
(* What the rest of the program relies on of one connection (a *peer,      *)
(* peer/peer.go): it starts running once, can be told to close, and ends   *)
(* in stateStop for good.  Closing is a request: the connection stays in   *)
(* stateRunning until its receiving goroutine acts on it.                  *)
(***************************************************************************)
VARIABLE phase

\* Run makes the peer running.
Start == phase = "new" /\ phase' = "running"

\* Close closes the channel p.closing.
Close == phase = "running" /\ phase' = "closing"

\* The receiving goroutine ends, asked to or not.
Stop == phase \in {"running", "closing"} /\ phase' = "stop"

Init == phase = "new"
Next == Start \/ Close \/ Stop
Spec == Init /\ [][Next]_phase
=============================================================================
