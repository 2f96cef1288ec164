---------------------------- MODULE TrackerCall ----------------------------
(***************************************************************************)
(* What the manager relies on when it calls Announce of a UDP tracker: a   *)
(* call ends with peers or with an error, and only one that ends with      *)
(* peers moves nextTime.  TrackerManager is built on this.                 *)
(***************************************************************************)
CONSTANT Caller

VARIABLES
    phase,   \* of each caller's last call: "none", "called", "peers", "error"
    waits    \* is nextTime in the future?

Init == phase = [c \in Caller |-> "none"] /\ waits = FALSE

Call(c) ==
    /\ phase[c] # "called"
    /\ phase' = [phase EXCEPT ![c] = "called"]
    /\ UNCHANGED waits

Answers(c) ==
    /\ phase[c] = "called"
    /\ phase' = [phase EXCEPT ![c] = "peers"]
    /\ waits' \in BOOLEAN

Fails(c) ==
    /\ phase[c] = "called"
    /\ phase' = [phase EXCEPT ![c] = "error"]
    /\ UNCHANGED waits

Elapse == waits' = FALSE /\ UNCHANGED phase

Next == Elapse \/ \E c \in Caller : Call(c) \/ Answers(c) \/ Fails(c)
=============================================================================
