-------------------------- MODULE MCTrackerManager --------------------------
(* Instances of TrackerManager for TLC.                                    *)
EXTENDS TrackerManager

\* Trackers of both kinds; and with them an address that is no tracker, as the
\* empty one that newTask leaves after the trackers of an announce-list.
BothKinds == {<<"udp", "http">>, <<"udp", "http", "nil">>}
=============================================================================
