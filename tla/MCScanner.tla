----------------------------- MODULE MCScanner -----------------------------
(* The scanner on all short inputs. *)
EXTENDS Scanner, TLC

MCByte == {"d", "l", "i", "e", "-", ":", "0", "1", "2", Blank}
MCValue == ("0" :> 0) @@ ("1" :> 1) @@ ("2" :> 2)

\* Whatever begins an encoding, a few of these bytes can end it: a digit and e an
\* integer; a colon and bytes of a body a string; an empty string for a value that
\* is missing, and an e for every container that is open.  Where four bytes fit,
\* an input goes on in all these ways.
MCRest ==
    [n \in 0 .. MaxLen |->
        UNION {[1 .. m -> {"e", "0", "1", ":"}] : m \in IF n < 4 THEN {0} ELSE 0 .. 4}]
=============================================================================
