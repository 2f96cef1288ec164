--------------------------- MODULE MCPeerRequests ---------------------------
(* Instances of PeerRequests for TLC.                                      *)
EXTENDS PeerRequests, TLC

CONSTANTS c1, c2, c3, a1, a2

\* The tracker returns one address twice: c1 and c2 are connections to it.
MCAddrOf == [c \in Conn |-> IF c = c3 THEN a2 ELSE a1]

\* fs.Need() of a one-file torrent stops before the last piece.
MCInitNeed == 0 .. PieceNum - 2

\* Both remote peers have the pieces we need.
MCHolds == [c \in Conn |-> InitNeed]

\* Connections to the same address are interchangeable.
Sym == Permutations({c1, c2})
=============================================================================
