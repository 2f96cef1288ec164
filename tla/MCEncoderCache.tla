--------------------------- MODULE MCEncoderCache ---------------------------
(* A struct that holds a pointer to itself and an interface{}. *)
EXTENDS EncoderCache, TLC

CONSTANTS T, P, I

MCChild == (T :> <<P, I>>) @@ (P :> <<T>>) @@ (I :> <<>>)
=============================================================================
