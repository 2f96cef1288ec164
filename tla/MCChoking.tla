----------------------------- MODULE MCChoking -----------------------------
(* Addresses are interchangeable. *)
EXTENDS Choking, TLC

Symmetry == Permutations(Addr)
=============================================================================
