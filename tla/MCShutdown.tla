----------------------------- MODULE MCShutdown -----------------------------
(* Model-checking instances of Shutdown. *)
EXTENDS Shutdown, TLC

Symmetry == Permutations(Request)
=============================================================================
