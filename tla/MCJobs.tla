------------------------------- MODULE MCJobs -------------------------------
(* Model-checking instances of Jobs. *)
EXTENDS Jobs, TLC

Symmetry == Permutations(Session) \cup Permutations(Job) \cup Permutations(Client)
=============================================================================
