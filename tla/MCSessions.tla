----------------------------- MODULE MCSessions -----------------------------
(* Model-checking instances of Sessions. *)
EXTENDS Sessions, TLC

\* Requests, users and tokens are interchangeable.
Symmetry == Permutations(Request) \cup Permutations(User) \cup Permutations(Token)
=============================================================================
