-------------------------- MODULE MCSessionClient --------------------------
(* Model-checking instances of SessionClient. *)
EXTENDS SessionClient
=============================================================================
