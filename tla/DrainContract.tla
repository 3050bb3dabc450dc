--------------------------- MODULE DrainContract ---------------------------
(***************************************************************************)
(* What the graceful shutdown promises: requests enter while the gate is   *)
(* open; once it closes nobody enters any more, and the gateway either     *)
(* finds everybody gone and stops, or gives up waiting and cuts them off.  *)
(* A lax gate lets requests slip in while it closes, so that nobody can be *)
(* counted on to be gone before the gateway has stopped.                   *)
(***************************************************************************)
CONSTANT Request

VARIABLES
    gate,    \* "open", "closing", "drained", "stopped" or "cut"
    inside,  \* the requests that were let in and are still being handled
    lax      \* whether the gate is lax; it stays as it is

contractVars == <<gate, inside, lax>>

Init == gate = "open" /\ inside = {} /\ lax \in BOOLEAN

Enter(r) ==
    /\ gate = "open" \/ (lax /\ gate # "stopped")
    /\ r \notin inside
    /\ inside' = inside \cup {r}
    /\ UNCHANGED <<gate, lax>>

Leave(r) ==
    /\ r \in inside
    /\ inside' = inside \ {r}
    /\ UNCHANGED <<gate, lax>>

Close ==
    /\ gate = "open"
    /\ gate' = "closing"
    /\ UNCHANGED <<inside, lax>>

\* The gateway finds everybody gone.
Drained ==
    /\ gate = "closing" /\ (inside = {} \/ lax)
    /\ gate' = "drained"
    /\ UNCHANGED <<inside, lax>>

\* The drain is complete: nobody is left.
Stop ==
    /\ gate \in {"closing", "drained"} /\ inside = {}
    /\ gate' = "stopped"
    /\ UNCHANGED <<inside, lax>>

\* The drain has taken too long.
CutOff ==
    /\ gate \in {"closing", "drained"}
    /\ gate' = "cut"
    /\ UNCHANGED <<inside, lax>>

Next ==
    \/ \E r \in Request : Enter(r) \/ Leave(r)
    \/ Close \/ Drained \/ Stop \/ CutOff

Spec == Init /\ [][Next]_contractVars
=============================================================================
