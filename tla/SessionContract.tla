-------------------------- MODULE SessionContract --------------------------
(***************************************************************************)
(* What the session registry promises its users, whatever the locks, the   *)
(* clock and the tasks behind it do: a token lives once, no more than      *)
(* Capacity tokens live at a time, and a token that someone holds ends     *)
(* only when its user asks for its end.                                    *)
(***************************************************************************)
EXTENDS Integers, FiniteSets

CONSTANTS
    Token,     \* what a client is handed
    Holder,    \* whoever may hold a token
    Capacity,  \* how many tokens may live at a time, or NoLimit
    NoLimit

VARIABLES
    live,     \* the tokens a client may use
    ended,    \* the tokens that have been in use and never will be again
    closing,  \* those among them whose user has asked for their end, while it is carried out
    held      \* who holds each token

contractVars == <<live, ended, closing, held>>

Fits(S) == Capacity # NoLimit => Cardinality(S) <= Capacity

Init ==
    /\ live = {} /\ ended = {} /\ closing = {}
    /\ held = [t \in Token |-> {}]

\* A fresh token begins to live; tokens nobody holds may end to make room.
Open(t, S) ==
    /\ t \notin live \cup ended
    /\ \A x \in S : held[x] = {}
    /\ live' = (live \ S) \cup {t}
    /\ ended' = ended \cup S
    /\ Fits(live')
    /\ UNCHANGED <<closing, held>>

\* Tokens nobody holds end.
Drain(S) ==
    /\ \A x \in S : held[x] = {}
    /\ live' = live \ S
    /\ ended' = ended \cup S
    /\ UNCHANGED <<closing, held>>

\* A token is given up at its user's request, with whoever still holds it, ...
Close(t) ==
    /\ live' = live \ {t}
    /\ ended' = ended \cup {t}
    /\ closing' = closing \cup {t}
    /\ UNCHANGED held

\* ... and is done with.
Closed(t) ==
    /\ t \in closing
    /\ closing' = closing \ {t}
    /\ UNCHANGED <<live, ended, held>>

Join(h, t) ==
    /\ \A x \in Token : h \notin held[x]
    /\ held' = [held EXCEPT ![t] = @ \cup {h}]
    /\ UNCHANGED <<live, ended, closing>>

Leave(h, t) ==
    /\ h \in held[t]
    /\ held' = [held EXCEPT ![t] = @ \ {h}]
    /\ UNCHANGED <<live, ended, closing>>

Next ==
    \/ \E t \in Token, S \in SUBSET live : Open(t, S)
    \/ \E S \in SUBSET live : Drain(S)
    \/ \E t \in live : Close(t)
    \/ \E t \in closing : Closed(t)
    \/ \E h \in Holder, t \in live : Join(h, t)
    \/ \E h \in Holder, t \in Token : Leave(h, t)

Spec == Init /\ [][Next]_contractVars
=============================================================================
