---------------------------- MODULE CommandLine ----------------------------
(***************************************************************************)
(* What the queue in front of a gvmd connection promises: commands wait in *)
(* line, no more of them than there are places, and are executed one at a  *)
(* time in the order in which they joined; a command may give up waiting.  *)
(***************************************************************************)
EXTENDS Naturals, Sequences, SequencesExt

CONSTANTS
    Request,   \* who executes commands
    Places     \* how many may be in line, the executing one included

VARIABLES
    line,   \* who is in line, the first one first
    busy    \* whether the first in line is executing its command

lineVars == <<line, busy>>

Init == line = <<>> /\ busy = FALSE

Join(p) ==
    /\ ~Contains(line, p) /\ Len(line) < Places
    /\ line' = Append(line, p)
    /\ UNCHANGED busy

Start ==
    /\ ~busy /\ line # <<>>
    /\ busy' = TRUE
    /\ UNCHANGED line

\* The command is answered, or its request is dropped while it executes.
Finish ==
    /\ busy
    /\ busy' = FALSE /\ line' = Tail(line)

GiveUp(i) ==
    /\ busy => i # 1
    /\ line' = RemoveAt(line, i)
    /\ UNCHANGED busy

Next ==
    \/ \E p \in Request : Join(p)
    \/ \E i \in 1 .. Len(line) : GiveUp(i)
    \/ Start \/ Finish

Spec == Init /\ [][Next]_lineVars
=============================================================================
