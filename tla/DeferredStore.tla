--------------------------- MODULE DeferredStore ---------------------------
(***************************************************************************)
(* What vLLM relies on when the KV connector stores in the background: a   *)
(* store that was accepted reads the paged blocks at some later time, and  *)
(* says when it is over; blocks vLLM has taken back are overwritten only   *)
(* when no store that may still succeed has them to read.                  *)
(***************************************************************************)
CONSTANT Store

VARIABLES
    outcome,     \* of a store: "none" before it was submitted, "open", then it is known
    reading,     \* stores that have not yet read all their blocks
    reclaimed,   \* stores whose blocks vLLM has taken back
    overwritten  \* stores whose blocks have been written by a later forward pass

vars == <<outcome, reading, reclaimed, overwritten>>

Init ==
    /\ outcome = [s \in Store |-> "none"]
    /\ reading = {} /\ reclaimed = {} /\ overwritten = {}

Submit(s) ==
    /\ outcome[s] = "none"
    /\ outcome' = [outcome EXCEPT ![s] = "open"]
    /\ reading' = reading \cup {s}
    /\ UNCHANGED <<reclaimed, overwritten>>

Refuse(s) ==
    /\ outcome[s] = "none"
    /\ outcome' = [outcome EXCEPT ![s] = "failed"]
    /\ UNCHANGED <<reading, reclaimed, overwritten>>

\* The blocks have been read, or never will be.
EndRead(s) ==
    /\ s \in reading
    /\ reading' = reading \ {s}
    /\ UNCHANGED <<outcome, reclaimed, overwritten>>

Resolve(s) ==
    /\ outcome[s] = "open" /\ s \notin reading
    /\ \E end \in {"stored", "failed"} : outcome' = [outcome EXCEPT ![s] = end]
    /\ UNCHANGED <<reading, reclaimed, overwritten>>

\* The executor refuses the task after the store was taken in.
Abandon(s) ==
    /\ outcome[s] = "open" /\ s \in reading
    /\ outcome' = [outcome EXCEPT ![s] = "failed"]
    /\ reading' = reading \ {s}
    /\ UNCHANGED <<reclaimed, overwritten>>

Reclaim(s) ==
    /\ outcome[s] # "none"
    /\ reclaimed' = reclaimed \cup {s}
    /\ UNCHANGED <<outcome, reading, overwritten>>

Overwrite ==
    /\ reclaimed \cap reading = {}
    /\ overwritten' = reclaimed
    /\ UNCHANGED <<outcome, reading, reclaimed>>

Next ==
    \/ \E s \in Store : \/ Submit(s) \/ Refuse(s) \/ EndRead(s)
                        \/ Resolve(s) \/ Abandon(s) \/ Reclaim(s)
    \/ Overwrite

Spec == Init /\ [][Next]_vars
=============================================================================
