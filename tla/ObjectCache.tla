---------------------------- MODULE ObjectCache ----------------------------
(***************************************************************************)
(* What a lookup's hit promises to the worker that retrieves: the object   *)
(* it reads was filled in full before it was published, nobody fills it    *)
(* again while it is cached, and it stays until the reader is through.     *)
(***************************************************************************)
CONSTANTS Object, Reader

VARIABLES
    cached,   \* objects a lookup can hit
    full,     \* objects whose content is complete
    reading   \* of a reader: the objects it copies out of

vars == <<cached, full, reading>>

Init ==
    /\ cached = {} /\ full = {}
    /\ reading = [r \in Reader |-> {}]

\* Objects that nobody can hit are filled.
Fill ==
    /\ \E S \in SUBSET (Object \ cached) : full' = full \cup S
    /\ UNCHANGED <<cached, reading>>

Publish ==
    /\ \E S \in SUBSET full : cached' = cached \cup S
    /\ UNCHANGED <<full, reading>>

\* A reader begins with the objects of one more group, or of all.
BeginRead(r) ==
    /\ \E S \in SUBSET cached : reading' = [reading EXCEPT ![r] = @ \cup S]
    /\ UNCHANGED <<cached, full>>

\* Some of its copies are done, or what it has read does not count any more.
EndRead(r) ==
    /\ \E S \in SUBSET reading[r] : reading' = [reading EXCEPT ![r] = S]
    /\ UNCHANGED <<cached, full>>

\* An object that nobody reads leaves the cache, and its content with it.
Evict(o) ==
    /\ \A r \in Reader : o \notin reading[r]
    /\ cached' = cached \ {o}
    /\ full' = full \ {o}
    /\ UNCHANGED reading

Next ==
    \/ Fill \/ Publish
    \/ \E r \in Reader : BeginRead(r) \/ EndRead(r)
    \/ \E o \in Object : Evict(o)

Spec == Init /\ [][Next]_vars
=============================================================================
