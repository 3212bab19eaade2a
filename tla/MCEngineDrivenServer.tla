------------------------ MODULE MCEngineDrivenServer ------------------------
(* Small instances of EngineDrivenServer for TLC.                          *)
EXTENDS EngineDrivenServer, TLC

CONSTANTS i1, i2, s1, s2, r1, a, b, c, k1, k2

\* Two workers; the second also retrieves.
TwoWorkers == (s1 :> i1) @@ (s2 :> i2) @@ (r1 :> i2)

\* Two token ranges that share the object of their last group.
SharedLast == (k1 :> (1 :> {a} @@ 2 :> {b})) @@ (k2 :> (1 :> {c} @@ 2 :> {b}))

\* One worker with two store threads that also retrieves.
BusyWorker == (s1 :> i1) @@ (s2 :> i1) @@ (r1 :> i1)

\* One token range of a single object.
OneObject == k1 :> (1 :> {a})
=============================================================================
