-------------------------- MODULE MCPickleTransfer --------------------------
(* Small instances of PickleTransfer for TLC.                              *)
EXTENDS PickleTransfer, TLC

CONSTANTS i1, i2, t1, t2, t3, a, b, k1

\* Two workers.
TwoWorkers == (t1 :> i1) @@ (t2 :> i2)

\* Three operations of two workers.
ThreeTasks == (t1 :> i1) @@ (t2 :> i1) @@ (t3 :> i2)

\* One worker with two operations in flight.
OneWorker == (t1 :> i1) @@ (t2 :> i1)

\* One token range with an object in each of two groups.
OnePair == k1 :> (1 :> {a} @@ 2 :> {b})

\* One token range of two objects in a single group.
OneRange == k1 :> (1 :> {a, b})
=============================================================================
