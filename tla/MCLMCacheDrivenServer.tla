----------------------- MODULE MCLMCacheDrivenServer -----------------------
(* Small instances of LMCacheDrivenServer for TLC.                          *)
EXTENDS LMCacheDrivenServer, TLC

CONSTANTS i1, i2, store, retrieve, k1, a, b

TwoTasks == store :> i1 @@ retrieve :> i2
OneKey == k1 :> <<{a}, {b}>>
=============================================================================
