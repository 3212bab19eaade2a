--------------------------- MODULE MCMPConnector ---------------------------
(* Small instances of MPConnector for TLC.                                 *)
EXTENDS MPConnector, TLC

CONSTANTS q1, full, sliding

\* A hybrid model: two tokens to a block in one group, four in the other.
Hybrid == (full :> 2) @@ (sliding :> 4)

\* A single group with two tokens to a block.
Uniform == full :> 2
=============================================================================
