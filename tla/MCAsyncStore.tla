---------------------------- MODULE MCAsyncStore ----------------------------
(* Small instances of AsyncStore for TLC.                                  *)
EXTENDS AsyncStore

CONSTANTS a, b
=============================================================================
