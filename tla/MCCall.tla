------------------------------- MODULE MCCall -------------------------------
(* Small instances of StepCall for TLC; the bounds are in the cfg files.   *)
(* As many requests as tries, so that every try finds a handler.           *)
EXTENDS StepCall

CONSTANTS r1, r2, r3
=============================================================================
