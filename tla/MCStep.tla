------------------------------- MODULE MCStep -------------------------------
(* Small instances of IdempotentStep for TLC; the bounds are in the cfg    *)
(* files.                                                                  *)
EXTENDS IdempotentStep

CONSTANTS r1, r2, r3
=============================================================================
