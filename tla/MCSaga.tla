------------------------------- MODULE MCSaga -------------------------------
(* Small instances of SagaEngine for TLC; the bounds are in the cfg files. *)
EXTENDS SagaProperties

CONSTANTS i1, i2, i3, a, b, o1, o2
=============================================================================
