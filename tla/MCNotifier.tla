----------------------------- MODULE MCNotifier -----------------------------
(* Small instances of Notifier for TLC; the bounds are in the cfg file.    *)
EXTENDS Notifier

CONSTANTS n1, n2
=============================================================================
