------------------------------- MODULE MCIntake -------------------------------
(* Small instances of Intake for TLC; the bounds are in the cfg file.      *)
EXTENDS Intake

CONSTANTS l1, l2, w1, w2

(* An order_id that comes twice, within a batch and across two.            *)
Repeats == <<1, 1, 2>>

(* The second order may need attention, and people turn to one process.    *)
Clicks == {<<w1, 2>>}
=============================================================================
