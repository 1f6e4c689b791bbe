----------------------------- MODULE StepService -----------------------------
(***************************************************************************)
(* What the four worker services promise the coordinator, all eight        *)
(* operations alike: a posted step is executed at most once per            *)
(* idempotency key, at any later moment, in one transaction with the       *)
(* COMPLETED record that lets every further request replay the answer.     *)
(***************************************************************************)
EXTENDS SagaTypes

VARIABLES
  posted,  \* steps some request for which may still reach the service
  record,  \* idempotency_records in state COMPLETED, by order
  effect   \* the domain row: charged / reserved / created, or undone

serviceVars == <<posted, record, effect>>

Effect == {"none", "live", "undone"}

ServiceTypeOK ==
  /\ posted \in [Order -> SUBSET Step]
  /\ record \in [Order -> SUBSET Step]
  /\ effect \in [Order -> [Service -> Effect]]

ServiceInit ==
  /\ posted = [o \in Order |-> {}]
  /\ record = [o \in Order |-> {}]
  /\ effect = [o \in Order |-> [s \in Service |-> "none"]]

(* A request leaves the coordinator.  It may arrive late, or never.        *)
Post(o, st) == posted' = [posted EXCEPT ![o] = @ \cup {st}]

(* The handlers: a do-step inserts the domain row, an undo-step is guarded *)
(* on the row being live and is a recorded no-op otherwise.                *)
UndoEffect(old) == IF old = "live" THEN "undone" ELSE old

Executes(o, st) ==
  /\ st \in posted[o] \ record[o]
  /\ record' = [record EXCEPT ![o] = @ \cup {st}]
  /\ UNCHANGED posted

ExecuteDo(o, s) ==
  /\ Executes(o, Do(s))
  /\ effect' = [effect EXCEPT ![o][s] = "live"]

ExecuteUndo(o, s) ==
  /\ Executes(o, Undo(s))
  /\ effect' = [effect EXCEPT ![o][s] = UndoEffect(@)]

(* The promise on its own, for who implements it.                          *)
ServiceNext ==
  \E o \in Order :
    \/ \E st \in Step : Post(o, st) /\ UNCHANGED <<record, effect>>
    \/ \E s \in Service : ExecuteDo(o, s) \/ ExecuteUndo(o, s)

ServiceSpec == ServiceInit /\ [][ServiceNext]_serviceVars
=============================================================================
