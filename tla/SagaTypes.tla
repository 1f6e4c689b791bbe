------------------------------ MODULE SagaTypes ------------------------------
(***************************************************************************)
(* The vocabulary the coordinator and the services share (types.ts).  Each *)
(* service offers one do-step and one undo-step, so a step is named by its *)
(* kind and its service, and COMPENSATION_OF pairs the two of a service.   *)
(***************************************************************************)
CONSTANTS
  Order,   \* orders, by order_id
  Service  \* the worker services: order, inventory, payment, shipping

OrderStatus == {"PENDING", "IN_PROGRESS", "PLACED", "COMPENSATING",
                "CANCELLED", "NEEDS_ATTENTION", "SHIPPED"}
RowStatus   == {"PENDING", "RUNNING", "SUCCEEDED", "FAILED", "SKIPPED"}

Do(s)   == <<"FORWARD", s>>
Undo(s) == <<"COMPENSATION", s>>

ForwardSteps      == {Do(s) : s \in Service}
CompensationSteps == {Undo(s) : s \in Service}
Step              == ForwardSteps \cup CompensationSteps
=============================================================================
