-------------------------------- MODULE Outbox --------------------------------
(***************************************************************************)
(* What the notification service promises: one notification per shipped    *)
(* order, neither twice nor never.  Abstract; Notifier implements it.      *)
(***************************************************************************)
EXTENDS Naturals

CONSTANT Order
VARIABLES shipped, sent   \* orders marked SHIPPED; notifications per order
outboxVars == <<shipped, sent>>

OutboxInit == shipped = {} /\ sent = [o \in Order |-> 0]

MarkShipped(o) == o \notin shipped /\ shipped' = shipped \cup {o} /\ UNCHANGED sent

Notify(o) ==
  /\ o \in shipped /\ sent[o] = 0
  /\ sent' = [sent EXCEPT ![o] = 1]
  /\ UNCHANGED shipped

OutboxNext == \E o \in Order : MarkShipped(o) \/ Notify(o)
OutboxSafe == OutboxInit /\ [][OutboxNext]_outboxVars
=============================================================================
