------------------------------ MODULE SagaStore ------------------------------
(***************************************************************************)
(* The coordinator's own schema (db/01-saga.sql) and the SQL statements    *)
(* that change it (repository.ts, queries.ts).  A statement is one atomic  *)
(* operator; whoever runs it takes the step.  Time is abstracted to the    *)
(* only question the SQL asks of it: has lease_expires_at passed?          *)
(***************************************************************************)
EXTENDS SagaTypes

CONSTANTS
  Instance,   \* coordinator processes, each with its own instanceId
  Nobody      \* NULL in lease_owner, fail_at and comp_fail_at

ASSUME NobodyAssumption == Nobody \notin Instance /\ Nobody \notin Service

VARIABLES
  status,     \* saga_orders.status
  leaseOwner, \* saga_orders.lease_owner
  lease,      \* saga_orders.lease_expires_at: NULL, still ahead, or past
  row,        \* saga_steps.status per (order, step); "ABSENT" before the INSERT
  failAt,     \* saga_orders.fail_at, as the service whose do-step it names
  compFailAt  \* saga_orders.comp_fail_at, as the service whose undo-step it names

orderVars == <<status, leaseOwner, lease>>
csvVars   == <<failAt, compFailAt>>
storeVars == <<status, leaseOwner, lease, row, failAt, compFailAt>>

ActiveStatus == {"IN_PROGRESS", "COMPENSATING"}
LeaseState   == {"null", "live", "expired"}

StoreTypeOK ==
  /\ status \in [Order -> OrderStatus]
  /\ leaseOwner \in [Order -> Instance \cup {Nobody}]
  /\ lease \in [Order -> LeaseState]
  /\ row \in [Order -> [Step -> RowStatus \cup {"ABSENT"}]]
  /\ failAt \in [Order -> Service \cup {Nobody}]
  /\ compFailAt \in [Order -> Service \cup {Nobody}]

(* Every order has been ingested and none has been claimed yet.            *)
StoreInit ==
  /\ status = [o \in Order |-> "PENDING"]
  /\ leaseOwner = [o \in Order |-> Nobody]
  /\ lease = [o \in Order |-> "null"]
  /\ row = [o \in Order |-> [st \in Step |-> "ABSENT"]]
  /\ failAt \in [Order -> Service \cup {Nobody}]
  /\ compFailAt \in [Order -> Service \cup {Nobody}]

-----------------------------------------------------------------------------
(* Slips of claimBatch the runs must notice: any active order claimable,   *)
(* a crashed rollback never claimable, a rollback claimed as a fresh run.  *)
ClaimableAnyLease(o) == status[o] \in ActiveStatus \cup {"PENDING"}
ClaimableForward(o) ==
  status[o] = "PENDING" \/ (status[o] = "IN_PROGRESS" /\ lease[o] = "expired")

Claimable(o) ==
  \/ status[o] = "PENDING"
  \/ status[o] \in ActiveStatus /\ lease[o] = "expired"

ClaimRowsForward(i, batch) ==
  /\ \A o \in batch : Claimable(o)
  /\ status' = [o \in Order |-> IF o \in batch THEN "IN_PROGRESS" ELSE status[o]]
  /\ leaseOwner' = [o \in Order |-> IF o \in batch THEN i ELSE leaseOwner[o]]
  /\ lease' = [o \in Order |-> IF o \in batch THEN "live" ELSE lease[o]]
  /\ UNCHANGED <<row, csvVars>>

(* claimBatch: the WHERE clause (above), and the UPDATE that stamps the    *)
(* lease.  A NULL lease_expires_at never compares less than NOW(3).        *)
ClaimRows(i, batch) ==
  /\ \A o \in batch : Claimable(o)
  /\ status' = [o \in Order |->
       IF o \in batch /\ status[o] # "COMPENSATING" THEN "IN_PROGRESS" ELSE status[o]]
  /\ leaseOwner' = [o \in Order |-> IF o \in batch THEN i ELSE leaseOwner[o]]
  /\ lease' = [o \in Order |-> IF o \in batch THEN "live" ELSE lease[o]]
  /\ UNCHANGED <<row, csvVars>>

(* renewLease succeeds for the owner only, and revives a lapsed lease that *)
(* nobody has claimed meanwhile.                                           *)
RenewLease(i, o) ==
  /\ leaseOwner[o] = i
  /\ lease' = [lease EXCEPT ![o] = "live"]
  /\ UNCHANGED <<status, leaseOwner, row, csvVars>>

(* Slips of setOrderStatus: no fence; the text "null" for NULL.            *)
SetOrderStatusUnfenced(i, o, new, clearLease) ==
  /\ status' = [status EXCEPT ![o] = new]
  /\ leaseOwner' = [leaseOwner EXCEPT ![o] = IF clearLease THEN Nobody ELSE @]
  /\ lease' = [lease EXCEPT ![o] = IF clearLease THEN "null" ELSE @]

SetOrderStatusTextNull(i, o, new, clearLease) ==
  IF leaseOwner[o] = i
  THEN /\ status' = [status EXCEPT ![o] = new]
       /\ leaseOwner' = [leaseOwner EXCEPT ![o] = IF clearLease THEN "null" ELSE @]
       /\ lease' = [lease EXCEPT ![o] = IF clearLease THEN "null" ELSE @]
  ELSE UNCHANGED orderVars

(* setOrderStatus: fenced on lease_owner.  A caller that no longer owns    *)
(* the lease matches zero rows; no caller looks at the result.             *)
SetOrderStatus(i, o, new, clearLease) ==
  IF leaseOwner[o] = i
  THEN /\ status' = [status EXCEPT ![o] = new]
       /\ leaseOwner' = [leaseOwner EXCEPT ![o] = IF clearLease THEN Nobody ELSE @]
       /\ lease' = [lease EXCEPT ![o] = IF clearLease THEN "null" ELSE @]
  ELSE UNCHANGED orderVars

(* initSteps: create the rows, re-arm every one that has not SUCCEEDED.    *)
(* Its value is the order's rows after the statement.                      *)
InitSteps(o, steps) ==
  [st \in Step |->
     IF st \in steps /\ row[o][st] # "SUCCEEDED" THEN "PENDING" ELSE row[o][st]]

MarkStepRunning(o, st) ==
  row' = [row EXCEPT ![o][st] = IF @ = "SUCCEEDED" THEN @ ELSE "RUNNING"]

(* markStepResult overwrites whatever is there, for any caller.            *)
MarkStepResult(o, st, result) ==
  row' = [row EXCEPT ![o][st] = result]

(* getSucceededForwardSteps, by service; a slip would undo whatever was    *)
(* tried.                                                                  *)
AttemptedForward(o) == {s \in Service : row[o][Do(s)] \notin {"ABSENT", "PENDING"}}
SucceededForward(o) == {s \in Service : row[o][Do(s)] = "SUCCEEDED"}

(* claimForRetry: the UI's Retry button, guarded on NEEDS_ATTENTION.       *)
ClaimForRetry(i, o) ==
  /\ status[o] = "NEEDS_ATTENTION"
  /\ status' = [status EXCEPT ![o] = "COMPENSATING"]
  /\ leaseOwner' = [leaseOwner EXCEPT ![o] = i]
  /\ lease' = [lease EXCEPT ![o] = "live"]
  /\ UNCHANGED <<row, csvVars>>

(* markShipped: a person, and only from PLACED.                            *)
MarkShipped(o) ==
  /\ status[o] = "PLACED"
  /\ status' = [status EXCEPT ![o] = "SHIPPED"]
  /\ UNCHANGED <<leaseOwner, lease, row, csvVars>>

(* lease_expires_at passes.                                                *)
LeaseLapses(o) ==
  /\ lease[o] = "live"
  /\ lease' = [lease EXCEPT ![o] = "expired"]
  /\ UNCHANGED <<status, leaseOwner, row, csvVars>>
=============================================================================
