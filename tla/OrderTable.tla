------------------------------ MODULE OrderTable ------------------------------
(***************************************************************************)
(* saga_orders as the ingest and the claim loops share it.  Coarser than   *)
(* SagaStore: an order is not there yet, PENDING, IN_PROGRESS (which       *)
(* stands for COMPENSATING too, since a claim keeps either) or ENDED,      *)
(* which a person may undo for an order that NEEDS_ATTENTION.              *)
(* Finer in time: the row locks of a transaction are held over its         *)
(* statements.  Orders are numbered by their first row in the file, which  *)
(* is how AUTO_INCREMENT numbers them as well, whoever loads it.           *)
(***************************************************************************)
EXTENDS Naturals, FiniteSets

CONSTANTS
  LastId,  \* orders 1..LastId
  Worker,  \* coordinator processes
  Loader,  \* runs of the ingest command, each with its own batchId
  Nobody   \* NULL in lease_owner; a row no transaction has locked

ASSUME TableAssumption ==
  LastId \in Nat /\ Nobody \notin Worker /\ Nobody \notin Loader

Order == 1..LastId

VARIABLES
  status,     \* saga_orders.status, "absent" before the INSERT
  source,     \* saga_orders.source_batch
  leaseOwner, \* saga_orders.lease_owner
  lease,      \* saga_orders.lease_expires_at: NULL, still ahead, or past
  lock        \* the process whose transaction has the row locked

tableVars == <<status, source, leaseOwner, lease, lock>>

TableTypeOK ==
  /\ status \in [Order -> {"absent", "PENDING", "IN_PROGRESS", "ENDED"}]
  /\ source \in [Order -> Loader \cup {Nobody}]
  /\ leaseOwner \in [Order -> Worker \cup {Nobody}]
  /\ lease \in [Order -> {"null", "live", "expired"}]
  /\ lock \in [Order -> Worker \cup {Nobody}]
  /\ \A o \in Order :
       /\ status[o] = "absent" <=> source[o] = Nobody
       /\ status[o] = "IN_PROGRESS" <=> leaseOwner[o] # Nobody
       /\ status[o] = "IN_PROGRESS" <=> lease[o] # "null"

TableInit ==
  /\ status = [o \in Order |-> "absent"] /\ source = [o \in Order |-> Nobody]
  /\ leaseOwner = [o \in Order |-> Nobody] /\ lease = [o \in Order |-> "null"]
  /\ lock = [o \in Order |-> Nobody]

Missing(rows) == {o \in rows : status[o] = "absent"}

(* A slip of claimBatch: what a dead process left is never claimed.        *)
ClaimableFresh(o) == status[o] = "PENDING"

Claimable(o) == status[o] = "PENDING" \/ (status[o] = "IN_PROGRESS" /\ lease[o] = "expired")

(* flush: INSERT IGNORE under UNIQUE(order_id).  A duplicate is compared   *)
(* under a lock on the row that is there, so it waits for a claim of it.   *)
InsertIgnore(p, rows) ==
  /\ \A o \in rows : lock[o] = Nobody
  /\ status' = [o \in Order |-> IF o \in Missing(rows) THEN "PENDING" ELSE status[o]]
  /\ source' = [o \in Order |-> IF o \in Missing(rows) THEN p ELSE source[o]]
  /\ UNCHANGED <<leaseOwner, lease, lock>>

Locked(w) == {o \in Order : lock[o] = w}
Unlock(w) == lock' = [o \in Order |-> IF lock[o] = w THEN Nobody ELSE lock[o]]

(* claimBatch, its UPDATE and COMMIT.                                      *)
StampLease(w, rows) ==
  /\ status' = [o \in Order |-> IF o \in rows THEN "IN_PROGRESS" ELSE status[o]]
  /\ leaseOwner' = [o \in Order |-> IF o \in rows THEN w ELSE leaseOwner[o]]
  /\ lease' = [o \in Order |-> IF o \in rows THEN "live" ELSE lease[o]]
  /\ Unlock(w)
  /\ UNCHANGED source

(* What the saga does to the row it drives: each statement waits for the   *)
(* row's lock and is fenced on lease_owner.                                *)
Heartbeat(w, o) ==
  /\ lock[o] = Nobody /\ leaseOwner[o] = w
  /\ lease' = [lease EXCEPT ![o] = "live"]
  /\ UNCHANGED <<status, source, leaseOwner, lock>>

(* A slip of setOrderStatus: no fence on lease_owner.                      *)
EndOrderUnfenced(w, o) ==
  /\ lock[o] = Nobody
  /\ status' = [status EXCEPT ![o] = "ENDED"]
  /\ leaseOwner' = [leaseOwner EXCEPT ![o] = Nobody]
  /\ lease' = [lease EXCEPT ![o] = "null"]
  /\ UNCHANGED <<source, lock>>

EndOrder(w, o) ==
  /\ lock[o] = Nobody
  /\ IF leaseOwner[o] = w
     THEN /\ status' = [status EXCEPT ![o] = "ENDED"]
          /\ leaseOwner' = [leaseOwner EXCEPT ![o] = Nobody]
          /\ lease' = [lease EXCEPT ![o] = "null"]
     ELSE UNCHANGED <<status, leaseOwner, lease>>
  /\ UNCHANGED <<source, lock>>

(* claimForRetry: a person has an order that needs attention taken up      *)
(* again.  Its guard on the status lets one of two clicks through.         *)
TakeUp(w, o) ==
  /\ lock[o] = Nobody /\ status[o] = "ENDED"
  /\ status' = [status EXCEPT ![o] = "IN_PROGRESS"]
  /\ leaseOwner' = [leaseOwner EXCEPT ![o] = w]
  /\ lease' = [lease EXCEPT ![o] = "live"]
  /\ UNCHANGED <<source, lock>>

LeaseLapses(o) ==
  /\ lease[o] = "live"
  /\ lease' = [lease EXCEPT ![o] = "expired"]
  /\ UNCHANGED <<status, source, leaseOwner, lock>>
=============================================================================
