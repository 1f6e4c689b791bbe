--------------------------- MODULE InventoryLedger ---------------------------
(***************************************************************************)
(* The inventory service's transactions, statement by statement, with the  *)
(* row locks InnoDB takes for them: RESERVE_INVENTORY locks the SKU and    *)
(* then the reservation, RELEASE_INVENTORY the other way round.  Requests  *)
(* may be repeated, late or concurrent in any way: nothing is assumed of   *)
(* the idempotency records here.  seed.ts writes beside them.              *)
(***************************************************************************)
EXTENDS Inventory

CONSTANTS
  Request,  \* connections running one of the two handlers
  NoOne     \* holder of a free lock

ASSUME LedgerAssumption == NoOne \notin Request

VARIABLES
  available, reserved, reservation,  \* the tables, uncommitted changes included
  writtenOff,                        \* history, as in Stockroom
  phase,     \* the statement a connection runs next
  order,     \* the order it is about
  skuLock,   \* row lock on inventory
  orderLock  \* row (or gap) lock on reservations

tableVars == <<available, reserved, reservation, writtenOff>>
lockVars  == <<skuLock, orderLock>>
vars == <<tableVars, phase, order, lockVars>>

Phase == {"idle", "take", "insert", "reserved", "flip", "giveback", "released", "nothing"}
SkuBy(r) == SkuOf[order[r]]

LedgerTypeOK ==
  /\ available \in [Sku -> Nat] /\ reserved \in [Sku -> Int] /\ writtenOff \in [Sku -> Nat]
  /\ reservation \in [Order -> {"none", "RESERVED", "RELEASED"}]
  /\ phase \in [Request -> Phase] /\ order \in [Request -> Order]
  /\ skuLock \in [Sku -> Request \cup {NoOne}]
  /\ orderLock \in [Order -> Request \cup {NoOne}]

LedgerInit ==
  /\ available = Stock /\ reserved = [k \in Sku |-> 0]
  /\ reservation = [o \in Order |-> "none"] /\ writtenOff = [k \in Sku |-> 0]
  /\ phase = [r \in Request |-> "idle"] /\ order \in [Request -> Order]
  /\ skuLock = [k \in Sku |-> NoOne] /\ orderLock = [o \in Order |-> NoOne]

Goto(r, where) == phase' = [phase EXCEPT ![r] = where]
CanLockSku(r)   == skuLock[SkuBy(r)] \in {NoOne, r}
CanLockOrder(r) == orderLock[order[r]] \in {NoOne, r}
LockSku(r)   == skuLock' = [skuLock EXCEPT ![SkuBy(r)] = r]
LockOrder(r) == orderLock' = [orderLock EXCEPT ![order[r]] = r]
Unlock(r) ==
  /\ skuLock' = [k \in Sku |-> IF skuLock[k] = r THEN NoOne ELSE skuLock[k]]
  /\ orderLock' = [o \in Order |-> IF orderLock[o] = r THEN NoOne ELSE orderLock[o]]

MoveToReserved(k, n) ==
  /\ available' = [available EXCEPT ![k] = @ - n]
  /\ reserved' = [reserved EXCEPT ![k] = @ + n]

-----------------------------------------------------------------------------
(* What the database shows once every open transaction is rolled back: the *)
(* committed state, which is Stockroom's.                                  *)
Uncommitted(k) ==
  LET r == skuLock[k] IN
  IF r = NoOne THEN 0
  ELSE IF phase[r] \in {"insert", "reserved"} THEN Qty[order[r]]
  ELSE IF phase[r] = "released" THEN -Qty[order[r]] ELSE 0
CommittedStatus(o) ==
  LET r == orderLock[o] IN
  IF r = NoOne THEN reservation[o]
  ELSE IF phase[r] = "reserved" THEN "none"
  ELSE IF phase[r] \in {"giveback", "released"} THEN "RESERVED" ELSE reservation[o]

Room == INSTANCE Stockroom WITH
  available   <- [k \in Sku |-> available[k] + Uncommitted(k)],
  reserved    <- [k \in Sku |-> reserved[k] - Uncommitted(k)],
  reservation <- [o \in Order |-> CommittedStatus(o)]

-----------------------------------------------------------------------------
(* A request arrives, past registerStep and the claim of runIdempotent.    *)
Arrive(r, o, first) ==
  /\ phase[r] = "idle" /\ first \in {"take", "flip"}
  /\ Goto(r, first) /\ order' = [order EXCEPT ![r] = o]
  /\ UNCHANGED <<tableVars, lockVars>>

(* Slips of the decrement: no guard on what is left; no ROLLBACK when too  *)
(* little is, so that the connection keeps the row it locked.              *)
TakeUnguarded(r) ==
  /\ phase[r] = "take" /\ CanLockSku(r)
  /\ MoveToReserved(SkuBy(r), Qty[order[r]])
  /\ LockSku(r) /\ Goto(r, "insert")
  /\ UNCHANGED <<reservation, writtenOff, order, orderLock>>
TakeLeaking(r) ==
  /\ phase[r] = "take" /\ CanLockSku(r) /\ LockSku(r)
  /\ IF available[SkuBy(r)] >= Qty[order[r]]
     THEN MoveToReserved(SkuBy(r), Qty[order[r]]) /\ Goto(r, "insert")
     ELSE Goto(r, "idle") /\ UNCHANGED <<available, reserved>>
  /\ UNCHANGED <<reservation, writtenOff, order, orderLock>>

(* UPDATE inventory ... AND available_qty >= ?: check and decrement in one *)
(* statement.  Too little stock is a BusinessRuleError and rolls back.     *)
Take(r) ==
  /\ phase[r] = "take" /\ CanLockSku(r)
  /\ IF available[SkuBy(r)] >= Qty[order[r]]
     THEN MoveToReserved(SkuBy(r), Qty[order[r]]) /\ LockSku(r) /\ Goto(r, "insert")
     ELSE Goto(r, "idle") /\ UNCHANGED <<available, reserved, skuLock>>
  /\ UNCHANGED <<reservation, writtenOff, order, orderLock>>

(* INSERT INTO reservations; a second row for the order is refused by the  *)
(* unique key, and the decrement is rolled back with it.                   *)
Insert(r) ==
  /\ phase[r] = "insert" /\ CanLockOrder(r)
  /\ IF reservation[order[r]] = "none"
     THEN /\ reservation' = [reservation EXCEPT ![order[r]] = "RESERVED"]
          /\ LockOrder(r) /\ Goto(r, "reserved")
          /\ UNCHANGED <<available, reserved, skuLock>>
     ELSE /\ MoveToReserved(SkuBy(r), -Qty[order[r]])
          /\ Unlock(r) /\ Goto(r, "idle") /\ UNCHANGED reservation
  /\ UNCHANGED <<writtenOff, order>>

(* A slip of the gate: the flip forgets to look at the status.             *)
FlipUngated(r) ==
  /\ phase[r] = "flip" /\ CanLockOrder(r) /\ LockOrder(r)
  /\ IF reservation[order[r]] # "none"
     THEN /\ reservation' = [reservation EXCEPT ![order[r]] = "RELEASED"]
          /\ Goto(r, "giveback")
     ELSE Goto(r, "nothing") /\ UNCHANGED reservation
  /\ UNCHANGED <<available, reserved, writtenOff, order, skuLock>>

(* UPDATE reservations ... AND status = 'RESERVED': the reservation row is *)
(* the gate.  Without one to flip there is nothing to give back.           *)
Flip(r) ==
  /\ phase[r] = "flip" /\ CanLockOrder(r) /\ LockOrder(r)
  /\ IF reservation[order[r]] = "RESERVED"
     THEN /\ reservation' = [reservation EXCEPT ![order[r]] = "RELEASED"]
          /\ Goto(r, "giveback")
     ELSE Goto(r, "nothing") /\ UNCHANGED reservation
  /\ UNCHANGED <<available, reserved, writtenOff, order, skuLock>>

GiveBack(r) ==
  /\ phase[r] = "giveback" /\ CanLockSku(r)
  /\ MoveToReserved(SkuBy(r), -Qty[order[r]])
  /\ LockSku(r) /\ Goto(r, "released")
  /\ UNCHANGED <<reservation, writtenOff, order, orderLock>>

Commit(r) ==
  /\ phase[r] \in {"reserved", "released", "nothing"}
  /\ Unlock(r) /\ Goto(r, "idle")
  /\ UNCHANGED <<tableVars, order>>

(* A slip: a failing handler gives the units back and keeps the row it     *)
(* flipped, as without one transaction around both statements.             *)
RollbackHalf(r) ==
  /\ phase[r] # "idle"
  /\ Unlock(r) /\ Goto(r, "idle")
  /\ UNCHANGED <<tableVars, order>>

(* ROLLBACK: a statement or the commit fails, the process dies, InnoDB     *)
(* picks the connection to break a deadlock.                               *)
Rollback(r) ==
  /\ phase[r] # "idle"
  /\ available' = [k \in Sku |->
       available[k] + (IF skuLock[k] = r THEN Uncommitted(k) ELSE 0)]
  /\ reserved' = [k \in Sku |->
       reserved[k] - (IF skuLock[k] = r THEN Uncommitted(k) ELSE 0)]
  /\ reservation' = [o \in Order |->
       IF orderLock[o] = r THEN CommittedStatus(o) ELSE reservation[o]]
  /\ Unlock(r) /\ Goto(r, "idle")
  /\ UNCHANGED <<writtenOff, order>>

(* seed.ts: one INSERT ... ON DUPLICATE KEY UPDATE per SKU, each its own   *)
(* transaction, waiting for the row like any other.                        *)
SeedRow(k) ==
  /\ skuLock[k] = NoOne
  /\ available' = [available EXCEPT ![k] = Stock[k]]
  /\ reserved' = [reserved EXCEPT ![k] = 0]
  /\ writtenOff' = [writtenOff EXCEPT ![k] = Room!Owed(k)]
  /\ UNCHANGED <<reservation, phase, order, lockVars>>

-----------------------------------------------------------------------------
Statement(r) == Take(r) \/ Insert(r) \/ Flip(r) \/ GiveBack(r) \/ Commit(r)

LedgerNext ==
  \/ \E r \in Request :
       \/ \E o \in Order, first \in {"take", "flip"} : Arrive(r, o, first)
       \/ Statement(r) \/ Rollback(r)
  \/ \E k \in Sku : SeedRow(k)

LedgerSpec == LedgerInit /\ [][LedgerNext]_vars

(* Two connections wait for each other's lock, both ways round.            *)
Deadlocked(r) ==
  /\ phase[r] = "insert" /\ ~CanLockOrder(r)
  /\ LET q == orderLock[order[r]] IN
     phase[q] = "giveback" /\ skuLock[SkuBy(q)] = r

(* A connection goes on; InnoDB grants a row lock in the order it was      *)
(* asked for, and its deadlock detection rolls one of two victims back.    *)
LedgerFairness ==
  \A r \in Request :
    /\ SF_vars(Statement(r))
    /\ WF_vars(Deadlocked(r) /\ Rollback(r))
FairLedger == LedgerSpec /\ LedgerFairness

-----------------------------------------------------------------------------
(* Whatever is half done, the committed tables agree with one another      *)
(* (both handlers, and the transaction runIdempotent puts around them).    *)
ReservedBacked == Room!ReservedBacked

(* No unit is promised to two orders, short of reseeding (the guarded      *)
(* decrement).                                                             *)
NeverOversold == Room!NeverOversold

(* The transactions are indivisible to one another: the service implements *)
(* Stockroom (row locks, rollback on every error).                         *)
ActsAtomically == Room!RoomSpec

(* No connection waits for ever: every transaction commits or rolls back,  *)
(* although the two handlers lock in opposite orders.                      *)
EveryTransactionEnds == \A r \in Request : phase[r] # "idle" ~> phase[r] = "idle"

(* However many connections wait in a ring for each other's rows, two of   *)
(* them wait for one another directly: breaking the pairs, as Deadlocked   *)
(* has it, breaks every ring (one SKU and one order per transaction).      *)
Waits(r) ==
  \/ phase[r] \in {"take", "giveback"} /\ ~CanLockSku(r)
  \/ phase[r] \in {"insert", "flip"} /\ ~CanLockOrder(r)
Holder(r) == IF phase[r] \in {"take", "giveback"} THEN skuLock[SkuBy(r)] ELSE orderLock[order[r]]
RingsArePairs ==
  \A ring \in (SUBSET Request) \ {{}} :
    (\A r \in ring : Waits(r) /\ Holder(r) \in ring) => \E r \in ring : Deadlocked(r)

(* Inductive strengthening: a connection holds the locks its phase says,   *)
(* and what it changed so far is in the tables.                            *)
LockInv ==
  /\ \A r \in Request :
       /\ phase[r] \in {"insert", "reserved", "released"} => skuLock[SkuBy(r)] = r
       /\ phase[r] \in {"reserved", "giveback", "released", "nothing"} => orderLock[order[r]] = r
       /\ phase[r] = "reserved" => reservation[order[r]] = "RESERVED"
       /\ phase[r] \in {"giveback", "released"} => reservation[order[r]] = "RELEASED"
  /\ \A k \in Sku : skuLock[k] # NoOne =>
       phase[skuLock[k]] \in {"insert", "reserved", "released"} /\ SkuBy(skuLock[k]) = k
  /\ \A o \in Order : orderLock[o] # NoOne =>
       /\ phase[orderLock[o]] \in {"reserved", "giveback", "released", "nothing"}
       /\ order[orderLock[o]] = o
=============================================================================
