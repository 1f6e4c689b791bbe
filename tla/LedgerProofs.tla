----------------------------- MODULE LedgerProofs -----------------------------
(***************************************************************************)
(* For any number of orders, SKUs and connections: the inventory's         *)
(* transactions are typed, hold the locks their statements took, and       *)
(* implement Stockroom; so what StockroomProofs shows of a stockroom is    *)
(* true of the committed tables.                                           *)
(***************************************************************************)
EXTENDS InventoryLedger, TLAPS

LEMMA Constants ==
  /\ NoOne \notin Request
  /\ SkuOf \in [Order -> Sku] /\ Qty \in [Order -> Nat \ {0}] /\ Stock \in [Sku -> Nat]
BY LedgerAssumption, StockAssumption

(* The committed tables, as Stockroom's variables.                         *)
Available == [k \in Sku |-> available[k] + Uncommitted(k)]
Reserved  == [k \in Sku |-> reserved[k] - Uncommitted(k)]
Status    == [o \in Order |-> CommittedStatus(o)]

(* Stockroom again, with what is proved of it.                             *)
Shown == INSTANCE StockroomProofs WITH
  available <- Available, reserved <- Reserved, reservation <- Status

LEMMA ShownAssumption == Shown!StockAssumption
<1>1. IsFiniteSet(Order) => Shown!IsFiniteSet(Order)
  BY DEF IsFiniteSet, Shown!IsFiniteSet
<1> QED
  BY <1>1, StockAssumption DEF Shown!StockAssumption

LEMMA SameOwed == ASSUME NEW k PROVE Room!Owed(k) = Shown!Owed(k) /\ Shown!Owed(k) \in Nat
<1>1. Shown!Owed(k) \in Nat
  BY Shown!OwedUnits, ShownAssumption
<1> QED
  BY <1>1 DEF Room!Owed, Shown!Owed, Room!Holding, Shown!Holding, Room!UnitsOf, Shown!UnitsOf,
              Room!Cardinality, Shown!Cardinality, Status

LEMMA SameRoom ==
  /\ Room!RoomInit <=> Shown!RoomInit
  /\ [Room!RoomNext]_(Room!roomVars) => [Shown!RoomNext]_(Shown!roomVars)
BY SameOwed DEF Room!RoomInit, Room!RoomNext, Room!roomVars, Room!Reserve, Room!Release, Room!Reseed,
                Shown!RoomInit, Shown!RoomNext, Shown!roomVars, Shown!Reserve, Shown!Release,
                Shown!Reseed, Available, Reserved, Status

-----------------------------------------------------------------------------
(* Inductive: types, locks, and what is free never runs below zero even    *)
(* when every open transaction is rolled back.                             *)
LedgerInv ==
  /\ LedgerTypeOK /\ LockInv
  /\ \A k \in Sku : available[k] + Uncommitted(k) >= 0

LEMMA SkuByType ==
  ASSUME LedgerTypeOK, NEW r \in Request
  PROVE  order[r] \in Order /\ SkuBy(r) \in Sku /\ Qty[order[r]] \in Nat /\ Qty[order[r]] > 0
BY Constants DEF LedgerTypeOK, SkuBy

(* Before its first statement a connection holds no lock.                  *)
LEMMA HoldsNothing ==
  ASSUME LedgerTypeOK, LockInv, NEW r \in Request, phase[r] \in {"idle", "take", "flip"}
  PROVE  (\A k \in Sku : skuLock[k] # r) /\ (\A o \in Order : orderLock[o] # r)
BY Constants DEF LedgerTypeOK, LockInv

LEMMA UncommittedType ==
  ASSUME LedgerTypeOK, NEW k \in Sku
  PROVE  Uncommitted(k) \in Int
BY Constants DEF LedgerTypeOK, Uncommitted

(* What one step does to the types and locks, and to the committed tables. *)
Unseen == UNCHANGED <<Available, Reserved, Status, writtenOff>>

LEMMA ArriveStep ==
  ASSUME LedgerInv, NEW r \in Request, NEW o \in Order, NEW first, Arrive(r, o, first)
  PROVE  LedgerTypeOK' /\ LockInv' /\ Unseen
<1> USE DEF LedgerInv, Arrive, Goto, tableVars, lockVars
<1>1. (\A k \in Sku : skuLock[k] # r) /\ (\A p \in Order : orderLock[p] # r)
  BY HoldsNothing
<1>2. LedgerTypeOK'
  BY DEF LedgerTypeOK, Phase
<1>3. LockInv'
  BY <1>1, Constants DEF LedgerTypeOK, LockInv, SkuBy
<1>4. \A k \in Sku : Uncommitted(k)' = Uncommitted(k)
  BY <1>1 DEF LedgerTypeOK, Uncommitted
<1>5. \A p \in Order : CommittedStatus(p)' = CommittedStatus(p)
  BY <1>1 DEF LedgerTypeOK, CommittedStatus
<1> QED
  BY <1>2, <1>3, <1>4, <1>5 DEF Unseen, Available, Reserved, Status

LEMMA TakeStep ==
  ASSUME LedgerInv, NEW r \in Request, Take(r)
  PROVE  LedgerTypeOK' /\ LockInv' /\ Unseen
<1>1. PICK s \in Sku, q \in Nat : s = SkuBy(r) /\ q = Qty[order[r]] /\ q > 0
  BY SkuByType DEF LedgerInv
<1>2. /\ phase[r] = "take" /\ skuLock[s] = NoOne
      /\ \A k \in Sku : skuLock[k] # r
      /\ \A p \in Order : orderLock[p] # r
  BY <1>1, HoldsNothing DEF Take, CanLockSku, LedgerInv
<1>3. CASE available[s] >= q
  <2>1. /\ available' = [available EXCEPT ![s] = @ - q] /\ reserved' = [reserved EXCEPT ![s] = @ + q]
        /\ skuLock' = [skuLock EXCEPT ![s] = r] /\ phase' = [phase EXCEPT ![r] = "insert"]
        /\ UNCHANGED <<reservation, writtenOff, order, orderLock>>
    BY <1>1, <1>3 DEF Take, MoveToReserved, LockSku, Goto
  <2>2. LedgerTypeOK'
    BY <1>1, <1>3, <2>1 DEF LedgerInv, LedgerTypeOK, Phase
  <2>3. LockInv'
    BY <1>1, <1>2, <2>1, Constants DEF LedgerInv, LedgerTypeOK, LockInv, SkuBy
  <2>4. Uncommitted(s)' = q /\ Uncommitted(s) = 0
    BY <1>1, <1>2, <2>1, Constants DEF LedgerInv, LedgerTypeOK, Uncommitted
  <2>5. \A k \in Sku \ {s} : Uncommitted(k)' = Uncommitted(k)
    BY <1>2, <2>1 DEF LedgerInv, LedgerTypeOK, Uncommitted
  <2>6. UNCHANGED <<Available, Reserved>>
    BY <1>1, <2>1, <2>4, <2>5 DEF LedgerInv, LedgerTypeOK, Available, Reserved
  <2>7. UNCHANGED Status
    BY <1>2, <2>1 DEF LedgerInv, LedgerTypeOK, CommittedStatus, Status
  <2> QED
    BY <2>1, <2>2, <2>3, <2>6, <2>7 DEF Unseen
<1>4. CASE ~(available[s] >= q)
  <2>1. phase' = [phase EXCEPT ![r] = "idle"]
        /\ UNCHANGED <<available, reserved, skuLock, reservation, writtenOff, order, orderLock>>
    BY <1>1, <1>4 DEF Take, Goto
  <2>2. LedgerTypeOK' /\ LockInv'
    BY <1>2, <2>1, Constants DEF LedgerInv, LedgerTypeOK, Phase, LockInv, SkuBy
  <2>3. \A k \in Sku : Uncommitted(k)' = Uncommitted(k)
    BY <1>2, <2>1 DEF LedgerInv, LedgerTypeOK, Uncommitted
  <2>4. \A p \in Order : CommittedStatus(p)' = CommittedStatus(p)
    BY <1>2, <2>1 DEF LedgerInv, LedgerTypeOK, CommittedStatus
  <2> QED
    BY <2>1, <2>2, <2>3, <2>4 DEF Unseen, Available, Reserved, Status
<1> QED
  BY <1>3, <1>4

(* A rollback takes back exactly what the committed tables never showed.   *)
LEMMA RollbackStep ==
  ASSUME LedgerInv, NEW r \in Request, Rollback(r)
  PROVE  LedgerTypeOK' /\ LockInv' /\ Unseen
<1>1. /\ phase' = [phase EXCEPT ![r] = "idle"] /\ UNCHANGED <<writtenOff, order>>
      /\ skuLock' = [k \in Sku |-> IF skuLock[k] = r THEN NoOne ELSE skuLock[k]]
      /\ orderLock' = [o \in Order |-> IF orderLock[o] = r THEN NoOne ELSE orderLock[o]]
      /\ \A k \in Sku : /\ available'[k] = available[k] + (IF skuLock[k] = r THEN Uncommitted(k) ELSE 0)
                        /\ reserved'[k] = reserved[k] - (IF skuLock[k] = r THEN Uncommitted(k) ELSE 0)
      /\ reservation' = [o \in Order |->
           IF orderLock[o] = r THEN CommittedStatus(o) ELSE reservation[o]]
      /\ available' = [k \in Sku |-> available'[k]] /\ reserved' = [k \in Sku |-> reserved'[k]]
  BY DEF Rollback, Unlock, Goto
<1>2. \A k \in Sku : /\ Uncommitted(k) \in Int
                     /\ available[k] \in Nat /\ reserved[k] \in Int /\ available[k] + Uncommitted(k) >= 0
  BY UncommittedType DEF LedgerInv, LedgerTypeOK
<1>3. LedgerTypeOK'
  <2>1. \A k \in Sku : available'[k] \in Nat /\ reserved'[k] \in Int
    BY <1>1, <1>2
  <2>2. available' \in [Sku -> Nat] /\ reserved' \in [Sku -> Int]
    BY <1>1, <2>1
  <2>3. reservation' \in [Order -> {"none", "RESERVED", "RELEASED"}]
    BY <1>1 DEF LedgerInv, LedgerTypeOK, CommittedStatus
  <2> QED
    BY <1>1, <2>2, <2>3 DEF LedgerInv, LedgerTypeOK, Phase
<1>4. LockInv'
  BY <1>1, Constants DEF LedgerInv, LedgerTypeOK, LockInv, SkuBy
<1>5. \A k \in Sku : Uncommitted(k)' = IF skuLock[k] = r THEN 0 ELSE Uncommitted(k)
  BY <1>1, Constants DEF LedgerInv, LedgerTypeOK, Uncommitted
<1>6. UNCHANGED <<Available, Reserved>>
  <2>1. \A k \in Sku : /\ available'[k] + Uncommitted(k)' = available[k] + Uncommitted(k)
                       /\ reserved'[k] - Uncommitted(k)' = reserved[k] - Uncommitted(k)
    BY <1>1, <1>2, <1>5
  <2> QED
    BY <2>1 DEF Available, Reserved
<1>7. UNCHANGED Status
  <2>1. \A o \in Order : CommittedStatus(o)' = CommittedStatus(o)
    BY <1>1, Constants DEF LedgerInv, LedgerTypeOK, CommittedStatus
  <2> QED
    BY <2>1 DEF Status
<1> QED
  BY <1>1, <1>3, <1>4, <1>6, <1>7 DEF Unseen

LEMMA InsertStep ==
  ASSUME LedgerInv, NEW r \in Request, Insert(r)
  PROVE  LedgerTypeOK' /\ LockInv' /\ Unseen
<1>1. PICK s \in Sku, q \in Nat, o \in Order :
        s = SkuBy(r) /\ o = order[r] /\ q = Qty[o] /\ q > 0
  BY SkuByType DEF LedgerInv
<1>2. /\ phase[r] = "insert" /\ skuLock[s] = r /\ orderLock[o] = NoOne
      /\ \A k \in Sku \ {s} : skuLock[k] # r
      /\ \A p \in Order : orderLock[p] # r
  BY <1>1, Constants DEF Insert, CanLockOrder, LedgerInv, LockInv
<1>3. CASE reservation[o] = "none"
  <2>1. /\ reservation' = [reservation EXCEPT ![o] = "RESERVED"]
        /\ orderLock' = [orderLock EXCEPT ![o] = r] /\ phase' = [phase EXCEPT ![r] = "reserved"]
        /\ UNCHANGED <<available, reserved, skuLock, writtenOff, order>>
    BY <1>1, <1>3 DEF Insert, LockOrder, Goto
  <2>2. LedgerTypeOK'
    BY <1>1, <2>1 DEF LedgerInv, LedgerTypeOK, Phase
  <2>3. LockInv'
    BY <1>1, <1>2, <2>1, Constants DEF LedgerInv, LedgerTypeOK, LockInv, SkuBy
  <2>4. \A k \in Sku : Uncommitted(k)' = Uncommitted(k)
    BY <1>2, <2>1 DEF LedgerInv, LedgerTypeOK, Uncommitted
  <2>5. \A p \in Order : CommittedStatus(p)' = CommittedStatus(p)
    BY <1>1, <1>2, <1>3, <2>1, Constants DEF LedgerInv, LedgerTypeOK, CommittedStatus
  <2> QED
    BY <2>1, <2>2, <2>3, <2>4, <2>5 DEF Unseen, Available, Reserved, Status
<1>4. CASE reservation[o] # "none"
  <2>1. /\ available' = [available EXCEPT ![s] = @ - (-q)] /\ reserved' = [reserved EXCEPT ![s] = @ + (-q)]
        /\ skuLock' = [k \in Sku |-> IF skuLock[k] = r THEN NoOne ELSE skuLock[k]]
        /\ orderLock' = [p \in Order |-> IF orderLock[p] = r THEN NoOne ELSE orderLock[p]]
        /\ phase' = [phase EXCEPT ![r] = "idle"]
        /\ UNCHANGED <<reservation, writtenOff, order>>
    BY <1>1, <1>4 DEF Insert, MoveToReserved, Unlock, Goto
  <2>2. LedgerTypeOK'
    BY <1>1, <2>1 DEF LedgerInv, LedgerTypeOK, Phase
  <2>3. LockInv'
    BY <1>1, <1>2, <2>1, Constants DEF LedgerInv, LedgerTypeOK, LockInv, SkuBy
  <2>4. Uncommitted(s)' = 0 /\ Uncommitted(s) = q
    BY <1>1, <1>2, <2>1, Constants DEF LedgerInv, LedgerTypeOK, Uncommitted
  <2>5. \A k \in Sku \ {s} : Uncommitted(k)' = Uncommitted(k)
    BY <1>2, <2>1 DEF LedgerInv, LedgerTypeOK, Uncommitted
  <2>6. UNCHANGED <<Available, Reserved>>
    BY <1>1, <2>1, <2>4, <2>5 DEF LedgerInv, LedgerTypeOK, Available, Reserved
  <2>7. UNCHANGED Status
    BY <1>2, <2>1 DEF LedgerInv, LedgerTypeOK, CommittedStatus, Status
  <2> QED
    BY <2>1, <2>2, <2>3, <2>6, <2>7 DEF Unseen
<1> QED
  BY <1>3, <1>4

LEMMA FlipStep ==
  ASSUME LedgerInv, NEW r \in Request, Flip(r)
  PROVE  LedgerTypeOK' /\ LockInv' /\ Unseen
<1>1. PICK o \in Order : o = order[r]
  BY SkuByType DEF LedgerInv
<1>2. /\ phase[r] = "flip" /\ orderLock[o] = NoOne
      /\ \A k \in Sku : skuLock[k] # r
      /\ \A p \in Order : orderLock[p] # r
  BY <1>1, HoldsNothing DEF Flip, CanLockOrder, LedgerInv
<1>3. /\ orderLock' = [orderLock EXCEPT ![o] = r]
      /\ \/ /\ reservation[o] = "RESERVED"
            /\ reservation' = [reservation EXCEPT ![o] = "RELEASED"]
            /\ phase' = [phase EXCEPT ![r] = "giveback"]
         \/ phase' = [phase EXCEPT ![r] = "nothing"] /\ UNCHANGED reservation
      /\ UNCHANGED <<available, reserved, skuLock, writtenOff, order>>
  BY <1>1 DEF Flip, LockOrder, Goto
<1>4. LedgerTypeOK'
  BY <1>1, <1>3 DEF LedgerInv, LedgerTypeOK, Phase
<1>5. LockInv'
  BY <1>1, <1>2, <1>3, Constants DEF LedgerInv, LedgerTypeOK, LockInv, SkuBy
<1>6. \A k \in Sku : Uncommitted(k)' = Uncommitted(k)
  BY <1>2, <1>3 DEF LedgerInv, LedgerTypeOK, Uncommitted
<1>7. \A p \in Order : CommittedStatus(p)' = CommittedStatus(p)
  BY <1>1, <1>2, <1>3, Constants DEF LedgerInv, LedgerTypeOK, CommittedStatus
<1> QED
  BY <1>3, <1>4, <1>5, <1>6, <1>7 DEF Unseen, Available, Reserved, Status

LEMMA GiveBackStep ==
  ASSUME LedgerInv, NEW r \in Request, GiveBack(r)
  PROVE  LedgerTypeOK' /\ LockInv' /\ Unseen
<1>1. PICK s \in Sku, q \in Nat : s = SkuBy(r) /\ q = Qty[order[r]] /\ q > 0
  BY SkuByType DEF LedgerInv
<1>2. /\ phase[r] = "giveback" /\ skuLock[s] = NoOne
      /\ \A k \in Sku : skuLock[k] # r
  BY <1>1, Constants DEF GiveBack, CanLockSku, LedgerInv, LockInv
<1>3. /\ available' = [available EXCEPT ![s] = @ - (-q)] /\ reserved' = [reserved EXCEPT ![s] = @ + (-q)]
      /\ skuLock' = [skuLock EXCEPT ![s] = r] /\ phase' = [phase EXCEPT ![r] = "released"]
      /\ UNCHANGED <<reservation, writtenOff, order, orderLock>>
  BY <1>1 DEF GiveBack, MoveToReserved, LockSku, Goto
<1>4. LedgerTypeOK'
  BY <1>1, <1>3 DEF LedgerInv, LedgerTypeOK, Phase
<1>5. LockInv'
  BY <1>1, <1>2, <1>3, Constants DEF LedgerInv, LedgerTypeOK, LockInv, SkuBy
<1>6. Uncommitted(s)' = -q /\ Uncommitted(s) = 0
  BY <1>1, <1>2, <1>3, Constants DEF LedgerInv, LedgerTypeOK, Uncommitted
<1>7. \A k \in Sku \ {s} : Uncommitted(k)' = Uncommitted(k)
  BY <1>2, <1>3 DEF LedgerInv, LedgerTypeOK, Uncommitted
<1>8. UNCHANGED <<Available, Reserved>>
  BY <1>1, <1>3, <1>6, <1>7 DEF LedgerInv, LedgerTypeOK, Available, Reserved
<1>9. UNCHANGED Status
  BY <1>2, <1>3 DEF LedgerInv, LedgerTypeOK, CommittedStatus, Status
<1> QED
  BY <1>3, <1>4, <1>5, <1>8, <1>9 DEF Unseen

(* A commit shows at once what the transaction did: a reservation, a       *)
(* release, or nothing.                                                    *)
LEMMA CommitStep ==
  ASSUME LedgerInv, NEW r \in Request, Commit(r)
  PROVE  /\ LedgerTypeOK' /\ LockInv'
         /\ \/ Unseen
            \/ \E o \in Order : Room!Reserve(o) \/ Room!Release(o)
         /\ \A k \in Sku : available'[k] + Uncommitted(k)' >= 0
<1>1. PICK s \in Sku, q \in Nat, o \in Order :
        s = SkuBy(r) /\ s = SkuOf[o] /\ o = order[r] /\ q = Qty[o] /\ q > 0
  BY SkuByType DEF LedgerInv, SkuBy
<1>2. /\ phase[r] \in {"reserved", "released", "nothing"}
      /\ skuLock' = [k \in Sku |-> IF skuLock[k] = r THEN NoOne ELSE skuLock[k]]
      /\ orderLock' = [p \in Order |-> IF orderLock[p] = r THEN NoOne ELSE orderLock[p]]
      /\ phase' = [phase EXCEPT ![r] = "idle"]
      /\ UNCHANGED <<available, reserved, reservation, writtenOff, order>>
  BY DEF Commit, Unlock, Goto, tableVars
<1>3. /\ orderLock[o] = r
      /\ \A k \in Sku \ {s} : skuLock[k] # r
      /\ \A p \in Order \ {o} : orderLock[p] # r
  <2>1. LockInv /\ r # NoOne /\ phase[r] \in {"reserved", "released", "nothing"}
    BY <1>2, Constants DEF LedgerInv
  <2>2. orderLock[o] = r
    BY <1>1, <2>1 DEF LockInv
  <2>3. \A k \in Sku : skuLock[k] = r => SkuBy(r) = k
    BY <2>1 DEF LockInv
  <2>4. \A p \in Order : orderLock[p] = r => order[r] = p
    BY <2>1 DEF LockInv
  <2> QED
    BY <1>1, <2>2, <2>3, <2>4
<1>4. LedgerTypeOK'
  BY <1>2 DEF LedgerInv, LedgerTypeOK, Phase
<1>5. LockInv'
  BY <1>2, Constants DEF LedgerInv, LedgerTypeOK, LockInv, SkuBy
<1>6. \A k \in Sku \ {s} : Uncommitted(k)' = Uncommitted(k)
  BY <1>2, <1>3 DEF LedgerInv, LedgerTypeOK, Uncommitted
<1>7. \A p \in Order \ {o} : CommittedStatus(p)' = CommittedStatus(p)
  BY <1>2, <1>3 DEF LedgerInv, LedgerTypeOK, CommittedStatus
<1>8. CommittedStatus(o)' = reservation[o]
  BY <1>2, <1>3 DEF CommittedStatus
<1>9. CASE phase[r] = "nothing"
  <2>1. CommittedStatus(o) = reservation[o]
    BY <1>3, <1>9, Constants DEF CommittedStatus
  <2>2. \A k \in Sku : skuLock[k] # r
    BY <1>9, Constants DEF LedgerInv, LockInv
  <2>3. Uncommitted(s)' = Uncommitted(s)
    BY <1>1, <1>2, <2>2 DEF LedgerInv, LedgerTypeOK, Uncommitted
  <2>4. Unseen
    <3>1. \A k \in Sku : Uncommitted(k)' = Uncommitted(k)
      BY <1>6, <2>3
    <3>2. \A p \in Order : CommittedStatus(p)' = CommittedStatus(p)
      BY <1>7, <1>8, <2>1
    <3> QED
      BY <1>2, <3>1, <3>2 DEF Unseen, Available, Reserved, Status
  <2>5. \A k \in Sku : available'[k] + Uncommitted(k)' >= 0
    BY <1>2, <1>6, <2>3 DEF LedgerInv
  <2> QED
    BY <1>4, <1>5, <2>4, <2>5
<1>10. CASE phase[r] = "reserved"
  <2>1. skuLock[s] = r /\ reservation[o] = "RESERVED"
    <3>1. LockInv
      BY DEF LedgerInv
    <3>2. skuLock[SkuBy(r)] = r /\ reservation[order[r]] = "RESERVED"
      BY <1>10, <3>1 DEF LockInv
    <3> QED
      BY <1>1, <3>2
  <2>2. Uncommitted(s) = q /\ Uncommitted(s)' = 0
    BY <1>1, <1>2, <1>10, <2>1, Constants DEF LedgerInv, LedgerTypeOK, Uncommitted
  <2>3. CommittedStatus(o) = "none"
    BY <1>3, <1>10, Constants DEF CommittedStatus
  <2>4. available[s] \in Nat /\ reserved[s] \in Int
    BY DEF LedgerInv, LedgerTypeOK
  <2>5. Available' = [Available EXCEPT ![s] = @ - q]
    <3>1. \A k \in Sku : available'[k] + Uncommitted(k)' =
            IF k = s THEN (available[s] + Uncommitted(s)) - q ELSE available[k] + Uncommitted(k)
      BY <1>2, <1>6, <2>2, <2>4
    <3> QED
      BY <3>1 DEF Available
  <2>6. Reserved' = [Reserved EXCEPT ![s] = @ + q]
    <3>1. \A k \in Sku : reserved'[k] - Uncommitted(k)' =
            IF k = s THEN (reserved[s] - Uncommitted(s)) + q ELSE reserved[k] - Uncommitted(k)
      BY <1>2, <1>6, <2>2, <2>4
    <3> QED
      BY <3>1 DEF Reserved
  <2>7. Status' = [Status EXCEPT ![o] = "RESERVED"]
    BY <1>7, <1>8, <2>1 DEF Status
  <2>8. Status[o] = "none" /\ Available[s] >= q
    BY <2>2, <2>3, <2>4 DEF Status, Available
  <2>9. Room!Reserve(o)
    BY <1>1, <1>2, <2>5, <2>6, <2>7, <2>8 DEF Room!Reserve, Available, Reserved, Status
  <2>10. \A k \in Sku : available'[k] + Uncommitted(k)' >= 0
    BY <1>2, <1>6, <2>2, <2>4 DEF LedgerInv
  <2> QED
    BY <1>4, <1>5, <2>9, <2>10
<1>11. CASE phase[r] = "released"
  <2>1. skuLock[s] = r /\ reservation[o] = "RELEASED"
    <3>1. LockInv
      BY DEF LedgerInv
    <3>2. skuLock[SkuBy(r)] = r /\ reservation[order[r]] = "RELEASED"
      BY <1>11, <3>1 DEF LockInv
    <3> QED
      BY <1>1, <3>2
  <2>2. Uncommitted(s) = -q /\ Uncommitted(s)' = 0
    BY <1>1, <1>2, <1>11, <2>1, Constants DEF LedgerInv, LedgerTypeOK, Uncommitted
  <2>3. CommittedStatus(o) = "RESERVED"
    BY <1>3, <1>11, Constants DEF CommittedStatus
  <2>4. available[s] \in Nat /\ reserved[s] \in Int
    BY DEF LedgerInv, LedgerTypeOK
  <2>5. Available' = [Available EXCEPT ![s] = @ + q]
    <3>1. \A k \in Sku : available'[k] + Uncommitted(k)' =
            IF k = s THEN (available[s] + Uncommitted(s)) + q ELSE available[k] + Uncommitted(k)
      BY <1>2, <1>6, <2>2, <2>4
    <3> QED
      BY <3>1 DEF Available
  <2>6. Reserved' = [Reserved EXCEPT ![s] = @ - q]
    <3>1. \A k \in Sku : reserved'[k] - Uncommitted(k)' =
            IF k = s THEN (reserved[s] - Uncommitted(s)) - q ELSE reserved[k] - Uncommitted(k)
      BY <1>2, <1>6, <2>2, <2>4
    <3> QED
      BY <3>1 DEF Reserved
  <2>7. Status' = [Status EXCEPT ![o] = "RELEASED"]
    BY <1>7, <1>8, <2>1 DEF Status
  <2>8. Status[o] = "RESERVED"
    BY <2>3 DEF Status
  <2>9. Room!Release(o)
    BY <1>1, <1>2, <2>5, <2>6, <2>7, <2>8 DEF Room!Release, Available, Reserved, Status
  <2>10. \A k \in Sku : available'[k] + Uncommitted(k)' >= 0
    BY <1>2, <1>6, <2>2, <2>4 DEF LedgerInv
  <2> QED
    BY <1>4, <1>5, <2>9, <2>10
<1> QED
  BY <1>2, <1>9, <1>10, <1>11

LEMMA SeedRowStep ==
  ASSUME LedgerInv, NEW k \in Sku, SeedRow(k)
  PROVE  /\ LedgerTypeOK' /\ LockInv' /\ Room!Reseed(k)
         /\ \A j \in Sku : available'[j] + Uncommitted(j)' >= 0
<1>1. /\ skuLock[k] = NoOne
      /\ available' = [available EXCEPT ![k] = Stock[k]] /\ reserved' = [reserved EXCEPT ![k] = 0]
      /\ writtenOff' = [writtenOff EXCEPT ![k] = Room!Owed(k)]
      /\ UNCHANGED <<reservation, phase, order, skuLock, orderLock>>
  BY DEF SeedRow, lockVars
<1>2. Stock[k] \in Nat /\ Room!Owed(k) \in Nat
  BY SameOwed, Constants
<1>3. LedgerTypeOK'
  <2>1. available' \in [Sku -> Nat] /\ reserved' \in [Sku -> Int]
    BY <1>1, <1>2 DEF LedgerInv, LedgerTypeOK
  <2>2. writtenOff' \in [Sku -> Nat]
    <3>1. PICK n \in Nat : n = Room!Owed(k)
      BY <1>2
    <3> QED
      BY <1>1, <3>1 DEF LedgerInv, LedgerTypeOK
  <2> QED
    BY <1>1, <2>1, <2>2 DEF LedgerInv, LedgerTypeOK
<1>4. LockInv'
  BY <1>1 DEF LedgerInv, LockInv, SkuBy
<1>5. \A j \in Sku : Uncommitted(j)' = Uncommitted(j) /\ Uncommitted(j) \in Int
  BY <1>1, UncommittedType DEF LedgerInv, Uncommitted
<1>6. Uncommitted(k) = 0
  BY <1>1 DEF Uncommitted
<1>7. \A p \in Order : CommittedStatus(p)' = CommittedStatus(p)
  BY <1>1 DEF CommittedStatus
<1>8. Available' = [Available EXCEPT ![k] = Stock[k]]
  <2>1. \A j \in Sku : available'[j] + Uncommitted(j)' =
          IF j = k THEN Stock[k] ELSE available[j] + Uncommitted(j)
    BY <1>1, <1>2, <1>5, <1>6 DEF LedgerInv, LedgerTypeOK
  <2> QED
    BY <2>1 DEF Available
<1>9. Reserved' = [Reserved EXCEPT ![k] = 0]
  <2>1. \A j \in Sku : reserved'[j] - Uncommitted(j)' =
          IF j = k THEN 0 ELSE reserved[j] - Uncommitted(j)
    BY <1>1, <1>5, <1>6 DEF LedgerInv, LedgerTypeOK
  <2> QED
    BY <2>1 DEF Reserved
<1>10. UNCHANGED Status
  BY <1>7 DEF Status
<1>11. Room!Reseed(k)
  BY <1>1, <1>8, <1>9, <1>10 DEF Room!Reseed, Available, Reserved, Status
<1>12. \A j \in Sku : available'[j] + Uncommitted(j)' >= 0
  BY <1>1, <1>2, <1>5, <1>6 DEF LedgerInv, LedgerTypeOK
<1> QED
  BY <1>3, <1>4, <1>11, <1>12

-----------------------------------------------------------------------------
(* A step the committed tables do not show leaves them non-negative.       *)
LEMMA UnseenKeeps ==
  ASSUME LedgerInv, Unseen
  PROVE  \A k \in Sku : available'[k] + Uncommitted(k)' >= 0
<1>1. \A k \in Sku : Available'[k] = Available[k]
  BY DEF Unseen
<1> QED
  BY <1>1 DEF LedgerInv, Available

(* Every step of the service keeps the invariant and is a step of the      *)
(* stockroom, or one it does not see.                                      *)
LEMMA LedgerStep ==
  ASSUME LedgerInv, [LedgerNext]_vars
  PROVE  LedgerInv' /\ [Room!RoomNext]_(Room!roomVars)
<1>1. Unseen => UNCHANGED Room!roomVars
  BY DEF Unseen, Room!roomVars, Available, Reserved, Status
<1>2. CASE UNCHANGED vars
  <2>1. LedgerTypeOK' /\ LockInv'
    BY <1>2 DEF vars, tableVars, lockVars, LedgerInv, LedgerTypeOK, LockInv, SkuBy
  <2>2. Unseen
    BY <1>2 DEF vars, tableVars, lockVars, Unseen, Available, Reserved, Status,
                Uncommitted, CommittedStatus
  <2> QED
    BY <1>1, <2>1, <2>2, UnseenKeeps DEF LedgerInv
<1>3. ASSUME NEW r \in Request, NEW o \in Order, NEW first, Arrive(r, o, first)
      PROVE  LedgerInv' /\ [Room!RoomNext]_(Room!roomVars)
  BY <1>1, <1>3, ArriveStep, UnseenKeeps DEF LedgerInv
<1>4. ASSUME NEW r \in Request, Take(r) \/ Insert(r) \/ Flip(r) \/ GiveBack(r) \/ Rollback(r)
      PROVE  LedgerInv' /\ [Room!RoomNext]_(Room!roomVars)
  BY <1>1, <1>4, TakeStep, InsertStep, FlipStep, GiveBackStep, RollbackStep, UnseenKeeps
     DEF LedgerInv
<1>5. ASSUME NEW r \in Request, Commit(r)
      PROVE  LedgerInv' /\ [Room!RoomNext]_(Room!roomVars)
  BY <1>1, <1>5, CommitStep DEF LedgerInv, Room!RoomNext
<1>6. ASSUME NEW k \in Sku, SeedRow(k)
      PROVE  LedgerInv' /\ [Room!RoomNext]_(Room!roomVars)
  BY <1>6, SeedRowStep DEF LedgerInv, Room!RoomNext
<1> QED
  BY <1>2, <1>3, <1>4, <1>5, <1>6 DEF LedgerNext, Statement

LEMMA LedgerStarts ==
  ASSUME LedgerInit
  PROVE  LedgerInv /\ Room!RoomInit
<1>1. /\ \A k \in Sku : Uncommitted(k) = 0
      /\ \A o \in Order : CommittedStatus(o) = "none"
  BY DEF LedgerInit, Uncommitted, CommittedStatus
<1>2. LedgerInv
  BY <1>1, Constants DEF LedgerInit, LedgerInv, LedgerTypeOK, LockInv, Phase
<1>3. Room!RoomInit
  BY <1>1, Constants DEF LedgerInit, Room!RoomInit
<1> QED
  BY <1>2, <1>3

LEMMA LedgerInvHolds == LedgerSpec => []LedgerInv
BY LedgerStarts, LedgerStep, PTL DEF LedgerSpec

(* Counters stay within their ranges: what is free never runs below zero   *)
(* (the guarded decrement), not even by a rollback.                        *)
THEOREM LedgerTyped == LedgerSpec => []LedgerTypeOK
BY LedgerInvHolds, PTL DEF LedgerInv

(* A connection holds the locks its phase says and no other.               *)
THEOREM LocksHeld == LedgerSpec => []LockInv
BY LedgerInvHolds, PTL DEF LedgerInv

(* The service implements Stockroom: to one another its transactions are   *)
(* indivisible, whatever fails or is rolled back in between.               *)
THEOREM TransactionsAtomic == LedgerSpec => ActsAtomically
BY LedgerStarts, LedgerStep, LedgerInvHolds, PTL
   DEF LedgerSpec, ActsAtomically, Room!RoomSpec

LEMMA ShownSpec == LedgerSpec => Shown!RoomSpec
BY LedgerStarts, LedgerStep, LedgerInvHolds, SameRoom, PTL DEF LedgerSpec, Shown!RoomSpec

(* The committed counters and reservations tell the same story, short of   *)
(* what reseeding wrote off.                                               *)
THEOREM StoryToldByTables == LedgerSpec => []ReservedBacked
<1>1. LedgerSpec => []Shown!ReservedBacked
  BY ShownSpec, Shown!StoryTold, ShownAssumption, PTL
<1>2. Shown!ReservedBacked => ReservedBacked
  BY SameOwed DEF Shown!ReservedBacked, ReservedBacked, Room!ReservedBacked, Reserved
<1> QED
  BY <1>1, <1>2, PTL

(* No unit is promised to two orders, short of what reseeding wrote off.   *)
THEOREM TablesNeverOversold == LedgerSpec => []NeverOversold
<1>1. LedgerSpec => []Shown!NeverOversold
  BY ShownSpec, Shown!NoUnitTwice, ShownAssumption, PTL
<1>2. Shown!NeverOversold => NeverOversold
  BY SameOwed DEF Shown!NeverOversold, NeverOversold, Room!NeverOversold
<1> QED
  BY <1>1, <1>2, PTL

-----------------------------------------------------------------------------
(* Who waits and holds a row waits in the middle of its transaction: with  *)
(* a SKU for its order, or with an order for its SKU.                      *)
LEMMA WaitingHolder ==
  ASSUME LedgerTypeOK, LockInv, NEW r \in Request, NEW q \in Request, Waits(r), Waits(q), Holder(r) = q
  PROVE  /\ phase[r] \in {"take", "giveback"} => phase[q] = "insert"
         /\ phase[r] \in {"insert", "flip"} => phase[q] = "giveback"
<1>1. order[r] \in Order /\ SkuBy(r) \in Sku /\ q # NoOne
  BY SkuByType, Constants
<1> QED
  BY <1>1 DEF LockInv, Waits, Holder

(* A ring of waiting connections holds two that wait for each other.       *)
THEOREM RingsArePairsHolds == LedgerSpec => []RingsArePairs
<1>1. LedgerTypeOK /\ LockInv => RingsArePairs
  <2> SUFFICES ASSUME LedgerTypeOK, LockInv, NEW ring \in (SUBSET Request) \ {{}},
                      \A r \in ring : Waits(r) /\ Holder(r) \in ring
               PROVE  \E r \in ring : Deadlocked(r)
    BY DEF RingsArePairs
  <2>1. PICK p \in ring : phase[p] = "insert"
    <3>1. PICK r \in ring : TRUE
      OBVIOUS
    <3>2. \E q \in ring : phase[q] \in {"insert", "giveback"}
      BY <3>1, WaitingHolder DEF Waits
    <3> QED
      BY <3>2, WaitingHolder
  <2>2. phase[Holder(p)] = "giveback" /\ Holder(p) \in ring /\ Holder(p) = orderLock[order[p]]
    BY <2>1, WaitingHolder DEF Holder
  <2>3. ~CanLockOrder(p)
    BY <2>1 DEF Waits
  <2>4. order[Holder(p)] = order[p] /\ skuLock[SkuBy(p)] = p
    BY <2>1, <2>2, SkuByType, Constants DEF LockInv
  <2>5. Deadlocked(p)
    BY <2>1, <2>2, <2>3, <2>4 DEF Deadlocked, SkuBy
  <2> QED
    BY <2>5
<1> QED
  BY <1>1, LedgerTyped, LocksHeld, PTL
=============================================================================
