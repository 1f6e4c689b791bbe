------------------------------ MODULE Stockroom ------------------------------
(***************************************************************************)
(* What the inventory service promises: orders set units of their SKU      *)
(* aside and put them back, each in one indivisible step, and reseeding    *)
(* sets the counters of a SKU anew.  Abstract; InventoryLedger implements  *)
(* it with SQL transactions.                                               *)
(***************************************************************************)
EXTENDS Inventory

VARIABLES
  available,   \* inventory.available_qty
  reserved,    \* inventory.reserved_qty
  reservation, \* reservations.status per order, "none" before the INSERT
  writtenOff   \* history: units that were set aside when the SKU was reseeded

roomVars == <<available, reserved, reservation, writtenOff>>

ReservationStatus == {"none", "RESERVED", "RELEASED"}

(* The orders that hold units of a SKU, and how many: what the             *)
(* reservations table says is owed.                                        *)
Holding(k) == {o \in Order : SkuOf[o] = k /\ reservation[o] = "RESERVED"}
Owed(k)    == Cardinality(UNION {UnitsOf(o) : o \in Holding(k)})

RoomInit ==
  /\ available = Stock
  /\ reserved = [k \in Sku |-> 0]
  /\ reservation = [o \in Order |-> "none"]
  /\ writtenOff = [k \in Sku |-> 0]

Reserve(o) ==
  /\ reservation[o] = "none" /\ available[SkuOf[o]] >= Qty[o]
  /\ available' = [available EXCEPT ![SkuOf[o]] = @ - Qty[o]]
  /\ reserved' = [reserved EXCEPT ![SkuOf[o]] = @ + Qty[o]]
  /\ reservation' = [reservation EXCEPT ![o] = "RESERVED"]
  /\ UNCHANGED writtenOff

Release(o) ==
  /\ reservation[o] = "RESERVED"
  /\ available' = [available EXCEPT ![SkuOf[o]] = @ + Qty[o]]
  /\ reserved' = [reserved EXCEPT ![SkuOf[o]] = @ - Qty[o]]
  /\ reservation' = [reservation EXCEPT ![o] = "RELEASED"]
  /\ UNCHANGED writtenOff

Reseed(k) ==
  /\ available' = [available EXCEPT ![k] = Stock[k]]
  /\ reserved' = [reserved EXCEPT ![k] = 0]
  /\ writtenOff' = [writtenOff EXCEPT ![k] = Owed(k)]
  /\ UNCHANGED reservation

RoomNext == (\E o \in Order : Reserve(o) \/ Release(o)) \/ (\E k \in Sku : Reseed(k))
RoomSpec == RoomInit /\ [][RoomNext]_roomVars

RoomTypeOK ==
  /\ available \in [Sku -> Int] /\ reserved \in [Sku -> Int]
  /\ reservation \in [Order -> ReservationStatus]
  /\ writtenOff \in [Sku -> Int]

-----------------------------------------------------------------------------
(* The counters and the reservations tell the same story: reserved_qty is  *)
(* what the reservations add up to, short of exactly what was set aside    *)
(* when the SKU was last reseeded (the handlers' paired UPDATEs, seed.ts). *)
ReservedBacked ==
  \A k \in Sku : reserved[k] + writtenOff[k] = Owed(k)

(* No more units are promised than exist, but for those a reseed wrote off *)
(* under a live reservation (the guarded decrement).                       *)
NeverOversold ==
  \A k \in Sku : Owed(k) <= Stock[k] + writtenOff[k]

(* Inductive: units only move between the two counters, and the free ones  *)
(* never run below zero.                                                   *)
RoomInv ==
  /\ ReservedBacked
  /\ \A k \in Sku : available[k] + reserved[k] = Stock[k] /\ available[k] >= 0
=============================================================================
