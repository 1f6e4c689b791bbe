--------------------------- MODULE StockroomProofs ---------------------------
(***************************************************************************)
(* For any number of orders, SKUs and units: the counters of a stockroom   *)
(* and its reservations tell the same story, and no unit is promised       *)
(* twice, short of what reseeding writes off.                              *)
(***************************************************************************)
EXTENDS Stockroom, FiniteSetTheorems, TLAPS

(* The units of a set of orders, so that the sets before and after a step  *)
(* can be compared.                                                        *)
Units(orders) == UNION {UnitsOf(o) : o \in orders}

LEMMA UpToSize ==
  ASSUME NEW q \in Nat, q > 0
  PROVE  IsFiniteSet(1..q) /\ Cardinality(1..q) = q
<1>1. IsFiniteSet(1..q) /\ Cardinality(1..q) = IF 1 > q THEN 0 ELSE q - 1 + 1
  BY FS_Interval
<1> QED
  BY <1>1

LEMMA UnitsOfOne ==
  ASSUME NEW o \in Order
  PROVE  IsFiniteSet(UnitsOf(o)) /\ Cardinality(UnitsOf(o)) = Qty[o]
<1>1. Qty[o] \in Nat /\ Qty[o] > 0
  BY StockAssumption
<1>2. IsFiniteSet(1..Qty[o]) /\ Cardinality(1..Qty[o]) = Qty[o]
  BY <1>1, UpToSize
<1>3. IsFiniteSet({o}) /\ Cardinality({o}) = 1
  BY FS_Singleton
<1>4. /\ IsFiniteSet({o} \X (1..Qty[o]))
      /\ Cardinality({o} \X (1..Qty[o])) = Cardinality({o}) * Cardinality(1..Qty[o])
  BY <1>2, <1>3, FS_Product
<1> QED
  BY <1>1, <1>2, <1>3, <1>4 DEF UnitsOf

LEMMA UnitsFinite ==
  ASSUME NEW orders \in SUBSET Order
  PROVE  IsFiniteSet(Units(orders)) /\ Cardinality(Units(orders)) \in Nat
<1> DEFINE parts == {UnitsOf(o) : o \in orders}
<1>1. IsFiniteSet(orders)
  BY StockAssumption, FS_Subset
<1>2. IsFiniteSet(parts)
  <2> DEFINE f == [o \in orders |-> UnitsOf(o)]
  <2>1. f \in Surjection(orders, parts)
    BY DEF Surjection
  <2> QED
    BY <1>1, <2>1, FS_Surjection
<1>3. \A part \in parts : IsFiniteSet(part)
  BY UnitsOfOne
<1>4. IsFiniteSet(UNION parts)
  BY <1>2, <1>3, FS_UNION
<1> QED
  BY <1>4, FS_CardinalityType DEF Units

(* One more order brings its own units and no other.                       *)
LEMMA UnitsAdd ==
  ASSUME NEW orders \in SUBSET Order, NEW o \in Order \ orders
  PROVE  Cardinality(Units(orders \cup {o})) = Cardinality(Units(orders)) + Qty[o]
<1>1. Units(orders \cup {o}) = Units(orders) \cup UnitsOf(o)
  BY DEF Units
<1>2. Units(orders) \cap UnitsOf(o) = {}
  BY DEF Units, UnitsOf
<1>3. /\ IsFiniteSet(Units(orders)) /\ Cardinality(Units(orders)) \in Nat
      /\ IsFiniteSet(UnitsOf(o)) /\ Cardinality(UnitsOf(o)) = Qty[o] /\ Qty[o] \in Nat
  BY UnitsFinite, UnitsOfOne, StockAssumption
<1>4. Cardinality(Units(orders) \cup UnitsOf(o)) =
        Cardinality(Units(orders)) + Cardinality(UnitsOf(o))
        - Cardinality(Units(orders) \cap UnitsOf(o))
  BY <1>3, FS_Union
<1>5. Cardinality(Units(orders) \cap UnitsOf(o)) = 0
  BY <1>2, FS_EmptySet
<1>6. Cardinality(Units(orders) \cup UnitsOf(o)) = Cardinality(Units(orders)) + Qty[o]
  BY <1>3, <1>4, <1>5
<1> QED
  BY <1>1, <1>6

LEMMA UnitsNone == Cardinality(Units({})) = 0
<1>1. Units({}) = {}
  BY DEF Units
<1> QED
  BY <1>1, FS_EmptySet

LEMMA OwedUnits ==
  ASSUME NEW k
  PROVE  /\ Owed(k) = Cardinality(Units(Holding(k))) /\ Holding(k) \in SUBSET Order
         /\ Owed(k) \in Nat
<1>1. Holding(k) \in SUBSET Order
  BY DEF Holding
<1>2. Owed(k) = Cardinality(Units(Holding(k)))
  BY DEF Owed, Units
<1> QED
  BY <1>1, <1>2, UnitsFinite

-----------------------------------------------------------------------------
Inv == RoomTypeOK /\ RoomInv

(* The three steps, each with the units it moves.                          *)
LEMMA ReserveKeeps ==
  ASSUME Inv, NEW o \in Order, Reserve(o) PROVE Inv'
<1> DEFINE s == SkuOf[o]
<1>1. s \in Sku /\ Qty[o] \in Nat /\ Qty[o] > 0
  BY StockAssumption
<1>2. Holding(s)' = Holding(s) \cup {o} /\ o \notin Holding(s)
  BY DEF Inv, RoomTypeOK, ReservationStatus, Reserve, Holding
<1>3. \A k \in Sku \ {s} : Holding(k)' = Holding(k)
  BY DEF Inv, RoomTypeOK, ReservationStatus, Reserve, Holding
<1>4. Owed(s)' = Owed(s) + Qty[o]
  <2>1. Owed(s)' = Cardinality(Units(Holding(s) \cup {o}))
    BY <1>2 DEF Owed, Units, UnitsOf
  <2>2. Holding(s) \in SUBSET Order /\ Owed(s) = Cardinality(Units(Holding(s)))
    BY OwedUnits
  <2> QED
    BY <1>2, <2>1, <2>2, UnitsAdd
<1>5. \A k \in Sku \ {s} : Owed(k)' = Owed(k)
  BY <1>3 DEF Owed, UnitsOf
<1>6. \A k \in Sku : Owed(k) \in Nat /\ Stock[k] \in Nat
  BY OwedUnits, StockAssumption
<1>7. RoomTypeOK'
  BY <1>1 DEF Inv, RoomTypeOK, ReservationStatus, Reserve
<1>8. ReservedBacked'
  BY <1>1, <1>4, <1>5, <1>6 DEF Inv, RoomTypeOK, RoomInv, ReservedBacked, Reserve
<1>9. \A k \in Sku : available'[k] + reserved'[k] = Stock[k] /\ available'[k] >= 0
  BY <1>1, <1>6 DEF Inv, RoomTypeOK, RoomInv, Reserve
<1> QED
  BY <1>7, <1>8, <1>9 DEF Inv, RoomInv

LEMMA ReleaseKeeps ==
  ASSUME Inv, NEW o \in Order, Release(o) PROVE Inv'
<1> DEFINE s == SkuOf[o]
<1>1. s \in Sku /\ Qty[o] \in Nat /\ Qty[o] > 0
  BY StockAssumption
<1>2. Holding(s) = Holding(s)' \cup {o} /\ o \notin Holding(s)'
  BY DEF Inv, RoomTypeOK, ReservationStatus, Release, Holding
<1>3. \A k \in Sku \ {s} : Holding(k)' = Holding(k)
  BY DEF Inv, RoomTypeOK, ReservationStatus, Release, Holding
<1>4. Owed(s) = Owed(s)' + Qty[o]
  <2>1. Owed(s) = Cardinality(Units(Holding(s)' \cup {o}))
    BY <1>2 DEF Owed, Units
  <2>2. Holding(s)' \in SUBSET Order /\ Owed(s)' = Cardinality(Units(Holding(s)'))
    BY DEF Holding, Owed, Units, UnitsOf
  <2> QED
    BY <1>2, <2>1, <2>2, UnitsAdd
<1>5. \A k \in Sku \ {s} : Owed(k)' = Owed(k)
  BY <1>3 DEF Owed, UnitsOf
<1>6. \A k \in Sku : Owed(k) \in Nat /\ Stock[k] \in Nat
  BY OwedUnits, StockAssumption
<1>7. RoomTypeOK'
  BY <1>1 DEF Inv, RoomTypeOK, ReservationStatus, Release
<1>8. ReservedBacked'
  <2>1. Owed(s)' \in Nat
    BY UnitsFinite DEF Owed, Units, UnitsOf, Holding
  <2> QED
    BY <1>1, <1>4, <1>5, <1>6, <2>1 DEF Inv, RoomTypeOK, RoomInv, ReservedBacked, Release
<1>9. \A k \in Sku : available'[k] + reserved'[k] = Stock[k] /\ available'[k] >= 0
  BY <1>1, <1>6 DEF Inv, RoomTypeOK, RoomInv, Release
<1> QED
  BY <1>7, <1>8, <1>9 DEF Inv, RoomInv

LEMMA ReseedKeeps ==
  ASSUME Inv, NEW k \in Sku, Reseed(k) PROVE Inv'
<1>1. \A j \in Sku : Owed(j)' = Owed(j) /\ Owed(j) \in Nat /\ Stock[j] \in Nat
  <2>1. \A j \in Sku : Owed(j)' = Owed(j)
    BY DEF Reseed, Owed, Holding, UnitsOf
  <2> QED
    BY <2>1, OwedUnits, StockAssumption
<1>2. RoomTypeOK'
  BY <1>1 DEF Inv, RoomTypeOK, Reseed
<1>3. ReservedBacked'
  BY <1>1 DEF Inv, RoomTypeOK, RoomInv, ReservedBacked, Reseed
<1>4. \A j \in Sku : available'[j] + reserved'[j] = Stock[j] /\ available'[j] >= 0
  BY <1>1 DEF Inv, RoomTypeOK, RoomInv, Reseed
<1> QED
  BY <1>2, <1>3, <1>4 DEF Inv, RoomInv

LEMMA InvHolds == RoomSpec => []Inv
<1>1. RoomInit => Inv
  <2> SUFFICES ASSUME RoomInit PROVE Inv
    OBVIOUS
  <2>1. \A k : Holding(k) = {}
    BY DEF RoomInit, Holding
  <2>2. \A k : Owed(k) = 0
    BY <2>1, OwedUnits, UnitsNone
  <2> QED
    BY <2>2, StockAssumption
       DEF RoomInit, Inv, RoomTypeOK, RoomInv, ReservedBacked, ReservationStatus
<1>2. Inv /\ [RoomNext]_roomVars => Inv'
  <2> SUFFICES ASSUME Inv, [RoomNext]_roomVars PROVE Inv'
    OBVIOUS
  <2>1. CASE UNCHANGED roomVars
    BY <2>1 DEF roomVars, Inv, RoomTypeOK, RoomInv, ReservedBacked, Owed, Holding, UnitsOf
  <2> QED
    BY <2>1, ReserveKeeps, ReleaseKeeps, ReseedKeeps DEF RoomNext
<1> QED
  BY <1>1, <1>2, PTL DEF RoomSpec

(* reserved_qty is the sum of the live reservations, short of what was     *)
(* written off (the handlers' paired UPDATEs, seed.ts).                    *)
THEOREM StoryTold == RoomSpec => []ReservedBacked
BY InvHolds, PTL DEF Inv, RoomInv

(* No unit is promised twice, short of what was written off (the guarded   *)
(* decrement).                                                             *)
THEOREM NoUnitTwice == RoomSpec => []NeverOversold
<1>1. Inv => NeverOversold
  BY OwedUnits, StockAssumption DEF Inv, RoomTypeOK, RoomInv, ReservedBacked, NeverOversold
<1> QED
  BY <1>1, InvHolds, PTL
=============================================================================
