------------------------------- MODULE Inventory -------------------------------
(* What the inventory service is asked for and what there is of it.        *)
EXTENDS Integers, FiniteSets

CONSTANTS Order, Sku,
  SkuOf,  \* the SKU an order asks for
  Qty,    \* and how much of it; neither ever changes after ingestion
  Stock   \* units per SKU according to sample_inventory.csv

ASSUME StockAssumption ==
  /\ IsFiniteSet(Order)
  /\ SkuOf \in [Order -> Sku] /\ Qty \in [Order -> Nat \ {0}] /\ Stock \in [Sku -> Nat]

(* The units set aside for an order, one by one.                           *)
UnitsOf(o) == {o} \X (1..Qty[o])
=============================================================================
