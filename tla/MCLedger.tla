------------------------------ MODULE MCLedger ------------------------------
(* Small instances of InventoryLedger: two orders after the same SKU, of   *)
(* which there is too little for both.                                     *)
EXTENDS InventoryLedger, TLC

CONSTANTS r1, r2, r3, o1, o2, ka

Wanted == (o1 :> ka) @@ (o2 :> ka)
Amount == (o1 :> 2) @@ (o2 :> 1)
OnHand == (ka :> 2)
=============================================================================
