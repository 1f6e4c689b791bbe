\* Two orders compete for one SKU; requests come again and again, reseeding at any time.
CONSTANTS
  r1 = r1  r2 = r2  r3 = r3  o1 = o1  o2 = o2  ka = ka
  Request = {r1, r2, r3}
  Order = {o1, o2}
  Sku = {ka}
  SkuOf <- Wanted
  Qty <- Amount
  Stock <- OnHand
  NoOne = NoOne
SPECIFICATION FairLedger
INVARIANTS ReservedBacked NeverOversold RingsArePairs
PROPERTIES ActsAtomically EveryTransactionEnds
