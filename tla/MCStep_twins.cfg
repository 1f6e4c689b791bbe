\* Three requests at once, for ever; every fault, no handler slower than the limit.
CONSTANTS
  r1 = r1  r2 = r2  r3 = r3
  Request = {r1, r2, r3}
  Injected = {"undo"}
  Faulty = TRUE
  Stalls = FALSE
SPECIFICATION FairSpec
INVARIANTS AtMostOnce RecordedWork CacheTruthful
PROPERTIES KeepsPromise NeverBlocked
