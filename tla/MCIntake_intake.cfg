\* Two loads of one file with a repeated order_id, one of which may die; two
\* coordinators, one of which may crash or be stopped.
CONSTANTS
  l1 = l1  l2 = l2  w1 = w1  w2 = w2
  Loader = {l1, l2}
  Worker = {w1, w2}
  Mortal = {l1, w1}
  Stoppable = {w1}
  Asked <- Clicks
  Nobody = Nobody
  LastId = 2
  File <- Repeats
  FlushSize = 2
  ClaimSize = 2
  Concurrency = 1
  MaxTries = 2
SPECIFICATION FairIntake
INVARIANTS CountsAreTrue FinishedMeansLoaded
PROPERTIES Dispatched StopDrains EveryOrderEnds
