\* One prompt instance; calls may time out or fail after the service did the work.
CONSTANTS
  i1 = i1  i2 = i2  i3 = i3  a = a  b = b  o1 = o1  o2 = o2
  Instance = {i1}
  Order = {o1}
  Service = {a, b}
  Nobody = Nobody
  BatchSize = 1
  Concurrency = 1
  Slow = {}
  Faulty = TRUE
  Mortal = {}
CHECK_DEADLOCK FALSE
SPECIFICATION Spec
INVARIANTS CancelledMeansUndone
