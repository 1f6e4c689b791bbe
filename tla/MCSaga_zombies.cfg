\* Coordinators that stall anywhere past their lease
CONSTANTS
  i1 = i1  i2 = i2  i3 = i3  a = a  b = b  o1 = o1  o2 = o2
  Instance = {i1, i2}
  Order = {o1}
  Service = {a}
  Nobody = Nobody
  BatchSize = 1
  Concurrency = 1
  Slow = {"queued", "driving", "retrying"}
  Faulty = TRUE
  Mortal = {i1}
CHECK_DEADLOCK FALSE
SPECIFICATION Spec
INVARIANTS NoOrphan SucceededMeansExecuted NoUndoBeforeDo
PROPERTIES SettledStays PassedOn
