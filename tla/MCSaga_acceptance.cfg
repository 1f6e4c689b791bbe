\* Injected failures and crashes only, for every combination of the CSV flags.
CONSTANTS
  i1 = i1  i2 = i2  i3 = i3  a = a  b = b  o1 = o1  o2 = o2
  Instance = {i1, i2, i3}
  Order = {o1}
  Service = {a, b}
  Nobody = Nobody
  BatchSize = 1
  Concurrency = 1
  Slow = {}
  Faulty = FALSE
  Mortal = {i1, i2}
CHECK_DEADLOCK FALSE
SPECIFICATION HealthySpec
INVARIANTS OutcomeAsInjected
PROPERTIES ReachesOutcome
