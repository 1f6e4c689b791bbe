\* Three tries against every fault of the service, and the coordinator's own
\* statements may fail as well.
CONSTANTS
  r1 = r1  r2 = r2  r3 = r3
  Request = {r1, r2, r3}
  NoRequest = NoRequest
  Injected = {}
  Faulty = TRUE
  Stalls = FALSE
  MaxAttempts = 3
  Bookkeeping = TRUE
CHECK_DEADLOCK FALSE
SPECIFICATION FairCall
INVARIANTS AuditTellsAll NoGivingUpEarly SucceededOnRecord
PROPERTIES MakesEngineSteps CallEnds
