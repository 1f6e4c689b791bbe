\* Two requests, one of which stalls past the staleness limit and then fails.
CONSTANTS
  r1 = r1  r2 = r2  r3 = r3
  Request = {r1, r2}
  Injected = {"undo"}
  Faulty = TRUE
  Stalls = TRUE
SPECIFICATION Spec
INVARIANTS RecordedWork
