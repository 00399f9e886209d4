CONSTANTS
  Seeded = {s1}
  Fresh = {}
  Callers = {c1, c2}
  Workers = {w1}
  MaxConcurrent = 1
  MaxPerDay = 1
  Cancelling = TRUE
  FaultKinds = {"worker", "api", "outage"}
  MaxFaults = 1
  NoJob = NoJob
SPECIFICATION FairSpec
INVARIANT OvershootBounded
PROPERTIES ImplementsLedger EveryJobSettles
CHECK_DEADLOCK FALSE
