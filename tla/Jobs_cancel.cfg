CONSTANTS
  Seeded = {s1}
  Fresh = {f1}
  Callers = {c1}
  Workers = {w1, w2}
  MaxConcurrent = 2
  MaxPerDay = 2
  Cancelling = TRUE
  FaultKinds = {}
  MaxFaults = 0
  NoJob = NoJob
SPECIFICATION Spec
SYMMETRY Symmetry
INVARIANT RecordsAgree
PROPERTY FinalRowStays
CHECK_DEADLOCK FALSE
