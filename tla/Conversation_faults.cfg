\* Two POSTs that overlap, with two faults of any kind.
CONSTANTS
  f1 = f1
  f2 = f2
  Posts = {p1, p2}
  Uses = {c, b}
  Costly = {c}
  Forms = {}
  BadForms = {b}
  Args <- SameArgs
  MaxToolCalls = 1
  Overlapping = TRUE
  FaultKinds = {"provider", "bridge", "lost", "cut", "limit"}
  MaxFaults = 2
SPECIFICATION FairSpec
INVARIANTS CostlyNeedsYes RunsInOrder
PROPERTY EveryTurnEnds
CHECK_DEADLOCK FALSE
