CONSTANTS
  f1 = f1
  f2 = f2
  Posts = {p1, p2, p3}
  Uses = {f1, f2, c, q}
  Costly = {c}
  Forms = {q}
  BadForms = {}
  Args <- SameArgs
  MaxToolCalls = 3
  Overlapping = FALSE
  FaultKinds = {"provider", "limit"}
  MaxFaults = 1
SPECIFICATION Spec
SYMMETRY Symmetry
INVARIANT HistoryStands
PROPERTY ImplementsDialogue
CHECK_DEADLOCK FALSE
