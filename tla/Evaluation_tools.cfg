CONSTANTS
  Designs = {d1, d2}
  MaxVersion = 2
  Rollback = FALSE
  Calls = {c1, c2, x1}
  Stateless = {x1}
  None = None
SPECIFICATION Spec
SYMMETRY Symmetry
INVARIANTS StateIsEarned PromisesAreStored
PROPERTIES NothingLostForGood ImplementsFormalFirst
