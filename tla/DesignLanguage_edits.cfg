\* Documents edited, saved and read back in every order.
SPECIFICATION Spec
CONSTANTS
  Documents <- AllDocuments
  NewRules <- Rules
  NewEvents <- Events
  NewAssets <- Assets
  NewCaps <- Caps
  NewRanges <- Ranges
  MaxEdits = 3
  Horizon = 4
  Top = 12
INVARIANTS
  LoadKeepsMeaning
  MigrationKeepsVerdicts
  PictureAgrees
\* An author may stop.
CHECK_DEADLOCK FALSE
