CONSTANTS
  q = q
  some = some
  Scalars = {a}
  PerToken = {q}
  MaxTokens = 2
  Values = {some}
  Needed = {}
  Unknowable = {a, q}
  Absentable = {a}
  Recorders = {r1, r2}
  Savers = {s1}
  Tabs = {b1}
  Turns = {t1, t2}
  Drafts <- FewDrafts
  Free = Free
SPECIFICATION Spec
SYMMETRY Symmetry
INVARIANTS AnswersBelongToVersions NoSilentLoss
PROPERTIES NoteIsNews ImplementsLedger
CHECK_DEADLOCK FALSE
