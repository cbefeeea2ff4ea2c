SPECIFICATION Spec
CONSTANTS
  Codes = {i1, i2}
  Drives = {d1, d2}
  Keys = {k1, k2}
  Calls = {c1, c2}
  None = None
  MaxRevision = 4
SYMMETRY Symmetry
INVARIANTS TypeOK StatusesAgree BoundOnce AnswersAreUsable HistoryIsGapless ReissueLinked
PROPERTIES BindingIsPermanent ImplementsService RevisionsOrderStatuses
