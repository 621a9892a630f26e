SPECIFICATION Spec
CONSTANTS
  MaxRevision = 4
  Texts = {t1, t2}
  NoText = NoText
  ProvisionalEnabled = TRUE
  ContextSegments = 2
SYMMETRY TextSymmetry
CHECK_DEADLOCK FALSE
INVARIANTS
  TypeOK
  SettledInOrder
  OutcomesAgree
  CommittedIsNotSuperseded
  NothingBehindConsumer
PROPERTIES
  ShownIsNeverStale
  ImplementsLedger
