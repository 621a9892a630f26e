SPECIFICATION LoopSpec
CONSTANTS
  MaxRevision = 2
  Texts = {t1}
  NoText = NoText
  ProvisionalEnabled = TRUE
  ContextSegments = 1
CHECK_DEADLOCK FALSE
PROPERTIES
  DrainEnds
  RequestsAreServed
