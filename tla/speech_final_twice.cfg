SPECIFICATION Spec
CONSTANTS
  MaxWords = 5
  MaxHypothesis = 4
  SentenceMin = 2
  ClauseMin = 3
  CapClauseMin = 1
  MaxTokens = 4
  HoldBack = 1
  Stops = {3}
  Clauses = {}
  Dangling = {}
  Noise = {}
  RollsCoverPromotion = TRUE
  Rewrites = TRUE
INVARIANT FinalWordsOnce
CHECK_DEADLOCK FALSE
