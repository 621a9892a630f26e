SPECIFICATION Spec
CONSTANTS
  MaxAudio = 5
  MaxText = 3
  Ahead = 1
  Keep = 3
  HoldBack = 1
  Cap = 4
  MaxTail = 1
  MinSteps = 1
  PauseSteps = 2
  PunctSteps = 3
  MinSpeech = 1
  SilenceMin = 1
  SilenceSteps = 2
  DigitalSteps = 2
  FrameSizes = {1, 2, 5}
  MaxFrames = 3
  Delay = 2
  Block = 4
  MinLoud = 2
  MinLow = 2
  MaxWords = 7
  MaxHypothesis = 4
  SentenceMin = 2
  ClauseMin = 2
  CapClauseMin = 1
  MaxTokens = 3
  CharacterHoldBack = 1
  Stops = {5}
  Clauses = {6}
  Dangling = {2, 7}
  Noise = {3}
  RollsCoverPromotion = TRUE
  Rewrites = TRUE
  MaxSamples = 3
  MaxTexts = 2
  MaxFiles = 2
INVARIANTS
  UnitsAreWellFormed
  
  SegmentsAreGuarded
  AudioIsComplete
  
PROPERTIES
  TextIsKept
  DecisionsAreKept
CHECK_DEADLOCK FALSE
