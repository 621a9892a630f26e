SPECIFICATION FairSpec
CONSTANTS
  MaxChunk = 4
  Batch = 2
  Capacity = 3
  Overlap = 1
  ReplayBatch = 1
  ReplayMerges = 2
  MaxBreak = 1
  MaxDial = 2
  ChunkStyle = TRUE
  FinishOnFinal = FALSE
CHECK_DEADLOCK FALSE
INVARIANTS
  TypeOK
  
  
PROPERTIES
  RecognizerReturns
