SPECIFICATION Spec
CONSTANTS
  MaxUtterance = 3
  Pieces = 2
  Providers <- MCProviders
  FirstComeFirst = TRUE
CHECK_DEADLOCK FALSE
INVARIANTS
  SegmentsAreTracked
  
  
