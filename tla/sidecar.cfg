SPECIFICATION FairSpec
CONSTANTS
  MaxSessions = 2
  MaxEmits = 2
CHECK_DEADLOCK FALSE
INVARIANTS
  SessionsAreOrderly
  
PROPERTIES
  FinishesProperly
