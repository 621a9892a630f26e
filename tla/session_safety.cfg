SPECIFICATION Spec
CONSTANTS
  MaxSession = 2
  MaxToggle = 2
  MaxFault = 2
  WindowCloses = FALSE
CHECK_DEADLOCK FALSE
INVARIANTS
  TypeOK
  
  CommandsAreExpected
  PausedIsQuiet
