SPECIFICATION FairSpec
CONSTANTS
  MaxSession = 1
  MaxToggle = 1
  MaxFault = 1
  WindowCloses = TRUE
CHECK_DEADLOCK FALSE
PROPERTIES
  CommandsAndStopEnd
