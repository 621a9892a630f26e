SPECIFICATION PartsSpec
CONSTANTS
  r1 = r1
  r2 = r2
  Requests <- MCRequests
  Kinds <- MCKinds
  MaxRuns = 2
  MaxConcurrent = 1
  Windows = 2
  MaxPieces = 1
  MaxCalls = 2
  MaxChunk = 2
  TextLength = 4
  MaxAttempts = 4
  MaxContinuations = 2
  MinOverlap = 2
  OverlapWindow = 3
  MaxLines = 5
  Limit = 2
  TargetMs = 6
  MaxMs = 7
  MinMs = 2
  MaxChars = 8
  Budget = 10
  MinRoom = 2
  Gap = 1
CHECK_DEADLOCK FALSE
INVARIANTS
  RequestsAreConsistent
  UploadsNeedConsent
  CallsAreFaithful
  NotesAreFaithful
  InputsAreDivided
PROPERTIES
  RequestsEnd
