SPECIFICATION PartsSpec
CONSTANTS
  Cases <- MCCases
  Names <- MCNames
  Probes <- MCProbes
  MaxChanges = 1
  MaxTokens = 4
  MaxRequests = 2
  Spans = 2
  MaxChars = 5
  MaxMemory = 3
  Repeats = 2
  MaxUnit = 3
  ChatLimit = 4
  HyMtLimit = 4
  MaxEdits = 2
  ContextChars = 46
  TopicChars = 22
  PromptChars = 30
  TermsLineChars = 30
  TermChars = 24
  UsableChars = 22
  SideChars = 20
  MaxTerms = 4
  MaxAnswers = 2
  MinOccurrences = 2
  Back = 6
  MaxKeyterms = 2
  KeytermChars = 8
  KeytermBytes = 14
  SpokenLanguages = {"auto", "en", "zh"}
INVARIANTS
  RoutesAreAllowed
  RequestsAreFaithful
  
CHECK_DEADLOCK FALSE
