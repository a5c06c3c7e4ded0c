SPECIFICATION Spec
CONSTANTS
  MaxSteps = 2
  QueueSize = 2
  MaxTokens = 1
  Faulty = FALSE
INVARIANT ForcedAnswer
CHECK_DEADLOCK FALSE
