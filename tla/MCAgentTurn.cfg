SPECIFICATION FairSpec
CONSTANTS
  MaxSteps = 3
  QueueSize = 2
  MaxTokens = 2
  Faulty = TRUE
INVARIANTS AnswerWasShown SavedAsTold
PROPERTIES NothingAfterTheEnd TurnEnds
CHECK_DEADLOCK FALSE
