SPECIFICATION FairSpec
CONSTANTS
  Tabs = {t1, t2}
  Browsers = {"browser"}
  BrowserOf <- OneBrowser
  MaxRequests = 3
  RequireVerification = FALSE
  Faulty = TRUE
INVARIANTS EndedStaysEnded ReplayExplained NothingLeftBehind OneWorkingLink
PROPERTY CheckingEnds
CHECK_DEADLOCK FALSE
