SPECIFICATION Spec
CONSTANTS
  Topic = {"chunking", "retrieval", "context", "tools", "memories", "files"}
  Target = 3
  Overlap = 2
  Minimum = 2
  Blocks = 3
  RrfK = 2
  RerankTopN = 2
  MaxDocuments = 3
  MinRerankScore = 2
  HttpMaxRetries = 2
  InputBudget = 6000
  MaxRetrieved = 3500
  MaxHistory = 2500
  Parts = 4
  MaxRounds = 2
  MaxCalls = 2
  MaxParts = 2
  MaxResults = 1
  Urls = {"u1"}
  Chats = {t1, t2}
  Forgets = {f1}
  Contents = {"a", "b", "c"}
  Near <- NearPairs
  MaxCandidates = 2
  MaxRecalled = 1
  MayFail = TRUE
  Posts = {1, 2, 3, 4}
  Removals = {r1, r2}
  UserOf <- Users
  BytesOf <- Bytes
  NameOf <- Names
  Breaks = TRUE
INVARIANTS PassagesKept SearchDegrades PromptFits CallsAsWritten ForgottenStays NoNeedlessDuplicate CountsHonest FilesKept
PROPERTY SourcesStand
CHECK_DEADLOCK FALSE
