SPECIFICATION FirstDeleted
CONSTANTS
  NoRun = NoRun
  Deletes = {x1}
  Docs = {d1, d2}
  Runs = {r1, r2}
  Requests = {q1, q2}
  Messages = {m1}
  Workers = {w1, w2}
  File <- OneFile
  MaxReceives = 2
  Queued = TRUE
  Faulty = TRUE
CONSTRAINT NothingLost
ACTION_CONSTRAINT InOrder
SYMMETRY Interchangeable
INVARIANTS NoLostDocument
PROPERTY ImplementsIngestion
CHECK_DEADLOCK FALSE
