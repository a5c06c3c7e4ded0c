SPECIFICATION FairServiceSpec
CONSTANTS
  NoRun = NoRun
  Deletes = {}
  Docs = {d1}
  Runs = {r1, r2, r3}
  Requests = {q1}
  Messages = {m1}
  Workers = {w1}
  File <- OneFile
  MaxReceives = 2
  Queued = TRUE
  Faulty = TRUE
PROPERTY SettlesOrAlarms
CHECK_DEADLOCK FALSE
