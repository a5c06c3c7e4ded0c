SPECIFICATION Spec
CONSTANTS
  Docs = {d1}
  Runs = {r1, r2}
  Deletes = {}
  NoRun = NoRun
  Faulty = FALSE
INVARIANT Converges
CHECK_DEADLOCK FALSE
