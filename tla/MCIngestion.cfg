SPECIFICATION FairSpec
CONSTANTS
  Docs = {d1}
  Runs = {r1, r2, r3}
  Deletes = {x1}
  NoRun = NoRun
  Faulty = TRUE
INVARIANTS OneBuild ReadyIsBuilt NoAbandonedStatus
PROPERTIES ImplementsLibrary RunsEnd
CHECK_DEADLOCK FALSE
