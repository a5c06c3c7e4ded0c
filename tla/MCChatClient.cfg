SPECIFICATION FairSpec
CONSTANTS
  f1 = f1
  f2 = f2
  d1 = d1
  Files = {f1, f2}
  Documents = {d1}
  Document <- SameBytes
  Existing = {c1}
  MaxSends = 2
  MaxLoads = 1
CONSTRAINT Apart
INVARIANTS OwnStream ShownIsSelected PollsForSomeone
PROPERTY ChipSettles
CHECK_DEADLOCK FALSE
