SPECIFICATION FairSpec
CONSTANTS
  None = None
  Filings = {f1}
  Browsers = {u1}
  Others = {u2}
  MaxRestarts = 1
INVARIANTS
  OneAnalysis
  FramesInOrder
  ShownIsIndexed
PROPERTIES
  PaidForIsStored
  EveryoneIsAnswered
CHECK_DEADLOCK FALSE
