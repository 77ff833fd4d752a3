SPECIFICATION MCSpec
CONSTANTS
  f1 = f1
  f2 = f2
  Filings = {f1, f2}
  Asked <- MCAsked
  WithAnswer = {2}
  Total <- MCTotal
  Batch = 2
  NoFile = NoFile
  Days = 2
  Answerable = {q1}
  Unanswerable = {q2}
  Golden = {g1, g2}
  Floor = 50
  MaxRuns = 2
  NoRun = NoRun
  Cik <- MCCik
  Stored = 3
  Page = 2
  Unclassified = {"c2"}
INVARIANTS
  ScoredAsSeen
  GreenMeansKept
  DoneMeansFilled
CHECK_DEADLOCK FALSE
