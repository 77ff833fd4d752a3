SPECIFICATION FairSpec
CONSTANTS
  f1 = f1
  f2 = f2
  t1 = t1
  t2 = t2
  NoFiling = NoFiling
  Filings = {f1, f2}
  Cost <- MCCost2
  TokenBudget <- MCBudget
  Legacy = {f2}
  Tasks = {t1, t2}
  Pollers = {}
  Backfills = {}
  VectorJobs = {}
  Faults = {}
INVARIANTS
  PaysOnlyForMissing
PROPERTY
  IndexingEnds
