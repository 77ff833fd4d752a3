SPECIFICATION Spec
CONSTANTS
  f1 = f1
  f2 = f2
  t1 = t1
  t2 = t2
  NoFiling = NoFiling
  Filings = {f1}
  Cost <- MCCost1
  TokenBudget <- MCBudget
  Legacy = {}
  Tasks = {t1}
  Pollers = {}
  Backfills = {}
  VectorJobs = {}
  Faults = {"count_read"}
INVARIANT IndexingHasRun
