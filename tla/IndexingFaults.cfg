SPECIFICATION Spec
CONSTANTS
  f1 = f1
  f2 = f2
  t1 = t1
  t2 = t2
  NoFiling = NoFiling
  Filings = {f1, f2}
  Cost <- MCCost3
  TokenBudget <- MCBudget
  Legacy = {f2}
  Tasks = {t1}
  Pollers = {p1}
  Backfills = {b1}
  VectorJobs = {v1}
  Faults = {"short_reply","count_read","no_background"}
INVARIANTS
  CompleteMeansWhole
  CentroidOfWhole
