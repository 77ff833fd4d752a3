SPECIFICATION Spec
CONSTANTS
  f1 = f1
  f2 = f2
  t1 = t1
  t2 = t2
  NoFiling = NoFiling
  Filings = {f1}
  Cost <- MCCost1
  TokenBudget <- MCBudget
  Legacy = {}
  Tasks = {t1, t2}
  Pollers = {p1}
  Backfills = {b1}
  VectorJobs = {v1}
  Faults = {}
SYMMETRY TaskSymmetry
INVARIANTS
  TypeOK
  PrefixStored
  CompleteMeansWhole
  CentroidOfWhole
  IndexingHasRun
PROPERTY
  CoverageRefined
