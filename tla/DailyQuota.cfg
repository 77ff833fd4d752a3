SPECIFICATION Spec
CONSTANTS
  r1 = r1
  r2 = r2
  NoDay = NoDay
  Requests = {r1, r2}
  Questions = {q1}
  Indexers = {i1}
  Scripts = {s1}
  AnalysisCap = 1
  EmbeddingCap = 2
  BatchSize = 2
  Sizes = {3}
  MaxAttempts = 2
  LastDay = 1
  UsageBound = 3
INVARIANTS
  AnalysesCapped
  ReservationsCapped
  CeilingKept
SYMMETRY RequestSymmetry
CONSTRAINT OneBudget
