SPECIFICATION MCSpec
CONSTANTS
  Rankers = {a1, a2}
  Lookback = 2
  Probe = "ni"
  Merged = {"r1", "r2"}
  Revenue = "revenue"
  MaxExpiries = 1
  Publications <- MCPublications
  Askers = {q1, q2}
  Company = {1, 2, 3}
  PageLength = 1
  Parts = {1, 2}
  NoAnswer = NoAnswer
  Newest = 3
  Size = 2
  Drifters = {d1}
  Questioners = {n1}
  MaxFilings = 3
  PerFiling = 2
  K = 4
  NoDrift = NoDrift
  Registrants = {e1, e2}
  Summarizers = {s1, s2}
  Listers = {l1}
  NoSummary = NoSummary
  Clients = {c1}
  Tags <- MCTags
  EndYear <- MCEndYear
  Original = 1
  Figures = {1, 2}
  MaxFiled = 3
  Accession <- MCAccession
  Nothing = Nothing
  Awaiting = Awaiting
  Joined = Joined
SYMMETRY MCSymmetry
INVARIANTS
  FetchesShared
  KeptWasAnswered
  GaveUpForCause
  
  KnownDriftOfWhole
  AcrossFilings
  AnsweredAsStored
  
CHECK_DEADLOCK FALSE
