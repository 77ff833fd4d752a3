SPECIFICATION ReadsSpec
CONSTANTS
  Askers = {q1, q2}
  Company = {1, 2, 3}
  PageLength = 1
  Parts = {1, 2}
  NoAnswer = NoAnswer
INVARIANT KeptPeersAreRanked
