SPECIFICATION MCSpec
CONSTANTS
  Calls = {c1, c2, c3}
  Slots = 2
  Attempts = 3
  Prompts = {p1}
  Flash = Flash
  Others = {lite, pro}
  Unset = Unset
  Tokens <- MCTokens
  Budget = 3
  Window = 2
  Tries = 2
  GiveUp = 2
  Cards = {ask, peers}
  Chains = {1, 2}
  MaxGeneration = 1
  NoStatus = NoStatus
  Forms = {fa, fb}
  Keys = {ka, kb}
  Queries = {qa, qb}
  MaxRequests = 4
  Empty = Empty
INVARIANTS
  RefusedForCause
  EntriesAccounted
  NoSlotLeaks
  WindowKept
  NewestAnswerStays
PROPERTIES
  KeepsPromise
  AnswersEnd
  RunEnds
  FinishIsShown
CHECK_DEADLOCK FALSE
