SPECIFICATION FairSpec
CONSTANTS
  a = a
  b = b
  c = c
  w1 = w1
  w2 = w2
  none = none
  Ids <- MCIds
  IdsFile <- TwoIds
  Workers <- MCWorkers
  None = none
  SubRequests = 2
  MaxAttempts = 2
  Replies = {"ok", "retryable", "client", "subfail"}
  MayInterrupt = TRUE
  MaxKills = 1
  MaxFaults = 0
INVARIANT TypeOK
INVARIANT NoDuplicateRows
PROPERTY ImplementsLog
PROPERTY RunTerminates
