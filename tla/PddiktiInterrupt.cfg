SPECIFICATION Spec
CONSTANTS
  a = a
  b = b
  c = c
  w1 = w1
  w2 = w2
  none = none
  Ids <- MCIds
  IdsFile <- TwoIds
  Workers <- MCWorkers
  None = none
  SubRequests = 2
  MaxAttempts = 2
  Replies = {"ok"}
  MayInterrupt = TRUE
  MaxKills = 0
  MaxFaults = 0
INVARIANT DoneRowsWhole
