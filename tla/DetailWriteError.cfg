SPECIFICATION Spec
CONSTANTS
  a = a
  b = b
  c = c
  w1 = w1
  w2 = w2
  none = none
  nl = nl
  Ids <- MCIds
  IdsFile <- TwoIds
  Workers <- MCWorkers
  NoWorker = none
  Newline = nl
  MaxAttempts = 2
  MaxRecords = 0
  RawPath = TRUE
  ErrPath = TRUE
  RestartFlags = {FALSE}
  Replies = {"ok"}
  MaxKills = 0
  PowerLoss = FALSE
  MaxFaults = 1
INVARIANT AckedHaveRows
