SPECIFICATION FairSpec
CONSTANTS
  a = a
  b = b
  c = c
  w1 = w1
  w2 = w2
  none = none
  nl = nl
  Ids <- MCIds
  IdsFile <- TwoIds
  Workers <- MCWorkers
  NoWorker = none
  Newline = nl
  MaxAttempts = 2
  MaxRecords = 0
  RawPath = FALSE
  ErrPath = TRUE
  RestartFlags = {FALSE}
  Replies = {"ok", "retryable"}
  MaxKills = 1
  PowerLoss = TRUE
  MaxFaults = 1
PROPERTY RunTerminates
PROPERTY ResumeCompletes
PROPERTY NeverRewritesDone
