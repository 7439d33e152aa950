SPECIFICATION Spec
CONSTANTS
  a = a
  b = b
  c = c
  w1 = w1
  w2 = w2
  none = none
  nl = nl
  Ids <- MCIds
  IdsFile <- ThreeIds
  Workers <- MCWorkers
  NoWorker = none
  Newline = nl
  MaxAttempts = 2
  MaxRecords = 2
  RawPath = TRUE
  ErrPath = TRUE
  RestartFlags = {TRUE, FALSE}
  Replies = {"ok", "retryable", "client"}
  MaxKills = 1
  PowerLoss = FALSE
  MaxFaults = 0
SYMMETRY SymmetricWorkers
INVARIANT TypeOK
INVARIANT Consistent
INVARIANT AckedHaveRows
INVARIANT AckedHaveBodies
INVARIANT NoDuplicateRows
INVARIANT OneObjectPerLine
INVARIANT RowsUnderHeader
INVARIANT CleanExitAccountsForAll
PROPERTY ImplementsLog
