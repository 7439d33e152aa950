SPECIFICATION Spec
CONSTANTS
  Sheets <- MCSheets
  Summaries <- MCSummaries
  Generic = {"g"}
  YayQueries = {"sy"}
  Databases <- MCDatabases
  Empty = ""
  NoRecord = NoRecord
  Limit = 2
  Threshold = 25
  MaxLaunches = 3
  MaxEdits = 1
  MaxChanges = 1
  MaxKills = 1
CHECK_DEADLOCK FALSE
INVARIANT TypeOK
 
PROPERTY ImportKeepsSheet
PROPERTY RerunChangesNothing
