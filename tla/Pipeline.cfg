SPECIFICATION Spec
CONSTANTS
  i1 = i1
  i2 = i2
  i3 = i3
  Header = Header
  Torn = Torn
  Garbled = Garbled
  NoId = NoId
  Tools = {"sekolah", "pddikti"}
  Lists <- MCLists
  Items <- MCItems
  Ids <- MCIds
  GroupOf <- MCGroupOf
  Caps = {1, 9}
  ChunkSizes = {0, 2, 3}
  PageSize = 2
  MaxRuns = 2
  MaxKills = 1
  MaxSplits = 2
  MaxSplitLosses = 1
  MaxParts = 2
  MaxOutages = 1
  MaxCrashes = 1
  MaxTroubles = 1
  MaxCommands = 3
  Flows = {"whole", "parts", "groups"}
INVARIANT TypeOK
INVARIANT SuccessIsExact
INVARIANT PartsCoverList
INVARIANT GroupsCoverList
INVARIANT ExitZeroSettlesList
INVARIANT NoSchoolTwice
PROPERTY RerunsFinish
