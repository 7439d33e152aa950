SPECIFICATION Spec
CONSTANTS
  s1 = s1
  s2 = s2
  s3 = s3
  s4 = s4
  s5 = s5
  s6 = s6
  s7 = s7
  s8 = s8
  s9 = s9
  kb1 = kb1
  kb2 = kb2
  none = none
  any = any
  negeri = negeri
  swasta = swasta
  sd = sd
  smp = smp
  Schools <- FullSchools
  Kab <- FullKab
  Status <- FullStatus
  Bentuk <- FullBentuk
  NoFilter = any
  NoKab = none
  KabOrder <- MCKabOrder
  Statuses <- MCStatuses
  Categories <- MCCategories
  Bases <- MCBases
  Window = 3
  PageSize = 2
  MaxRecords = 0
  RestartFlags = {TRUE, FALSE}
  Steady = FALSE
  MaxKills = 0
  MaxOutages = 2
  MaxFaults = 0
INVARIANT NoDuplicateRows
INVARIANT VerifiedIsComplete
