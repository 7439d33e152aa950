SPECIFICATION RerunSpec
CONSTANTS
  s1 = s1
  s2 = s2
  s3 = s3
  s4 = s4
  s5 = s5
  s6 = s6
  s7 = s7
  s8 = s8
  s9 = s9
  kb1 = kb1
  kb2 = kb2
  none = none
  any = any
  negeri = negeri
  swasta = swasta
  sd = sd
  smp = smp
  Schools <- OverSchools
  Kab <- OverKab
  Status <- OverStatus
  Bentuk <- OverBentuk
  NoFilter = any
  NoKab = none
  KabOrder <- MCKabOrder
  Statuses <- MCStatuses
  Categories <- MCCategories
  Bases <- MCBases
  Window = 3
  PageSize = 2
  MaxRecords = 4
  RestartFlags = {TRUE, FALSE}
  Steady = TRUE
  MaxKills = 1
  MaxOutages = 2
  MaxFaults = 1
INVARIANT TypeOK
INVARIANT AllOrNothing
INVARIANT DoneShardsComplete
PROPERTY RunTerminates
PROPERTY ResumeAfterOutages
