SPECIFICATION FairSpec
CONSTANTS
  c1 = c1
  c2 = c2
  c3 = c3
  Callers <- ThreeCallers
  Interval = 2
  MaxLate = 1
  MaxCalls = 5
  MaxTime = 6
CHECK_DEADLOCK FALSE
INVARIANT TypeOK
INVARIANT SlotsSpaced
INVARIANT RateCapped
PROPERTY WaitReturns
