SPECIFICATION FairSpec
CONSTANTS
  Thread = {t1, t2}
  Job = {j1}
  Uuid = {u1}
  NoUuid = NoUuid
  Timeout = {0, 1, 2, 3, 5, 8, 11}
  IntHalf = 4
  MaxSubmits = 1
INVARIANT WaitBudget
PROPERTIES
  EarlyNullIsTrue
  CallReturns
  CallComesToEnd
