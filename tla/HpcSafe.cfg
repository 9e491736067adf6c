SPECIFICATION FairSpec
CONSTANTS
  Client = {c1, c2}
  MaxCalls = 2
  MaxRedeliver = 1
  MaxRestarts = 1
INVARIANTS
  TypeOK
  ReplyLag
  DelWaitsForAnswer
  CarriedOnce
PROPERTY AcceptedCallReturns
CHECK_DEADLOCK FALSE
