SPECIFICATION FairSpec
CONSTANTS
  Client = {c1}
  MaxCalls = 3
  MaxRestarts = 1
  Job = {j1}
  Uuid = {u1, u2}
  NoUuid = NoUuid
  Timeout = {1}
  IntHalf = 4
  MaxSubmits = 2
INVARIANTS
  TypeOK
  CancelWasAnswered
PROPERTIES
  JobCallReturns
  ImplementsJobClient
  ImplementsTransport
CHECK_DEADLOCK FALSE
