SPECIFICATION Spec
CONSTANTS
  Thread = {t1}
  Job = {j1}
  Uuid = {u1}
  NoUuid = NoUuid
  Timeout = {3, 4}
  IntHalf = 4
  MaxSubmits = 1
PROPERTY TimeoutIsSlept
