SPECIFICATION Spec
CONSTANTS
  Thread = {t1}
  Job = {j1}
  Uuid = {u1}
  NoUuid = NoUuid
  Timeout = {1}
  IntHalf = 4
  MaxSubmits = 1
PROPERTY NullMeansStillRunning
