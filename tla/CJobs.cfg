SPECIFICATION Spec
CONSTANTS
  Thread = {t1, t2}
  Job = {j1}
  Uuid = {u1, u2}
  NoUuid = NoUuid
  Timeout = {3}
  IntHalf = 4
  MaxSubmits = 2
  NumericUuid = {u1}
SYMMETRY Symmetry
INVARIANTS
  TypeOK
  UuidOfLastAcknowledged
  OneJobPerSubmit
  CancelOkMeansTerminal
PROPERTIES
  SubmitCodeIsTrue
  FailuresContained
