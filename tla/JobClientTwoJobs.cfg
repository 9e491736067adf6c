SPECIFICATION Spec
CONSTANTS
  Thread = {t1, t2}
  Job = {j1, j2}
  Uuid = {u1, u2}
  NoUuid = NoUuid
  Timeout = {1}
  IntHalf = 4
  MaxSubmits = 1
SYMMETRY Symmetry
INVARIANTS
  OneJobPerSubmit
  ResultIsOwn
