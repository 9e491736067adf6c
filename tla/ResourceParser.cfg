SPECIFICATION Spec
CONSTANTS
  Query <- MCQuery
  IntMax = 7
INVARIANTS
  GatesAsListed
  CompleteOrThrow
CHECK_DEADLOCK FALSE
