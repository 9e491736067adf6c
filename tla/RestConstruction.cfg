SPECIFICATION Spec
CONSTANT MaxSlashes = 2
INVARIANTS
  TypeOK
  Idempotent
  EndpointKept
  HeadersOwned
CHECK_DEADLOCK FALSE
