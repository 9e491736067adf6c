SPECIFICATION Spec
CONSTANT MaxItems = 4
INVARIANTS
  TypeOK
  ErrorFreesAll
  CleanAfterFailure
  SuccessHandsOutAll
