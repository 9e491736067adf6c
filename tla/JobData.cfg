SPECIFICATION Spec
CONSTANTS
  Value = {"a", "b"}
  Json <- MCJson
  MicroDigits = 2
  DaySeconds = 2
  IntHalf = 1024
  Word = 65536
  MaxSets = 2
INVARIANTS
  TypeOK
  CountsAsSent
  TimestampsInOrder
  PayloadIsAsTold
