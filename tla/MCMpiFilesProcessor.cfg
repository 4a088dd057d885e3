CONSTANTS
  NRanks = 3
  NStages = 3
  MaxLines = 4
SPECIFICATION Spec
INVARIANTS
  TypeOK
  InStep
  FailureIsKept
  NoPartialWorkflow
PROPERTY RanksEnd
