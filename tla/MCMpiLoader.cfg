CONSTANTS
  NRanks = 4
  MaxFiles = 5
  MaxEvents = 3
  MaxFailures = 2
SPECIFICATION Spec
INVARIANTS
  TypeOK
  LoadedOnce
  Balanced
  AgreesWithNumerology
PROPERTY LoadingEnds
