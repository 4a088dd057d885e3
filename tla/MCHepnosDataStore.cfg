CONSTANTS
  NJobs = 6
  MaxSpurious = 2
SPECIFICATION Spec
INVARIANTS
  TypeOK
  ExactlyOnce
  WorkInsideItsCall
  DamageBounded
PROPERTIES
  ExecutorSafeSpec
  CallerNeverStuck
